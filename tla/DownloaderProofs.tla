-------------------------- MODULE DownloaderProofs --------------------------
(***************************************************************************)
(* What Downloader promises for any processes, paths, urls and manifests:  *)
(* with a manifest that stays as it is and every http url pinned, a line   *)
(* that is skipped is installed and ninja sees everything installed,       *)
(* however processes interleave, fail or are killed.                       *)
(*                                                                         *)
(* The argument: only the holder of the lock is past open_manifest, so the *)
(* files change only for the line at the head of its todo list; between    *)
(* delete_path and the rename of download.done that line is not recorded   *)
(* for its url (Fetching) or is installed already (Recording), and the     *)
(* lines update_map carries over are installed too.                        *)
(***************************************************************************)
EXTENDS Downloader, TLAPS

USE SMTT(30)

Elems(s) == {s[i] : i \in DOMAIN s}

(* The process is past open_manifest.                                        *)
Locked(p) == pc[p] \notin {"idle", "open"}

LockInv == \A p \in Procs : Locked(p) <=> lock = p

(* The labels at which a line is in work.                                    *)
HashMap   == {"hash_copy", "hash_unlink", "hash_rename"}
Fetching  == {"delete", "fetch", "body", "hash", "extract", "unpack"}
Recording == {"done_copy", "done_unlink", "done_rename"}

(* What the locals of main hold where they are used.                         *)
Shape(p) ==
  /\ pc[p] \in Fetching \cup Recording \cup HashMap =>
       todo[p] # << >> /\ Head(todo[p]).kind = "item"
  /\ pc[p] \in {"body", "hash"} \cup HashMap => tmp \in Content
  /\ pc[p] \in {"hash", "extract", "unpack"} \cup HashMap => src[p] \in Content
  /\ pc[p] \in {"hash_unlink", "hash_rename"} =>
       outbuf[p] \in [Urls -> Content \cup {None, Cut}]
  /\ pc[p] \in {"done_unlink", "done_rename"} =>
       outbuf[p] \in [Paths -> Urls \cup {None, Cut}]

ShapeInv == \A p \in Procs : Shape(p)

(* The parts of TypeOK: the files, and the locals of the processes.          *)
FilesOK ==
  /\ done \in [Paths -> Urls \cup {None, Cut}]
  /\ hash \in [Urls -> Content \cup {None, Cut}]
  /\ tmp \in Content \cup {None}
  /\ disk \in [Paths -> SUBSET Token]

LocalsOK ==
  /\ todo \in [Procs -> Seq(Line)]
  /\ want \in [Procs -> Seq(Line)]
  /\ src \in [Procs -> Content \cup {None}]
  /\ outbuf \in [Procs -> {None} \cup [Paths -> Urls \cup {None, Cut}]
                             \cup [Urls -> Content \cup {None, Cut}]]

BaseInv == TypeOK /\ LockInv /\ ShapeInv

-----------------------------------------------------------------------------
(* A sequence that is not empty is its head and its tail.                    *)
LEMMA HeadTail ==
  ASSUME NEW S, NEW s \in Seq(S), s # << >>
  PROVE  /\ Head(s) \in S
         /\ Tail(s) \in Seq(S)
         /\ Elems(s) = {Head(s)} \cup Elems(Tail(s))
<1>1. Len(s) \in Nat /\ Len(s) > 0 /\ DOMAIN s = 1..Len(s)
  OBVIOUS
<1>2. Head(s) = s[1] /\ Tail(s) \in Seq(S) /\ Head(s) \in S
  OBVIOUS
<1>3. /\ DOMAIN Tail(s) = 1..(Len(s) - 1)
      /\ \A i \in 1..(Len(s) - 1) : Tail(s)[i] = s[i + 1]
  BY <1>1
<1>4. Elems(Tail(s)) \subseteq Elems(s) /\ Head(s) \in Elems(s)
  BY <1>1, <1>2, <1>3 DEF Elems
<1>5. ASSUME NEW i \in 1..Len(s)
      PROVE  s[i] \in {Head(s)} \cup Elems(Tail(s))
  <2>1. CASE i = 1
    BY <2>1, <1>2, Zenon
  <2>2. CASE i # 1
    <3>1. i - 1 \in 1..(Len(s) - 1) /\ Tail(s)[i - 1] = s[i]
      BY <2>2, <1>1, <1>3
    <3>2. QED
      BY <3>1, <1>3, ZenonT(30) DEF Elems
  <2>3. QED
    BY <2>1, <2>2, Zenon
<1>6. QED
  BY <1>1, <1>2, <1>4, <1>5, Zenon DEF Elems

(* The line in work is a line.                                               *)
LEMMA HeadIsLine ==
  ASSUME TypeOK, NEW p \in Procs, todo[p] # << >>
  PROVE  /\ Head(todo[p]) \in Line /\ path(p) \in Paths /\ url(p) \in Urls
         /\ Tail(todo[p]) \in Seq(Line)
<1>1. todo[p] \in Seq(Line)
  BY Zenon DEF TypeOK
<1>2. Head(todo[p]) \in Line /\ Tail(todo[p]) \in Seq(Line)
  BY <1>1, HeadTail, Zenon
<1>3. Head(todo[p]).path \in Paths /\ Head(todo[p]).url \in Urls
  BY <1>2, Zenon DEF Line
<1>4. QED
  BY <1>2, <1>3, Zenon DEF path, url

(* The file after fflush, fclose and the second fopen is the one the stream  *)
(* was copied to, or what is left of it.                                     *)
LEMMA ReopenedIs ==
  ASSUME tmp \in Content, NEW c \in Reopened
  PROVE  /\ c \in Content
         /\ c \in {tmp, [tmp EXCEPT !.full = FALSE]}
         /\ "tmp" \notin Faults => c = tmp
<1>1. c = tmp \/ (c = [tmp EXCEPT !.full = FALSE] /\ "tmp" \in Faults)
  BY Zenon DEF Reopened
<1>2. [tmp EXCEPT !.full = FALSE] \in Content
  BY Zenon DEF Content
<1>3. QED
  BY <1>1, <1>2, Zenon

(* What update_map leaves of a map holds no value that is not in the map.    *)
LEMMA WrittenFrom ==
  ASSUME NEW map, NEW key, NEW m \in Written(map, key)
  PROVE  /\ m = map \/ (m = [k \in DOMAIN map |-> m[k]] /\ "map" \in Faults)
         /\ \A k \in DOMAIN map : m[k] \in {map[k], None, Cut}
<1>1. CASE m = map
  BY <1>1, Zenon
<1>2. CASE m \in Beginnings(map, key) /\ "map" \in Faults
  <2>1. PICK kept \in SUBSET (DOMAIN map \ {key}), cut \in {None} \cup DOMAIN map :
          m = [k \in DOMAIN map |->
                 IF k \in kept THEN map[k]
                 ELSE IF k = cut /\ map[k] # None THEN Cut ELSE None]
    BY <1>2 DEF Beginnings
  <2>2. QED
    BY <1>2, <2>1
<1>3. QED
  BY <1>1, <1>2, Zenon DEF Written

(* It is a map of the same type.                                             *)
LEMMA WrittenIs ==
  ASSUME NEW K, NEW V, NEW map \in [K -> V \cup {None, Cut}], NEW key, NEW m \in Written(map, key)
  PROVE  m \in [K -> V \cup {None, Cut}]
<1>1. DOMAIN map = K /\ \A k \in K : map[k] \in V \cup {None, Cut}
  BY Zenon
<1>2. /\ m = map \/ m = [k \in DOMAIN map |-> m[k]]
      /\ \A k \in DOMAIN map : m[k] \in {map[k], None, Cut}
  BY WrittenFrom
<1>3. QED
  BY <1>1, <1>2

LEMMA BaseInit == Init => BaseInv
<1> SUFFICES ASSUME Init PROVE BaseInv
  BY Zenon
<1>1. \A u \in Urls, v \in Vers : Whole(u, v) \in Token
  BY Zenon DEF Whole, Token, Content
<1>2. TypeOK
  BY ConstantsOK, <1>1 DEF Init, TypeOK, PcLabels
<1>3. LockInv /\ ShapeInv
  BY ConstantsOK, Zenon DEF Init, LockInv, Locked, ShapeInv, Shape, HashMap, Fetching, Recording
<1>4. QED
  BY <1>2, <1>3, Zenon DEF BaseInv

(* A process that does not hold the lock has no locals to speak of.          *)
LEMMA ShapeFree == ASSUME NEW p \in Procs, ~Locked(p) PROVE Shape(p)
BY Zenon DEF Shape, Locked, HashMap, Fetching, Recording

(* After a step of q only q's place and what changed are to be looked at.    *)
LEMMA BaseTypes ==
  ASSUME BaseInv, NEW q \in Procs, NEW l \in PcLabels, Goto(q, l),
         manifest' = manifest, lock' \in Procs \cup {None},
         runs' \in [Procs -> Nat], kills' \in Nat, FilesOK', LocalsOK'
  PROVE  /\ TypeOK'
         /\ pc'[q] = l
         /\ \A p \in Procs : p # q => pc'[p] = pc[p]
<1>1. pc \in [Procs -> PcLabels] /\ manifest \in Manifests
  BY Zenon DEF BaseInv, TypeOK
<1>2. /\ pc' \in [Procs -> PcLabels] /\ pc'[q] = l
      /\ \A p \in Procs : p # q => pc'[p] = pc[p]
  BY <1>1, Zenon DEF Goto
<1>3. QED
  BY <1>1, <1>2, Zenon DEF TypeOK, FilesOK, LocalsOK

(* The holder of the lock goes on.                                           *)
LEMMA BaseHolder ==
  ASSUME BaseInv, NEW q \in Procs, NEW l \in PcLabels \ {"idle", "open"}, Goto(q, l),
         Locked(q), UNCHANGED <<manifest, lock, runs, kills>>,
         FilesOK', LocalsOK', Shape(q)'
  PROVE  BaseInv'
<1>1. /\ TypeOK' /\ pc'[q] = l
      /\ \A p \in Procs : p # q => pc'[p] = pc[p]
  BY BaseTypes DEF BaseInv, TypeOK
<1>2. lock = q /\ \A p \in Procs : p # q => ~Locked(p)
  BY Zenon DEF BaseInv, LockInv
<1>3. Locked(q)' /\ \A p \in Procs : p # q => ~Locked(p)'
  BY <1>1, <1>2, Zenon DEF Locked
<1>4. LockInv'
  BY <1>2, <1>3, Zenon DEF LockInv
<1>5. ShapeInv'
  BY <1>3, ShapeFree, Zenon DEF ShapeInv, Shape, Locked, HashMap, Fetching, Recording
<1>6. QED
  BY <1>1, <1>4, <1>5, Zenon DEF BaseInv

(* The holder of the lock ends.                                              *)
LEMMA BaseEnd ==
  ASSUME BaseInv, NEW q \in Procs, Goto(q, "idle"), Locked(q), lock' = None,
         UNCHANGED <<manifest, runs>>, kills' \in Nat, FilesOK', LocalsOK'
  PROVE  BaseInv'
<1>1. /\ TypeOK' /\ pc'[q] = "idle"
      /\ \A p \in Procs : p # q => pc'[p] = pc[p]
  BY BaseTypes DEF BaseInv, TypeOK, PcLabels
<1>2. \A p \in Procs : p # q => ~Locked(p)
  BY Zenon DEF BaseInv, LockInv
<1>3. \A p \in Procs : ~Locked(p)'
  BY <1>1, <1>2, Zenon DEF Locked
<1>4. LockInv'
  BY <1>3, ConstantsOK, Zenon DEF LockInv
<1>5. ShapeInv'
  BY <1>3, Zenon DEF ShapeInv, Shape, Locked, HashMap, Fetching, Recording
<1>6. QED
  BY <1>1, <1>4, <1>5, Zenon DEF BaseInv

(* The locals of a process that ends are forgotten.                          *)
LEMMA Forgotten ==
  ASSUME BaseInv, NEW q \in Procs,
         todo' = [todo EXCEPT ![q] = << >>], want' = [want EXCEPT ![q] = << >>],
         src' = [src EXCEPT ![q] = None], outbuf' = [outbuf EXCEPT ![q] = None]
  PROVE  LocalsOK'
<1>1. << >> \in Seq(Line)
  OBVIOUS
<1>2. QED
  BY <1>1, Zenon DEF BaseInv, TypeOK, LocalsOK

LEMMA BaseExit ==
  ASSUME BaseInv, NEW q \in Procs, Exit(q), Locked(q),
         UNCHANGED <<done, hash, disk>>, tmp' \in {tmp, None}
  PROVE  BaseInv'
<1>1. FilesOK'
  BY Zenon DEF BaseInv, TypeOK, FilesOK
<1>2. LocalsOK'
  BY Forgotten, ZenonT(30) DEF Exit
<1>3. kills' \in Nat
  BY Zenon DEF Exit, BaseInv, TypeOK
<1>4. QED
  BY <1>1, <1>2, <1>3, BaseEnd, Zenon DEF Exit

(* Each step of a process keeps the types, the lock and the locals' shape.   *)
LEMMA BaseStep == BaseInv /\ [Next]_vars => BaseInv'
<1> SUFFICES ASSUME BaseInv, [Next]_vars PROVE BaseInv'
  BY Zenon
<1>1. CASE UNCHANGED vars
  BY <1>1, Zenon DEF vars, BaseInv, TypeOK, LockInv, Locked, ShapeInv, Shape
<1>2. ASSUME NEW q \in Procs,
             Launch(q) \/ open_manifest(q) \/ open_manifest_fails(q) \/ Step(q)
               \/ Hang(q) \/ Kill(q)
      PROVE  BaseInv'
  <2>a. FilesOK /\ LocalsOK /\ pc \in [Procs -> PcLabels] /\ Shape(q)
    BY Zenon DEF BaseInv, TypeOK, FilesOK, LocalsOK, ShapeInv
  <2>b. todo[q] # << >> => /\ path(q) \in Paths /\ url(q) \in Urls
                           /\ Tail(todo[q]) \in Seq(Line)
    BY HeadIsLine, Zenon DEF BaseInv
  <2>c. UNCHANGED files => FilesOK'
    BY <2>a, Zenon DEF files, FilesOK
  <2>d. UNCHANGED <<todo, want, src, outbuf>> => LocalsOK'
    BY <2>a, Zenon DEF LocalsOK
  <2>e. manifest \in Seq(Line) /\ runs \in [Procs -> Nat] /\ kills \in Nat
        /\ lock \in Procs \cup {None}
    BY ConstantsOK, Zenon DEF BaseInv, TypeOK
  <2>f. \A p \in Procs : pc'[p] = pc[p] /\ UNCHANGED <<todo, src, outbuf, tmp>> => Shape(p)'
    BY Zenon DEF BaseInv, ShapeInv, Shape
  <2>1. CASE Launch(q)
    <3>1. ~Locked(q) /\ "open" \in PcLabels /\ Goto(q, "open")
      BY <2>1, Zenon DEF Launch, Locked, PcLabels
    <3>2. runs' \in [Procs -> Nat] /\ UNCHANGED <<manifest, files, lock, todo, want, src, outbuf, kills>>
      BY <2>1, <2>e DEF Launch
    <3>3. TypeOK' /\ pc'[q] = "open" /\ \A p \in Procs : p # q => pc'[p] = pc[p]
      BY <3>1, <3>2, <2>c, <2>d, <2>e, BaseTypes, Zenon
    <3>4. LockInv'
      BY <3>1, <3>2, <3>3, Zenon DEF BaseInv, LockInv, Locked
    <3>5. \A p \in Procs : p # q => Shape(p)'
      BY <3>2, <3>3, <2>f, Zenon DEF files
    <3>6. Shape(q)'
      BY <3>3, Zenon DEF Shape, HashMap, Fetching, Recording
    <3>7. QED
      BY <3>3, <3>4, <3>5, <3>6, Zenon DEF BaseInv, ShapeInv
  <2>2. CASE open_manifest_fails(q)
    <3>1. ~Locked(q) /\ "idle" \in PcLabels /\ Goto(q, "idle")
      BY <2>2, Zenon DEF open_manifest_fails, Locked, PcLabels
    <3>2. runs' \in [Procs -> Nat] /\ UNCHANGED <<manifest, files, lock, todo, want, src, outbuf, kills>>
      BY <2>2, <2>e, Zenon DEF open_manifest_fails
    <3>3. TypeOK' /\ pc'[q] = "idle" /\ \A p \in Procs : p # q => pc'[p] = pc[p]
      BY <3>1, <3>2, <2>c, <2>d, <2>e, BaseTypes, Zenon
    <3>4. LockInv'
      BY <3>1, <3>2, <3>3, Zenon DEF BaseInv, LockInv, Locked
    <3>5. \A p \in Procs : p # q => Shape(p)'
      BY <3>2, <3>3, <2>f, Zenon DEF files
    <3>6. Shape(q)'
      BY <3>3, Zenon DEF Shape, HashMap, Fetching, Recording
    <3>7. QED
      BY <3>3, <3>4, <3>5, <3>6, Zenon DEF BaseInv, ShapeInv
  <2>3. CASE open_manifest(q)
    <3>1. /\ Goto(q, "loop") /\ "loop" \in PcLabels /\ lock = None /\ lock' = q
          /\ UNCHANGED <<manifest, files, src, outbuf, runs, kills>>
      BY <2>3, Zenon DEF open_manifest, PcLabels
    <3>2. LocalsOK'
      BY <2>3, <2>a, <2>e, Zenon DEF open_manifest, LocalsOK
    <3>3. TypeOK' /\ pc'[q] = "loop" /\ \A p \in Procs : p # q => pc'[p] = pc[p]
      BY <3>1, <3>2, <2>c, <2>e, BaseTypes, Zenon
    <3>4. \A p \in Procs : ~Locked(p)
      BY <3>1, ConstantsOK, Zenon DEF BaseInv, LockInv
    <3>5. Locked(q)' /\ \A p \in Procs : p # q => ~Locked(p)'
      BY <3>3, <3>4, Zenon DEF Locked
    <3>6. LockInv'
      BY <3>1, <3>5, Zenon DEF LockInv
    <3>7. ShapeInv'
      BY <3>3, <3>5, Zenon DEF ShapeInv, Shape, Locked, HashMap, Fetching, Recording
    <3>8. QED
      BY <3>3, <3>6, <3>7, Zenon DEF BaseInv
  <2>4. CASE Kill(q)
    <3>1. LocalsOK'
      BY <2>4, Forgotten, ZenonT(30) DEF Kill
    <3>2. FilesOK'
      BY <2>4, <2>c, Zenon DEF Kill
    <3>3. kills' \in Nat
      BY <2>4, <2>e DEF Kill
    <3>4. QED
      BY <2>4, <3>1, <3>2, <3>3, BaseEnd, Zenon DEF Kill, Locked
  <2>5. CASE close_manifest(q)
    BY <2>5, BaseExit, Zenon DEF close_manifest, Locked, files
  <2>6. CASE InvalidLine(q)
    BY <2>6, BaseExit, Zenon DEF InvalidLine, Locked, files
  <2>7. CASE FetchFails(q)
    BY <2>7, BaseExit, Zenon DEF FetchFails, Locked, files
  <2>8. CASE WriteFails(q)
    BY <2>8, BaseExit, Zenon DEF WriteFails, Locked, files
  <2>9. CASE HashMismatch(q)
    BY <2>9, BaseExit, Zenon DEF HashMismatch, Locked, files
  <2>10. CASE MapOpenFails(q)
    BY <2>10, BaseExit, Zenon DEF MapOpenFails, Locked, files
  <2>11. CASE MapRenameFails(q)
    BY <2>11, BaseExit, Zenon DEF MapRenameFails, Locked, files
  <2>12. CASE ExtractFails(q)
    BY <2>12, BaseExit, Zenon DEF ExtractFails, Locked, files
  <2>13. CASE run_ninja(q)
    <3>1. CASE Exit(q)
      BY <2>13, <3>1, BaseExit, Zenon DEF run_ninja, Locked, files
    <3>2. CASE Goto(q, "close") /\ UNCHANGED <<manifest, lock, todo, want, src, outbuf, runs, kills>>
      <4>1. FilesOK' /\ LocalsOK' /\ Locked(q)
        BY <2>13, <3>2, <2>c, <2>d, Zenon DEF run_ninja, Locked
      <4>2. pc'[q] = "close"
        BY <3>2, <2>a, Zenon DEF Goto
      <4>3. Shape(q)'
        BY <4>2, Zenon DEF Shape, HashMap, Fetching, Recording
      <4>4. QED
        BY <3>2, <4>1, <4>3, BaseHolder, Zenon DEF PcLabels
    <3>3. QED
      BY <2>13, <3>1, <3>2, Zenon DEF run_ninja
  <2>14. CASE NoMoreLines(q)
    <3>1. PICK l \in {"ninja", "close"} : Goto(q, l)
      BY <2>14, Zenon DEF NoMoreLines
    <3>2. FilesOK' /\ LocalsOK' /\ Locked(q) /\ UNCHANGED <<manifest, lock, runs, kills>>
      BY <2>14, <2>c, <2>d, Zenon DEF NoMoreLines, Locked
    <3>3. pc'[q] = l
      BY <3>1, <2>a, Zenon DEF Goto
    <3>4. Shape(q)'
      BY <3>3, Zenon DEF Shape, HashMap, Fetching, Recording
    <3>5. QED
      BY <3>1, <3>2, <3>4, BaseHolder, Zenon DEF PcLabels
  <2>15. CASE SkipLine(q)
    <3>1. Goto(q, "loop") /\ Locked(q) /\ UNCHANGED <<manifest, lock, runs, kills>>
      BY <2>15, <2>a, Zenon DEF SkipLine, Goto, Locked
    <3>2. FilesOK'
      BY <2>15, <2>c, Zenon DEF SkipLine
    <3>3. LocalsOK'
      BY <2>15, <2>a, <2>b, Zenon DEF SkipLine, LocalsOK, Shape, HashMap, Fetching, Recording
    <3>4. pc'[q] = "loop"
      BY <3>1, <2>a, Zenon DEF Goto
    <3>5. Shape(q)'
      BY <2>15, <2>a, <3>4, Zenon DEF SkipLine, Shape, HashMap, Fetching, Recording
    <3>6. QED
      BY <3>1, <3>2, <3>3, <3>5, BaseHolder, Zenon DEF PcLabels
  <2>16. CASE delete_path_begin(q)
    <3>1. Goto(q, "delete") /\ Locked(q) /\ UNCHANGED <<manifest, lock, runs, kills>>
      BY <2>16, <2>a, Zenon DEF delete_path_begin, Goto, Locked
    <3>a. \A t \in Token : Torn(t) \in Token
      BY ZenonT(30) DEF Torn, Token
    <3>2. FilesOK'
      BY <2>16, <2>a, <2>b, <3>a DEF delete_path_begin, FilesOK, Shape, HashMap, Fetching, Recording
    <3>3. LocalsOK'
      BY <2>16, <2>d, Zenon DEF delete_path_begin
    <3>4. pc'[q] = "delete"
      BY <3>1, <2>a, Zenon DEF Goto
    <3>5. Shape(q)'
      BY <2>16, <2>a, <3>4, Zenon DEF delete_path_begin, Shape, HashMap, Fetching, Recording
    <3>6. QED
      BY <3>1, <3>2, <3>3, <3>5, BaseHolder, Zenon DEF PcLabels
  <2>17. CASE delete_path_end(q)
    <3>1. Goto(q, "fetch") /\ Locked(q) /\ UNCHANGED <<manifest, lock, runs, kills>>
      BY <2>17, <2>a, Zenon DEF delete_path_end, Goto, Locked
    <3>2. FilesOK'
      BY <2>17, <2>a, <2>b, Zenon DEF delete_path_end, FilesOK, Shape, HashMap, Fetching, Recording
    <3>3. LocalsOK'
      BY <2>17, <2>d, Zenon DEF delete_path_end
    <3>4. pc'[q] = "fetch"
      BY <3>1, <2>a, Zenon DEF Goto
    <3>5. Shape(q)'
      BY <2>17, <2>a, <3>4, Zenon DEF delete_path_end, Shape, HashMap, Fetching, Recording
    <3>6. QED
      BY <3>1, <3>2, <3>3, <3>5, BaseHolder, Zenon DEF PcLabels
  <2>18. CASE OpenHttp(q)
    <3>a. tmp' \in Content
      BY <2>18, <2>a, <2>b DEF OpenHttp, Shape, Fetching, Content
    <3>1. Goto(q, "body") /\ Locked(q) /\ UNCHANGED <<manifest, lock, runs, kills>>
      BY <2>18, <2>a, Zenon DEF OpenHttp, Goto, Locked
    <3>2. FilesOK'
      BY <2>18, <2>a, <2>b, <3>a, Zenon DEF OpenHttp, FilesOK, Shape, HashMap, Fetching, Recording
    <3>3. LocalsOK'
      BY <2>18, <2>d, Zenon DEF OpenHttp
    <3>4. pc'[q] = "body"
      BY <3>1, <2>a, Zenon DEF Goto
    <3>5. Shape(q)'
      BY <2>18, <2>a, <3>4, <3>a, Zenon DEF OpenHttp, Shape, HashMap, Fetching, Recording
    <3>6. QED
      BY <3>1, <3>2, <3>3, <3>5, BaseHolder, Zenon DEF PcLabels
  <2>19. CASE OpenFileUrl(q)
    <3>a. PICK c \in Content : src' = [src EXCEPT ![q] = c]
      BY <2>19, <2>a, <2>b, ZenonT(30) DEF OpenFileUrl, Shape, Fetching, Content
    <3>1. Goto(q, "extract") /\ Locked(q) /\ UNCHANGED <<manifest, lock, runs, kills>>
      BY <2>19, <2>a, Zenon DEF OpenFileUrl, Goto, Locked
    <3>2. FilesOK'
      BY <2>19, <2>c, Zenon DEF OpenFileUrl
    <3>3. LocalsOK'
      BY <2>19, <2>a, <2>b, <3>a, ZenonT(30) DEF OpenFileUrl, LocalsOK, Shape, HashMap, Fetching,
         Recording
    <3>4. pc'[q] = "extract"
      BY <3>1, <2>a, Zenon DEF Goto
    <3>5. Shape(q)'
      BY <2>19, <2>a, <3>4, <3>a, ZenonT(30) DEF OpenFileUrl, Shape, HashMap, Fetching, Recording,
         LocalsOK
    <3>6. QED
      BY <3>1, <3>2, <3>3, <3>5, BaseHolder, Zenon DEF PcLabels
  <2>20. CASE ReceiveBody(q)
    <3>a. tmp' \in Content /\ src' = [src EXCEPT ![q] = tmp']
      BY <2>20, <2>a, Zenon DEF ReceiveBody, Shape, Content
    <3>1. Goto(q, "hash") /\ Locked(q) /\ UNCHANGED <<manifest, lock, runs, kills>>
      BY <2>20, <2>a, Zenon DEF ReceiveBody, Goto, Locked
    <3>2. FilesOK'
      BY <2>20, <2>a, <2>b, <3>a, Zenon DEF ReceiveBody, FilesOK, Shape, HashMap, Fetching,
         Recording
    <3>3. LocalsOK'
      BY <2>20, <2>a, <2>b, <3>a, Zenon DEF ReceiveBody, LocalsOK, Shape, HashMap, Fetching,
         Recording
    <3>4. pc'[q] = "hash"
      BY <3>1, <2>a, Zenon DEF Goto
    <3>5. Shape(q)'
      BY <2>20, <2>a, <3>4, <3>a, Zenon DEF ReceiveBody, Shape, HashMap, Fetching, Recording,
         LocalsOK
    <3>6. QED
      BY <3>1, <3>2, <3>3, <3>5, BaseHolder, Zenon DEF PcLabels
  <2>21. CASE HashMatch(q)
    <3>a. tmp' \in Content /\ src' = [src EXCEPT ![q] = tmp']
      BY <2>21, <2>a, ReopenedIs, Zenon DEF HashMatch, Shape
    <3>1. Goto(q, "extract") /\ Locked(q) /\ UNCHANGED <<manifest, lock, runs, kills>>
      BY <2>21, <2>a, Zenon DEF HashMatch, Goto, Locked
    <3>2. FilesOK'
      BY <2>21, <2>a, <3>a, Zenon DEF HashMatch, FilesOK
    <3>3. LocalsOK'
      BY <2>21, <2>a, <2>b, <3>a, Zenon DEF HashMatch, LocalsOK, Shape, HashMap, Fetching, Recording
    <3>4. pc'[q] = "extract"
      BY <3>1, <2>a, Zenon DEF Goto
    <3>5. Shape(q)'
      BY <2>21, <2>a, <3>4, <3>a, Zenon DEF HashMatch, Shape, HashMap, Fetching, Recording, LocalsOK
    <3>6. QED
      BY <3>1, <3>2, <3>3, <3>5, BaseHolder, Zenon DEF PcLabels
  <2>22. CASE HashNoval(q)
    <3>1. Goto(q, "hash_copy") /\ Locked(q) /\ UNCHANGED <<manifest, lock, runs, kills>>
      BY <2>22, <2>a, Zenon DEF HashNoval, Goto, Locked
    <3>2. FilesOK'
      BY <2>22, <2>c, Zenon DEF HashNoval
    <3>3. LocalsOK'
      BY <2>22, <2>d, Zenon DEF HashNoval
    <3>4. pc'[q] = "hash_copy"
      BY <3>1, <2>a, Zenon DEF Goto
    <3>5. Shape(q)'
      BY <2>22, <2>a, <3>4, Zenon DEF HashNoval, Shape, HashMap, Fetching, Recording, files
    <3>6. QED
      BY <3>1, <3>2, <3>3, <3>5, BaseHolder, Zenon DEF PcLabels
  <2>23. CASE HashCopy(q)
    <3>a. PICK o \in [Urls -> Content \cup {None, Cut}] : outbuf' = [outbuf EXCEPT ![q] = o]
      BY <2>23, <2>a, ZenonT(30) DEF HashCopy, update_map_copy, FilesOK
    <3>1. Goto(q, "hash_unlink") /\ Locked(q) /\ UNCHANGED <<manifest, lock, runs, kills>>
      BY <2>23, <2>a, Zenon DEF HashCopy, update_map_copy, Goto, Locked
    <3>2. FilesOK'
      BY <2>23, <2>c, Zenon DEF HashCopy, update_map_copy
    <3>3. LocalsOK'
      BY <2>23, <2>a, <2>b, <3>a, ZenonT(30) DEF HashCopy, update_map_copy, LocalsOK, Shape,
         HashMap, Fetching, Recording
    <3>4. pc'[q] = "hash_unlink"
      BY <3>1, <2>a, Zenon DEF Goto
    <3>5. Shape(q)'
      BY <2>23, <2>a, <3>4, <3>a, ZenonT(30) DEF HashCopy, update_map_copy, Shape, HashMap,
         Fetching, Recording, LocalsOK, files
    <3>6. QED
      BY <3>1, <3>2, <3>3, <3>5, BaseHolder, Zenon DEF PcLabels
  <2>24. CASE HashUnlink(q)
    <3>1. Goto(q, "hash_rename") /\ Locked(q) /\ UNCHANGED <<manifest, lock, runs, kills>>
      BY <2>24, <2>a, Zenon DEF HashUnlink, Goto, Locked
    <3>2. FilesOK'
      BY <2>24, <2>a, <2>b, Zenon DEF HashUnlink, FilesOK, Shape, HashMap, Fetching, Recording,
         NoMap
    <3>3. LocalsOK'
      BY <2>24, <2>d, Zenon DEF HashUnlink
    <3>4. pc'[q] = "hash_rename"
      BY <3>1, <2>a DEF Goto
    <3>5. Shape(q)'
      BY <2>24, <2>a, <3>4 DEF HashUnlink, Shape, HashMap, Fetching, Recording
    <3>6. QED
      BY <3>1, <3>2, <3>3, <3>5, BaseHolder, Zenon DEF PcLabels
  <2>25. CASE HashRename(q)
    <3>a. tmp' \in Content /\ src' = [src EXCEPT ![q] = tmp']
      BY <2>25, <2>a, ReopenedIs, Zenon DEF HashRename, Shape, HashMap
    <3>b. [outbuf[q] EXCEPT ![url(q)] = src[q]] \in [Urls -> Content \cup {None, Cut}]
      BY <2>25, <2>a, Zenon DEF HashRename, Shape, HashMap
    <3>c. hash' \in [Urls -> Content \cup {None, Cut}]
      BY <2>25, <3>b, WrittenIs, Zenon DEF HashRename
    <3>1. Goto(q, "extract") /\ Locked(q) /\ UNCHANGED <<manifest, lock, runs, kills>>
      BY <2>25, <2>a, Zenon DEF HashRename, Goto, Locked
    <3>2. FilesOK'
      BY <2>25, <2>a, <3>a, <3>c, Zenon DEF HashRename, FilesOK
    <3>3. LocalsOK'
      BY <2>25, <2>a, <3>a, Zenon DEF HashRename, LocalsOK
    <3>4. pc'[q] = "extract"
      BY <3>1, <2>a, Zenon DEF Goto
    <3>5. Shape(q)'
      BY <2>25, <2>a, <3>a, <3>4, Zenon DEF HashRename, Shape, HashMap, Fetching, Recording, LocalsOK
    <3>6. QED
      BY <3>1, <3>2, <3>3, <3>5, BaseHolder, Zenon DEF PcLabels
  <2>26. CASE DoneCopy(q)
    <3>a. PICK o \in [Paths -> Urls \cup {None, Cut}] : outbuf' = [outbuf EXCEPT ![q] = o]
      BY <2>26, <2>a, ZenonT(30) DEF DoneCopy, update_map_copy, FilesOK
    <3>1. Goto(q, "done_unlink") /\ Locked(q) /\ UNCHANGED <<manifest, lock, runs, kills>>
      BY <2>26, <2>a, Zenon DEF DoneCopy, update_map_copy, Goto, Locked
    <3>2. FilesOK'
      BY <2>26, <2>c, Zenon DEF DoneCopy, update_map_copy
    <3>3. LocalsOK'
      BY <2>26, <2>a, <2>b, <3>a, ZenonT(30) DEF DoneCopy, update_map_copy, LocalsOK, Shape,
         HashMap, Fetching, Recording
    <3>4. pc'[q] = "done_unlink"
      BY <3>1, <2>a, Zenon DEF Goto
    <3>5. Shape(q)'
      BY <2>26, <2>a, <3>4, <3>a, ZenonT(30) DEF DoneCopy, update_map_copy, Shape, HashMap,
         Fetching, Recording, LocalsOK, files
    <3>6. QED
      BY <3>1, <3>2, <3>3, <3>5, BaseHolder, Zenon DEF PcLabels
  <2>27. CASE DoneUnlink(q)
    <3>1. Goto(q, "done_rename") /\ Locked(q) /\ UNCHANGED <<manifest, lock, runs, kills>>
      BY <2>27, <2>a, Zenon DEF DoneUnlink, Goto, Locked
    <3>2. FilesOK'
      BY <2>27, <2>a, <2>b, Zenon DEF DoneUnlink, FilesOK, Shape, HashMap, Fetching, Recording,
         NoMap
    <3>3. LocalsOK'
      BY <2>27, <2>d, Zenon DEF DoneUnlink
    <3>4. pc'[q] = "done_rename"
      BY <3>1, <2>a DEF Goto
    <3>5. Shape(q)'
      BY <2>27, <2>a, <3>4 DEF DoneUnlink, Shape, HashMap, Fetching, Recording
    <3>6. QED
      BY <3>1, <3>2, <3>3, <3>5, BaseHolder, Zenon DEF PcLabels
  <2>28. CASE DoneRename(q)
    <3>1. Goto(q, "loop") /\ Locked(q) /\ UNCHANGED <<manifest, lock, runs, kills>>
      BY <2>28, <2>a DEF DoneRename, Goto, Locked
    <3>2. FilesOK'
      <4>1. [outbuf[q] EXCEPT ![path(q)] = url(q)] \in [Paths -> Urls \cup {None, Cut}]
        BY <2>28, <2>a, <2>b, Zenon DEF DoneRename, Shape, Recording
      <4>2. done' \in [Paths -> Urls \cup {None, Cut}]
        BY <2>28, <4>1, WrittenIs, Zenon DEF DoneRename
      <4>3. QED
        BY <2>28, <2>a, <4>2, Zenon DEF DoneRename, FilesOK
    <3>3. LocalsOK'
      BY <2>28, <2>a, <2>b DEF DoneRename, LocalsOK, Shape, HashMap, Fetching, Recording
    <3>4. pc'[q] = "loop"
      BY <3>1, <2>a, Zenon DEF Goto
    <3>5. Shape(q)'
      BY <2>28, <2>a, <3>4, Zenon DEF DoneRename, Shape, HashMap, Fetching, Recording
    <3>6. QED
      BY <3>1, <3>2, <3>3, <3>5, BaseHolder, Zenon DEF PcLabels
  <2>29. CASE ExtractBegin(q)
    <3>a. [content |-> src[q], whole |-> FALSE] \in Token
      BY <2>29, <2>a, Zenon DEF ExtractBegin, Shape, Token
    <3>1. Goto(q, "unpack") /\ Locked(q) /\ UNCHANGED <<manifest, lock, runs, kills>>
      BY <2>29, <2>a, Zenon DEF ExtractBegin, Goto, Locked
    <3>2. FilesOK'
      BY <2>29, <2>a, <2>b, <3>a, ZenonT(30) DEF ExtractBegin, FilesOK, Shape, HashMap, Fetching,
         Recording
    <3>3. LocalsOK'
      BY <2>29, <2>d, Zenon DEF ExtractBegin
    <3>4. pc'[q] = "unpack"
      BY <3>1, <2>a, Zenon DEF Goto
    <3>5. Shape(q)'
      BY <2>29, <2>a, <3>4, Zenon DEF ExtractBegin, Shape, HashMap, Fetching, Recording
    <3>6. QED
      BY <3>1, <3>2, <3>3, <3>5, BaseHolder DEF PcLabels
  <2>30. CASE ExtractEnd(q)
    <3>a. \A w \in BOOLEAN : [content |-> src[q], whole |-> w] \in Token
      BY <2>30, <2>a, Zenon DEF ExtractEnd, Shape, Token
    <3>1. Goto(q, "done_copy") /\ Locked(q) /\ UNCHANGED <<manifest, lock, runs, kills>>
      BY <2>30, <2>a DEF ExtractEnd, Goto, Locked
    <3>2. FilesOK'
      BY <2>30, <2>a, <2>b, <3>a DEF ExtractEnd, FilesOK, Shape, HashMap, Fetching,
         Recording
    <3>3. LocalsOK'
      BY <2>30, <2>d, Zenon DEF ExtractEnd
    <3>4. pc'[q] = "done_copy"
      BY <3>1, <2>a, Zenon DEF Goto
    <3>5. Shape(q)'
      BY <2>30, <2>a, <3>4, ZenonT(30) DEF ExtractEnd, Shape, HashMap, Fetching, Recording
    <3>6. QED
      BY <3>1, <3>2, <3>3, <3>5, BaseHolder, Zenon DEF PcLabels
  <2>31. CASE CutLineCrash(q)
    BY <2>31, BaseExit, Zenon DEF CutLineCrash, Locked, files
  <2>32. CASE Hang(q)
    <3>1. Goto(q, "hung") /\ Locked(q) /\ UNCHANGED <<manifest, lock, runs, kills>>
      BY <2>32, Zenon DEF Hang, Locked
    <3>2. FilesOK' /\ LocalsOK'
      BY <2>32, <2>c, <2>d, Zenon DEF Hang
    <3>3. pc'[q] = "hung"
      BY <3>1, <2>a, Zenon DEF Goto
    <3>4. Shape(q)'
      BY <3>3, Zenon DEF Shape, HashMap, Fetching, Recording
    <3>5. QED
      BY <3>1, <3>2, <3>4, BaseHolder, Zenon DEF PcLabels
  <2>33. QED
    BY <1>2, <2>1, <2>2, <2>3, <2>4, <2>5, <2>6, <2>7, <2>8, <2>9, <2>10, <2>11, <2>12, <2>13,
       <2>14, <2>15, <2>16, <2>17, <2>18, <2>19, <2>20, <2>21, <2>22, <2>23, <2>24, <2>25, <2>26,
       <2>27, <2>28, <2>29, <2>30, <2>31, <2>32, Zenon DEF Step
<1>3. QED
  BY <1>1, <1>2, Zenon DEF Next

(* Every variable of the model keeps its type, whatever the manifests, the   *)
(* faults, the number of processes and the kills.                            *)
THEOREM TypeCorrect == Spec => []TypeOK
<1>1. BaseInv => TypeOK
  BY Zenon DEF BaseInv
<1>2. QED
  BY BaseInit, BaseStep, <1>1, PTL DEF Spec

(* The flock in open_manifest is enough: of all processes only its holder is *)
(* ever between open_manifest and close_manifest, where the map files,       *)
(* download.tmp and the paths are changed.                                   *)
THEOREM LockExcludes == Spec => []LockInv
<1>1. BaseInv => LockInv
  BY Zenon DEF BaseInv
<1>2. QED
  BY BaseInit, BaseStep, <1>1, PTL DEF Spec

-----------------------------------------------------------------------------
(* Every http url has a checked-in hash, deletes and local reads work, and   *)
(* what was written to download.tmp is there when it is opened again.        *)
AllPinned ==
  /\ \A u \in Urls : Scheme[u] = "http" => Pins[u] # None
  /\ "delete" \notin Faults
  /\ "disk" \notin Faults
  /\ "tmp" \notin Faults

(* The holder works on the manifest as it is, and has installed every line   *)
(* that it has passed.                                                       *)
TodoOK(p) ==
  Locked(p) =>
    /\ want[p] = manifest
    /\ Elems(todo[p]) \subseteq Elems(manifest)
    /\ \A l \in ItemsOf(manifest) :
         l \in Elems(todo[p]) \/ Installed(l.path, l.url)

(* The line in work, until it is recorded.                                   *)
LineOK(p) ==
  /\ pc[p] \in {"ninja", "close"} => todo[p] = << >>
  /\ pc[p] \in Fetching => done[path(p)] # url(p)
  /\ pc[p] \in Recording => Installed(path(p), url(p))
  /\ pc[p] \in {"done_unlink", "done_rename"} =>
       \A l \in ItemsOf(manifest) :
         outbuf[p][l.path] = l.url => Installed(l.path, l.url)

(* The content in hand, and what is below the path meanwhile.                *)
ContentOK(p) ==
  /\ pc[p] \in {"body", "hash"} => Scheme[url(p)] = "http"
  /\ pc[p] = "hash" => src[p] = tmp
  /\ pc[p] \in {"extract", "unpack"} => src[p].url = url(p) /\ src[p].full
  /\ pc[p] \in {"fetch", "body", "hash", "extract"} => disk[path(p)] = {}
  /\ pc[p] = "unpack" =>
       disk[path(p)] = {[content |-> src[p], whole |-> FALSE]}

(* No pin is ever lost: update_map never runs on download.hash.              *)
PinInv ==
  /\ hash = Pins
  /\ \A p \in Procs : pc[p] \notin HashMap

HolderOK(p) == TodoOK(p) /\ LineOK(p) /\ ContentOK(p)

(* The inductive invariant.                                                  *)
IInv ==
  /\ BaseInv
  /\ \A p \in Procs : HolderOK(p)
  /\ PinInv
  /\ SkippedIsInstalled

-----------------------------------------------------------------------------
LEMMA InitIInv == ASSUME AllPinned PROVE Init => IInv
<1> SUFFICES ASSUME Init PROVE IInv
  BY Zenon
<1>1. BaseInv
  BY BaseInit, Zenon
<1>2. \A p \in Procs : HolderOK(p)
  BY ZenonT(30) DEF Init, HolderOK, TodoOK, LineOK, ContentOK, Locked, Fetching, Recording
<1>3. PinInv
  BY Zenon DEF Init, PinInv, HashMap
<1>4. SkippedIsInstalled
  <2> SUFFICES ASSUME NEW l \in ItemsOf(manifest), UpToDate(l)
               PROVE  Installed(l.path, l.url)
    BY Zenon DEF SkippedIsInstalled
  <2>1. l \in Line
    BY <1>1, ConstantsOK DEF BaseInv, TypeOK, ItemsOf
  <2>2. l.path \in Paths /\ l.url \in Urls /\ done[l.path] = l.url
    BY <2>1 DEF Line, UpToDate
  <2>3. done[l.path] # None
    BY <2>2, ConstantsOK, Zenon
  <2>4. PICK v \in Vers : disk[l.path] = {Whole(l.url, v)}
    BY <2>2, <2>3 DEF Init
  <2>5. [url |-> l.url, ver |-> v, full |-> TRUE] \in Content
    BY <2>2, Zenon DEF Content
  <2>6. QED
    BY <2>4, <2>5, ZenonT(30) DEF Installed, Whole
<1>5. QED
  BY <1>1, <1>2, <1>3, <1>4, Zenon DEF IInv

(* A line in the manifest's items is a line, and its path determines it.     *)
LEMMA ItemFacts ==
  ASSUME TypeOK, NEW l \in ItemsOf(manifest)
  PROVE  /\ l \in Line /\ l.path \in Paths /\ l.url \in Urls
         /\ l \in Elems(manifest) /\ l.kind = "item"
         /\ \A k \in ItemsOf(manifest) : k.path = l.path => k = l
<1>1. manifest \in Seq(Line)
  BY ConstantsOK, Zenon DEF TypeOK
<1>2. l \in Line /\ l \in Elems(manifest) /\ l.kind = "item"
  BY <1>1 DEF ItemsOf, Elems
<1>3. l.path \in Paths /\ l.url \in Urls
  BY <1>2, Zenon DEF Line
<1>4. \A k \in ItemsOf(manifest) : k.path = l.path => k = l
  BY PathsDistinct, Zenon DEF TypeOK
<1>5. QED
  BY <1>2, <1>3, <1>4, Zenon

(* An item among the lines left to do is an item of the manifest.            *)
LEMMA HeadIsItem ==
  ASSUME BaseInv, NEW p \in Procs, Locked(p), TodoOK(p),
         todo[p] # << >>, Head(todo[p]).kind = "item"
  PROVE  /\ Head(todo[p]) \in ItemsOf(manifest)
         /\ path(p) \in Paths /\ url(p) \in Urls
<1>1. todo[p] \in Seq(Line)
  BY Zenon DEF BaseInv, TypeOK
<1>2. Head(todo[p]) \in Elems(todo[p])
  BY <1>1, HeadTail, Zenon
<1>3. Head(todo[p]) \in Elems(manifest)
  BY <1>2, Zenon DEF TodoOK
<1>4. Head(todo[p]) \in ItemsOf(manifest)
  BY <1>3, Zenon DEF Elems, ItemsOf
<1>5. QED
  BY <1>1, <1>4, HeadIsLine, Zenon DEF BaseInv

(* Processes that end leave everything as the invariant wants it.            *)
LEMMA SafeExit ==
  ASSUME IInv, BaseInv', UNCHANGED <<manifest, done, hash, disk>>,
         \A p \in Procs : ~Locked(p)'
  PROVE  IInv'
<1>1. \A p \in Procs : HolderOK(p)'
  BY Zenon DEF HolderOK, TodoOK, LineOK, ContentOK, Locked, Fetching, Recording
<1>2. PinInv'
  BY DEF IInv, PinInv, Locked, HashMap
<1>3. SkippedIsInstalled'
  BY Zenon DEF IInv, SkippedIsInstalled, UpToDate, Installed
<1>4. QED
  BY <1>1, <1>2, <1>3 DEF IInv

(* After a step of the holder only the holder is to be looked at.            *)
LEMMA SafeHolder ==
  ASSUME BaseInv', NEW q \in Procs, Locked(q)', HolderOK(q)',
         hash' = Pins, pc'[q] \notin HashMap, SkippedIsInstalled'
  PROVE  IInv'
<1>1. \A p \in Procs : p # q => ~Locked(p)'
  BY Zenon DEF BaseInv, LockInv
<1>2. \A p \in Procs : p # q => HolderOK(p)'
  BY <1>1, ZenonT(30) DEF HolderOK, TodoOK, LineOK, ContentOK, Locked, Fetching, Recording
<1>3. PinInv'
  BY <1>1, Zenon DEF PinInv, Locked, HashMap
<1>4. QED
  BY <1>2, <1>3, Zenon DEF IInv

(* A step of the holder that changes no file but download.tmp.               *)
LEMMA SafeQuiet ==
  ASSUME IInv, BaseInv', NEW q \in Procs, Locked(q), Locked(q)',
         UNCHANGED <<manifest, done, hash, disk, todo, want>>,
         LineOK(q)', ContentOK(q)', pc'[q] \notin HashMap
  PROVE  IInv'
<1>1. TodoOK(q)'
  BY ZenonT(30) DEF IInv, HolderOK, TodoOK, Installed
<1>2. SkippedIsInstalled'
  BY DEF IInv, SkippedIsInstalled, UpToDate, Installed
<1>3. QED
  BY <1>1, <1>2, SafeHolder, ZenonT(30) DEF HolderOK, IInv, PinInv

(* A step of the holder that changes what is below the path in work.         *)
LEMMA SafeDisk ==
  ASSUME IInv, BaseInv', NEW q \in Procs, Locked(q), Locked(q)',
         Head(todo[q]) \in ItemsOf(manifest), todo[q] # << >>,
         done[path(q)] # url(q),
         UNCHANGED <<manifest, done, hash, todo, want>>,
         \A x \in Paths \ {path(q)} : disk'[x] = disk[x],
         LineOK(q)', ContentOK(q)', pc'[q] \notin HashMap
  PROVE  IInv'
<1>1. Head(todo[q]) \in Elems(todo[q])
  BY HeadTail, ZenonT(40) DEF IInv, BaseInv, TypeOK
<1>2. ASSUME NEW l \in ItemsOf(manifest), l # Head(todo[q])
      PROVE  Installed(l.path, l.url) => Installed(l.path, l.url)'
  <2>1. l.path \in Paths /\ l.path # path(q)
    BY <1>2, ItemFacts, ZenonT(30) DEF IInv, BaseInv, path
  <2>2. QED
    BY <2>1, ZenonT(30) DEF Installed
<1>3. TodoOK(q)'
  <2>1. TodoOK(q)
    BY Zenon DEF IInv, HolderOK
  <2>2. /\ want'[q] = manifest' /\ Elems(todo'[q]) \subseteq Elems(manifest')
        /\ Elems(todo'[q]) = Elems(todo[q])
    BY <2>1, ZenonT(30) DEF TodoOK
  <2>3. ASSUME NEW l \in ItemsOf(manifest')
        PROVE  l \in Elems(todo'[q]) \/ Installed(l.path, l.url)'
    <3>1. l \in ItemsOf(manifest)
      BY <2>3, ZenonT(30)
    <3>2. CASE l = Head(todo[q])
      BY <3>2, <1>1, <2>2, ZenonT(30)
    <3>3. CASE l # Head(todo[q])
      BY <3>1, <3>3, <1>2, <2>1, <2>2, ZenonT(30) DEF TodoOK
    <3>4. QED
      BY <3>2, <3>3, Zenon
  <2>4. QED
    BY <2>2, <2>3, ZenonT(30) DEF TodoOK
<1>4. SkippedIsInstalled'
  <2> SUFFICES ASSUME NEW l \in ItemsOf(manifest), done[l.path] = l.url
               PROVE  Installed(l.path, l.url)'
    BY ZenonT(30) DEF SkippedIsInstalled, UpToDate
  <2>1. l # Head(todo[q])
    BY ZenonT(30) DEF path, url
  <2>2. Installed(l.path, l.url)
    BY ZenonT(30) DEF IInv, SkippedIsInstalled, UpToDate
  <2>3. QED
    BY <2>1, <2>2, <1>2, ZenonT(30)
<1>5. QED
  BY <1>3, <1>4, SafeHolder DEF HolderOK, IInv, PinInv

(* A step that leaves the files and the holder alone.                        *)
LEMMA SafeIdle ==
  ASSUME IInv, BaseInv',
         UNCHANGED <<manifest, done, hash, tmp, disk, todo, want, src, outbuf>>,
         \A p \in Procs : Locked(p)' => pc'[p] = pc[p]
  PROVE  IInv'
<1>1. ASSUME NEW p \in Procs, Locked(p)' PROVE HolderOK(p)'
  <2>1. pc'[p] = pc[p] /\ Locked(p) /\ HolderOK(p)
    BY <1>1, Zenon DEF Locked, IInv
  <2>2. path(p)' = path(p) /\ url(p)' = url(p)
    BY Zenon DEF path, url
  <2>3. \A x, u : Installed(x, u)' <=> Installed(x, u)
    BY Zenon DEF Installed
  <2>4. TodoOK(p)'
    BY <2>1, <2>3 DEF HolderOK, TodoOK
  <2>5. LineOK(p)'
    BY <2>1, <2>2, <2>3 DEF HolderOK, LineOK
  <2>6. ContentOK(p)'
    BY <2>1, <2>2, Zenon DEF HolderOK, ContentOK
  <2>7. QED
    BY <2>4, <2>5, <2>6, Zenon DEF HolderOK
<1>2. ASSUME NEW p \in Procs, ~Locked(p)' PROVE HolderOK(p)'
  BY <1>2, ZenonT(30) DEF HolderOK, TodoOK, LineOK, ContentOK, Locked, Fetching, Recording
<1>3. PinInv'
  BY Zenon DEF IInv, PinInv, HashMap, Locked
<1>4. SkippedIsInstalled'
  BY ZenonT(30) DEF IInv, SkippedIsInstalled, UpToDate, Installed
<1>5. QED
  BY <1>1, <1>2, <1>3, <1>4, Zenon DEF IInv

LEMMA SafeStep == ASSUME AllPinned PROVE IInv /\ [Next]_vars => IInv'
<1> SUFFICES ASSUME IInv, [Next]_vars PROVE IInv'
  BY Zenon
<1> USE DEF IInv
<1>1. BaseInv'
  BY BaseStep, Zenon
<1>2. CASE UNCHANGED vars
  BY <1>1, <1>2, SafeIdle DEF vars
<1>3. ASSUME NEW q \in Procs,
             Launch(q) \/ open_manifest(q) \/ open_manifest_fails(q) \/ Step(q)
               \/ Hang(q) \/ Kill(q)
      PROVE  IInv'
  <2>a. lock' = None => \A p \in Procs : ~Locked(p)'
    BY <1>1, ConstantsOK, Zenon DEF BaseInv, LockInv
  <2>b. pc \in [Procs -> PcLabels] /\ todo[q] \in Seq(Line)
    BY Zenon DEF BaseInv, TypeOK
  <2>c. /\ HolderOK(q)
        /\ pc[q] \in Fetching \cup Recording =>
             todo[q] # << >> /\ Head(todo[q]).kind = "item"
    BY Zenon DEF BaseInv, ShapeInv, Shape
  <2>d. (Locked(q) /\ todo[q] # << >> /\ Head(todo[q]).kind = "item") =>
          /\ Head(todo[q]) \in ItemsOf(manifest)
          /\ path(q) \in Paths /\ url(q) \in Urls
    BY <2>c, HeadIsItem, Zenon DEF HolderOK
  <2>e. disk \in [Paths -> SUBSET Token] /\ src \in [Procs -> Content \cup {None}]
    BY Zenon DEF BaseInv, TypeOK
  <2>1. CASE Launch(q)
    BY <2>1, <1>1, <2>b, SafeIdle, Zenon DEF Launch, Goto, files, Locked
  <2>2. CASE open_manifest_fails(q)
    BY <2>2, <1>1, <2>b, SafeIdle, Zenon DEF open_manifest_fails, Goto, files, Locked
  <2>3. CASE open_manifest(q)
    <3>1. pc'[q] = "loop" /\ todo'[q] = manifest /\ want'[q] = manifest
      BY <2>3, <2>b, Zenon DEF open_manifest, Goto, BaseInv, TypeOK
    <3>2. HolderOK(q)'
      BY <2>3, <3>1, ItemFacts, ZenonT(30) DEF open_manifest, files, HolderOK, TodoOK, LineOK,
         ContentOK,
         Fetching, Recording, BaseInv
    <3>3. SkippedIsInstalled'
      BY <2>3, ZenonT(30) DEF open_manifest, files, SkippedIsInstalled, UpToDate, Installed
    <3>4. QED
      BY <2>3, <1>1, <3>1, <3>2, <3>3, SafeHolder, ZenonT(30) DEF open_manifest, files, Locked,
         HashMap, PinInv
  <2>4. CASE Kill(q)
    BY <2>4, <1>1, <2>a, SafeExit, Zenon DEF Kill, files
  <2>5. CASE close_manifest(q)
    BY <2>5, <1>1, <2>a, SafeExit, Zenon DEF close_manifest, Exit, files
  <2>6. CASE InvalidLine(q)
    BY <2>6, <1>1, <2>a, SafeExit, Zenon DEF InvalidLine, Exit, files
  <2>7. CASE FetchFails(q)
    BY <2>7, <1>1, <2>a, SafeExit, Zenon DEF FetchFails, Exit, files
  <2>8. CASE WriteFails(q)
    BY <2>8, <1>1, <2>a, SafeExit DEF WriteFails, Exit, files
  <2>9. CASE HashMismatch(q)
    BY <2>9, <1>1, <2>a, SafeExit, Zenon DEF HashMismatch, Exit, files
  <2>10. CASE MapOpenFails(q)
    BY <2>10, <1>1, <2>a, SafeExit, Zenon DEF MapOpenFails, Exit, files
  <2>11. CASE MapRenameFails(q)
    BY <2>11, <1>1, <2>a, SafeExit, Zenon DEF MapRenameFails, Exit, files
  <2>12. CASE ExtractFails(q)
    BY <2>12, <1>1, <2>a, SafeExit, Zenon DEF ExtractFails, Exit, files
  <2>13. CASE run_ninja(q)
    <3>1. CASE Exit(q)
      BY <2>13, <3>1, <1>1, <2>a, SafeExit DEF run_ninja, Exit, files
    <3>2. CASE Goto(q, "close") /\ UNCHANGED <<manifest, lock, todo, want, src, outbuf, runs, kills>>
      <4>1. pc'[q] = "close"
        BY <3>2, <2>b, Zenon DEF Goto
      <4>2. LineOK(q)' /\ ContentOK(q)'
        BY <2>13, <3>2, <4>1, <2>c, ZenonT(30) DEF run_ninja, HolderOK, LineOK, ContentOK, Fetching,
           Recording
      <4>3. QED
        BY <2>13, <3>2, <4>1, <4>2, <1>1, SafeQuiet, Zenon DEF run_ninja, files, Locked, HashMap
    <3>3. QED
      BY <2>13, <3>1, <3>2, Zenon DEF run_ninja
  <2>14. CASE NoMoreLines(q)
    <3>1. pc'[q] \in {"ninja", "close"}
      BY <2>14, <2>b DEF NoMoreLines, Goto
    <3>2. LineOK(q)' /\ ContentOK(q)'
      BY <2>14, <3>1 DEF NoMoreLines, LineOK, ContentOK, Fetching, Recording
    <3>3. QED
      BY <2>14, <3>1, <3>2, <1>1, SafeQuiet, Zenon DEF NoMoreLines, files, Locked, HashMap
  <2>15. CASE OpenHttp(q)
    <3>1. pc'[q] = "body"
      BY <2>15, <2>b DEF OpenHttp, Goto
    <3>2. LineOK(q)'
      BY <2>15, <3>1, <2>c, <2>d, Zenon DEF OpenHttp, files, HolderOK, LineOK, Fetching, Recording,
         path, url
    <3>3. ContentOK(q)'
      BY <2>15, <3>1, <2>c, <2>d, <2>e, ConstantsOK, ZenonT(30) DEF OpenHttp, files, HolderOK,
         ContentOK, path, url, PinInv
    <3>4. QED
      BY <2>15, <3>1, <3>2, <3>3, <1>1, SafeQuiet, ZenonT(30) DEF OpenHttp, files, Locked, HashMap
  <2>16. CASE OpenFileUrl(q)
    <3>1. pc'[q] = "extract"
      BY <2>16, <2>b, Zenon DEF OpenFileUrl, Goto
    <3>2. LineOK(q)'
      BY <2>16, <3>1, <2>c, <2>d, ZenonT(30) DEF OpenFileUrl, files, HolderOK, LineOK, Fetching,
         Recording, path, url
    <3>a. PICK c \in [url : {url(q)}, ver : Vers, full : {TRUE}] :
                 src' = [src EXCEPT ![q] = c]
      BY <2>16, ZenonT(30) DEF OpenFileUrl
    <3>b. src'[q].url = url(q) /\ src'[q].full
      BY <3>a, <2>e, ZenonT(30)
    <3>c. disk[path(q)] = {}
      BY <2>16, <2>c, Zenon DEF OpenFileUrl, HolderOK, ContentOK
    <3>3. ContentOK(q)'
      BY <2>16, <3>1, <3>b, <3>c, ZenonT(30) DEF OpenFileUrl, files, ContentOK, path, url
    <3>4. QED
      BY <2>16, <3>1, <3>2, <3>3, <1>1, SafeQuiet, ZenonT(30) DEF OpenFileUrl, files, Locked,
         HashMap
  <2>17. CASE ReceiveBody(q)
    <3>1. pc'[q] = "hash"
      BY <2>17, <2>b, Zenon DEF ReceiveBody, Goto
    <3>2. LineOK(q)'
      BY <2>17, <3>1, <2>c, <2>d, Zenon DEF ReceiveBody, files, HolderOK, LineOK, Fetching,
         Recording, path, url
    <3>3. ContentOK(q)'
      BY <2>17, <3>1, <2>c, <2>d, <2>e, ConstantsOK DEF ReceiveBody, files, HolderOK,
         ContentOK, path, url, PinInv
    <3>4. QED
      BY <2>17, <3>1, <3>2, <3>3, <1>1, SafeQuiet, Zenon DEF ReceiveBody, files, Locked, HashMap
  <2>18. CASE HashMatch(q)
    <3>1. pc'[q] = "extract"
      BY <2>18, <2>b DEF HashMatch, Goto
    <3>2. LineOK(q)'
      BY <2>18, <3>1, <2>c, <2>d, ZenonT(30) DEF HashMatch, files, HolderOK, LineOK, Fetching,
         Recording, path, url
    <3>a. src[q] \in Content /\ src[q] = tmp /\ src[q] = Pins[url(q)] /\ url(q) \in Urls
      BY <2>18, <2>c, <2>d, ZenonT(30) DEF HashMatch, HolderOK, ContentOK, PinInv, BaseInv,
         ShapeInv, Shape, Locked, Fetching
    <3>c. src'[q] = Pins[url(q)] /\ Pins[url(q)] # None
      BY <2>18, <3>a, <2>e, ReopenedIs, ConstantsOK, Zenon DEF HashMatch, AllPinned
    <3>b. src'[q].url = url(q) /\ src'[q].full
      BY <3>a, <3>c, ConstantsOK, Zenon
    <3>3. ContentOK(q)'
      BY <2>18, <3>1, <3>b, <2>c, ZenonT(30) DEF HashMatch, files, HolderOK, ContentOK, path, url
    <3>4. QED
      BY <2>18, <3>1, <3>2, <3>3, <1>1, SafeQuiet, Zenon DEF HashMatch, files, Locked, HashMap
  <2>19. CASE DoneCopy(q)
    <3>1. pc'[q] = "done_unlink"
      BY <2>19, <2>b DEF DoneCopy, Goto, update_map_copy
    <3>a. outbuf'[q] = [done EXCEPT ![path(q)] = None] /\ done \in [Paths -> Urls \cup {None, Cut}]
      BY <2>19, Zenon DEF DoneCopy, update_map_copy, BaseInv, TypeOK
    <3>b. ASSUME NEW l \in ItemsOf(manifest), outbuf'[q][l.path] = l.url
          PROVE  Installed(l.path, l.url)
      <4>1. l.path \in Paths /\ l.url \in Urls
        BY ItemFacts, Zenon DEF BaseInv
      <4>2. done[l.path] = l.url
        BY <3>a, <3>b, <4>1, ConstantsOK
      <4>3. QED
        BY <4>2, Zenon DEF SkippedIsInstalled, UpToDate
    <3>2. LineOK(q)'
      BY <2>19, <3>1, <3>b, <2>c, ZenonT(30) DEF DoneCopy, update_map_copy, files, HolderOK, LineOK,
         Installed, Fetching, Recording, path, url
    <3>3. ContentOK(q)'
      BY <2>19, <3>1, <2>c, <2>d, <2>e, ConstantsOK, ZenonT(30) DEF DoneCopy, update_map_copy,
         files, HolderOK, ContentOK, path, url, PinInv
    <3>4. QED
      BY <2>19, <3>1, <3>2, <3>3, <1>1, SafeQuiet, ZenonT(30) DEF DoneCopy, update_map_copy, files,
         Locked, HashMap
  <2>20. CASE HashNoval(q)
    BY <2>20, <2>c, <2>d, <2>e, ZenonT(30) DEF HashNoval, HolderOK, ContentOK, AllPinned, PinInv,
       Locked, Fetching
  <2>21. CASE HashCopy(q) \/ HashUnlink(q) \/ HashRename(q)
    BY <2>21, ZenonT(30) DEF HashCopy, update_map_copy, HashUnlink, HashRename, PinInv, HashMap
  <2>22. CASE SkipLine(q)
    <3>1. pc'[q] = "loop" /\ todo'[q] = Tail(todo[q]) /\ Locked(q) /\ Locked(q)'
      BY <2>22, <2>b, Zenon DEF SkipLine, Locked, BaseInv, TypeOK
    <3>2. Elems(todo[q]) = {Head(todo[q])} \cup Elems(Tail(todo[q]))
      BY <2>22, <2>b, HeadTail DEF SkipLine
    <3>3. Head(todo[q]) \in ItemsOf(manifest) => Installed(path(q), url(q))
      BY <2>22, ItemFacts, Zenon DEF SkipLine, SkippedIsInstalled, path, url, BaseInv
    <3>4. TodoOK(q)'
      BY <2>22, <3>1, <3>2, <3>3, <2>c, ZenonT(30) DEF SkipLine, files, HolderOK, TodoOK, Installed,
         path, url
    <3>5. LineOK(q)' /\ ContentOK(q)'
      BY <3>1 DEF LineOK, ContentOK, Fetching, Recording
    <3>6. SkippedIsInstalled'
      BY <2>22, Zenon DEF SkipLine, files, SkippedIsInstalled, UpToDate, Installed
    <3>7. QED
      BY <2>22, <3>1, <3>4, <3>5, <3>6, <1>1, SafeHolder, Zenon DEF SkipLine, files, HolderOK,
         HashMap, PinInv
  <2>23. CASE delete_path_begin(q)
    <3>1. /\ pc'[q] = "delete" /\ Locked(q) /\ Locked(q)'
          /\ todo[q] # << >> /\ Head(todo[q]).kind = "item"
          /\ done[path(q)] # url(q)
      BY <2>23, <2>b, <2>c, Zenon DEF delete_path_begin, Goto, Locked, HolderOK, LineOK, Fetching,
         UpToDate, path, url
    <3>2. \A x \in Paths \ {path(q)} : disk'[x] = disk[x]
      BY <2>23, <2>e, ZenonT(30) DEF delete_path_begin
    <3>3. LineOK(q)'
      BY <2>23, <3>1, <2>c, <2>d, <2>e, ZenonT(30) DEF delete_path_begin, HolderOK, LineOK,
         ContentOK, Fetching, Recording, path, url, Installed, BaseInv, ShapeInv, Shape, AllPinned
    <3>4. ContentOK(q)'
      BY <2>23, <3>1, <2>c, <2>d, <2>e, ZenonT(30) DEF delete_path_begin, HolderOK, ContentOK, path,
         url, AllPinned
    <3>5. QED
      BY <2>23, <3>1, <3>2, <3>3, <3>4, <2>d, <1>1, SafeDisk, ZenonT(30) DEF delete_path_begin,
         HashMap
  <2>24. CASE delete_path_end(q)
    <3>1. /\ pc'[q] = "fetch" /\ Locked(q) /\ Locked(q)'
          /\ todo[q] # << >> /\ Head(todo[q]).kind = "item"
          /\ done[path(q)] # url(q)
      BY <2>24, <2>b, <2>c, Zenon DEF delete_path_end, Goto, Locked, HolderOK, LineOK, Fetching,
         UpToDate, path, url
    <3>2. \A x \in Paths \ {path(q)} : disk'[x] = disk[x]
      BY <2>24, <2>e, Zenon DEF delete_path_end
    <3>3. LineOK(q)'
      BY <2>24, <3>1, <2>c, <2>d, <2>e, ZenonT(30) DEF delete_path_end, HolderOK, LineOK, ContentOK,
         Fetching, Recording, path, url, Installed, BaseInv, ShapeInv, Shape, AllPinned
    <3>4. ContentOK(q)'
      BY <2>24, <3>1, <2>c, <2>d, <2>e, ZenonT(30) DEF delete_path_end, HolderOK, ContentOK, path,
         url, AllPinned
    <3>5. QED
      BY <2>24, <3>1, <3>2, <3>3, <3>4, <2>d, <1>1, SafeDisk, ZenonT(30) DEF delete_path_end,
         HashMap
  <2>25. CASE ExtractBegin(q)
    <3>1. /\ pc'[q] = "unpack" /\ Locked(q) /\ Locked(q)'
          /\ todo[q] # << >> /\ Head(todo[q]).kind = "item"
          /\ done[path(q)] # url(q)
      BY <2>25, <2>b, <2>c, Zenon DEF ExtractBegin, Goto, Locked, HolderOK, LineOK, Fetching,
         UpToDate, path, url
    <3>2. \A x \in Paths \ {path(q)} : disk'[x] = disk[x]
      BY <2>25, <2>e, Zenon DEF ExtractBegin
    <3>3. LineOK(q)'
      BY <2>25, <3>1, <2>c, <2>d, <2>e, ZenonT(30) DEF ExtractBegin, HolderOK, LineOK, ContentOK,
         Fetching, Recording, path, url, Installed, BaseInv, ShapeInv, Shape, AllPinned
    <3>4. ContentOK(q)'
      BY <2>25, <3>1, <2>c, <2>d, <2>e, ZenonT(30) DEF ExtractBegin, HolderOK, ContentOK, path, url,
         AllPinned
    <3>5. QED
      BY <2>25, <3>1, <3>2, <3>3, <3>4, <2>d, <1>1, SafeDisk, ZenonT(30) DEF ExtractBegin, HashMap
  <2>26. CASE ExtractEnd(q)
    <3>1. /\ pc'[q] = "done_copy" /\ Locked(q) /\ Locked(q)'
          /\ todo[q] # << >> /\ Head(todo[q]).kind = "item"
          /\ done[path(q)] # url(q)
      BY <2>26, <2>b, <2>c DEF ExtractEnd, Goto, Locked, HolderOK, LineOK, Fetching,
         UpToDate, path, url
    <3>2. \A x \in Paths \ {path(q)} : disk'[x] = disk[x]
      BY <2>26, <2>e, Zenon DEF ExtractEnd
    <3>a. /\ disk[path(q)] = {[content |-> src[q], whole |-> FALSE]}
          /\ src[q] \in Content /\ src[q].url = url(q) /\ src[q].full
          /\ path(q) \in Paths
      BY <2>26, <3>1, <2>c, <2>d, ZenonT(30) DEF ExtractEnd, HolderOK, ContentOK, BaseInv, ShapeInv,
         Shape
    <3>b. disk'[path(q)] = {[content |-> src[q], whole |-> TRUE]}
      BY <2>26, <3>a, <2>e, ZenonT(30) DEF ExtractEnd, AllPinned
    <3>3. LineOK(q)'
      BY <2>26, <3>1, <3>a, <3>b, ZenonT(30) DEF ExtractEnd, LineOK, Installed, Fetching, Recording,
         path, url
    <3>4. ContentOK(q)'
      BY <2>26, <3>1, <2>c, <2>d, <2>e, ZenonT(30) DEF ExtractEnd, HolderOK, ContentOK, path, url,
         AllPinned
    <3>5. QED
      BY <2>26, <3>1, <3>2, <3>3, <3>4, <2>d, <1>1, SafeDisk, ZenonT(30) DEF ExtractEnd, HashMap
  <2>27. CASE DoneUnlink(q)
    <3>1. pc'[q] = "done_rename" /\ Locked(q) /\ Locked(q)'
      BY <2>27, <2>b, Zenon DEF DoneUnlink, Goto, Locked
    <3>2. HolderOK(q)'
      BY <2>27, <3>1, <2>c, ZenonT(30) DEF DoneUnlink, HolderOK, TodoOK, LineOK, ContentOK,
         Installed,
         Fetching, Recording, path, url
    <3>3. SkippedIsInstalled'
      BY <2>27, ItemFacts, ConstantsOK, ZenonT(30) DEF DoneUnlink, NoMap, SkippedIsInstalled,
         UpToDate, BaseInv
    <3>4. QED
      BY <2>27, <3>1, <3>2, <3>3, <1>1, SafeHolder, ZenonT(30) DEF DoneUnlink, HashMap, PinInv
  <2>28. CASE DoneRename(q)
    <3>1. /\ pc'[q] = "loop" /\ todo'[q] = Tail(todo[q]) /\ Locked(q) /\ Locked(q)'
          /\ todo[q] # << >> /\ Head(todo[q]) \in ItemsOf(manifest)
          /\ Installed(path(q), url(q)) /\ path(q) \in Paths
          /\ outbuf[q] \in [Paths -> Urls \cup {None, Cut}]
      BY <2>28, <2>b, <2>c, <2>d, ZenonT(30) DEF DoneRename, Goto, Locked, HolderOK, LineOK,
         Recording, BaseInv, TypeOK, ShapeInv, Shape
    <3>2. Elems(todo[q]) = {Head(todo[q])} \cup Elems(Tail(todo[q]))
      BY <3>1, <2>b, HeadTail, ZenonT(30)
    <3>3. TodoOK(q)'
      BY <2>28, <3>1, <3>2, <2>c, ZenonT(30) DEF DoneRename, HolderOK, TodoOK, Installed, path, url
    <3>4. LineOK(q)' /\ ContentOK(q)'
      BY <3>1, ZenonT(30) DEF LineOK, ContentOK, Fetching, Recording
    <3>a. \A x \in Paths : done'[x] \in {[outbuf[q] EXCEPT ![path(q)] = url(q)][x], None, Cut}
      <4>1. [outbuf[q] EXCEPT ![path(q)] = url(q)] \in [Paths -> Urls \cup {None, Cut}]
        BY <3>1, <2>d, Zenon DEF ItemsOf
      <4>2. done' \in Written([outbuf[q] EXCEPT ![path(q)] = url(q)], path(q))
        BY <2>28, Zenon DEF DoneRename
      <4>3. DOMAIN [outbuf[q] EXCEPT ![path(q)] = url(q)] = Paths
        BY <4>1, Zenon
      <4>4. QED
        BY <4>2, <4>3, WrittenFrom, ZenonT(40)
    <3>5. ASSUME NEW l \in ItemsOf(manifest), done'[l.path] = l.url
          PROVE  Installed(l.path, l.url)
      <4>1. CASE l = Head(todo[q])
        BY <4>1, <3>1, ZenonT(30) DEF path, url
      <4>2. CASE l # Head(todo[q])
        <5>1. l.path \in Paths /\ l.path # path(q)
          BY <4>2, <3>1, ItemFacts, ZenonT(30) DEF BaseInv, path
        <5>a. l.url \notin {None, Cut}
          BY ItemFacts, ConstantsOK, Zenon DEF BaseInv
        <5>2. outbuf[q][l.path] = l.url
          BY <5>1, <5>a, <3>a, <3>5, <3>1, ZenonT(30)
        <5>3. QED
          BY <2>28, <5>2, <2>c, ZenonT(30) DEF DoneRename, HolderOK, LineOK
      <4>3. QED
        BY <4>1, <4>2, Zenon
    <3>6. SkippedIsInstalled'
      BY <2>28, <3>5, ZenonT(30) DEF DoneRename, SkippedIsInstalled, UpToDate, Installed
    <3>7. QED
      BY <2>28, <3>1, <3>3, <3>4, <3>6, <1>1, SafeHolder, ZenonT(30) DEF DoneRename, HolderOK,
         HashMap, PinInv
  <2>29. CASE CutLineCrash(q)
    BY <2>29, <1>1, <2>a, SafeExit, Zenon DEF CutLineCrash, Exit, files
  <2>30. CASE Hang(q)
    <3>1. pc'[q] = "hung"
      BY <2>30, <2>b, Zenon DEF Hang, Goto
    <3>2. LineOK(q)' /\ ContentOK(q)'
      BY <3>1, ZenonT(30) DEF LineOK, ContentOK, Fetching, Recording
    <3>3. QED
      BY <2>30, <3>1, <3>2, <1>1, SafeQuiet, Zenon DEF Hang, files, Locked, HashMap
  <2>31. QED
    BY <1>3, <2>1, <2>2, <2>3, <2>4, <2>5, <2>6, <2>7, <2>8, <2>9, <2>10, <2>11, <2>12, <2>13,
       <2>14, <2>15, <2>16, <2>17, <2>18, <2>19, <2>20, <2>21, <2>22, <2>23, <2>24, <2>25, <2>26,
       <2>27, <2>28, <2>29, <2>30, Zenon DEF Step
<1>4. QED
  BY <1>2, <1>3, Zenon DEF Next

(* What main's loop skips because download.done matches is installed, whole: *)
(* for every number of processes, every manifest without repeated paths, and *)
(* every order of failures, kills and restarts.                              *)
THEOREM SkippedInstalled == ASSUME AllPinned PROVE Spec => []SkippedIsInstalled
<1>1. Init => IInv
  BY InitIInv, Zenon
<1>2. IInv /\ [Next]_vars => IInv'
  BY SafeStep, Zenon
<1>3. IInv => SkippedIsInstalled
  BY DEF IInv
<1>4. QED
  BY <1>1, <1>2, <1>3, PTL DEF Spec

LEMMA IInvNinja == IInv => NinjaSeesAll
<1> SUFFICES ASSUME IInv, NEW p \in Procs, pc[p] \in {"ninja", "close"},
                    NEW l \in ItemsOf(want[p])
             PROVE  Installed(l.path, l.url)
  BY DEF NinjaSeesAll
<1>1. Locked(p) /\ todo[p] = << >> /\ want[p] = manifest
  BY DEF IInv, HolderOK, TodoOK, LineOK, Locked
<1>2. l \notin Elems(todo[p])
  BY <1>1 DEF Elems
<1>3. QED
  BY <1>1, <1>2, ZenonT(30) DEF IInv, HolderOK, TodoOK

(* While ninja runs, everything the process read from the manifest for this  *)
(* host is installed, and stays so until ninja ends: run_ninja is called     *)
(* under the lock.                                                           *)
THEOREM NinjaSeesInstalled == ASSUME AllPinned PROVE Spec => []NinjaSeesAll
<1>1. Init => IInv
  BY InitIInv, Zenon
<1>2. IInv /\ [Next]_vars => IInv'
  BY SafeStep, Zenon
<1>3. QED
  BY <1>1, <1>2, IInvNinja, PTL DEF Spec

-----------------------------------------------------------------------------
(***************************************************************************)
(* Whatever urls serve, what is installed is of the version whose hash     *)
(* download.hash has for its url, or what is left of it, for any           *)
(* processes, paths, urls and manifests, as long as no entry of            *)
(* download.hash is lost in update_map.                                    *)
(*                                                                         *)
(* The argument: a path is recorded in download.done only after its url is *)
(* in download.hash (CarriedOK), what is unpacked below it is a copy of    *)
(* what has that hash, from a download.tmp that may have lost its tail     *)
(* (HeldOK), and nothing of it is left when a new download begins          *)
(* (FreshOK).                                                              *)
(***************************************************************************)
(* No process dies between the unlink and the rename of download.hash, what  *)
(* is renamed is the whole of the new map, and delete_path deletes.          *)
NoLoss == MaxKills = 0 /\ Faults \cap {"rename", "map", "delete"} = {}

(* download.tmp as it was written, and with its tail lost.                   *)
CopiesOf(c) == {c, [c EXCEPT !.full = FALSE]}

(* The lines of manifest m that the map d records over http have their pin   *)
(* in h, and below their path only copies of what has it.                    *)
Recorded(m, d, h, k) ==
  \A l \in ItemsOf(m) :
    (d[l.path] = l.url /\ Scheme[l.url] = "http") =>
      h[l.url] \in Content /\ \A t \in k[l.path] : t.content \in CopiesOf(h[l.url])

(* What a process at label at holds: d, h, k, f are the files and todo, buf, *)
(* s the locals of main.                                                     *)
FreshOK(at, x, u, d, k, f, s) ==
  /\ at \in Fetching \cup HashMap => d[x] # u
  /\ at \in {"fetch", "body", "hash", "extract"} \cup HashMap => k[x] = {}
  /\ at \in {"hash"} \cup HashMap => s = f

HeldOK(at, x, u, h, k, s) ==
  /\ (at \in {"extract", "unpack"} /\ Scheme[u] = "http") =>
       h[u] \in Content /\ s \in CopiesOf(h[u])
  /\ at = "unpack" => \A t \in k[x] : t.content = s
  /\ (at \in Recording /\ Scheme[u] = "http") =>
       h[u] \in Content /\ \A t \in k[x] : t.content \in CopiesOf(h[u])

CarriedOK(at, x, u, m, d, h, k, buf) ==
  /\ at = "hash_copy" => h[u] = None
  /\ at \in {"hash_unlink", "hash_rename"} => buf[u] = None /\ Recorded(m, d, buf, k)
  /\ at \in {"done_unlink", "done_rename"} => Recorded(m, buf, h, k)
  /\ IF at = "hash_rename" THEN \A v \in Urls : h[v] = None
                            ELSE Recorded(m, d, h, k)

PinHolder(p) ==
  Locked(p) =>
    /\ Elems(todo[p]) \subseteq Elems(manifest)
    /\ FreshOK(pc[p], path(p), url(p), done, disk, tmp, src[p])
    /\ HeldOK(pc[p], path(p), url(p), hash, disk, src[p])
    /\ CarriedOK(pc[p], path(p), url(p), manifest, done, hash, disk, outbuf[p])

(* The inductive invariant of InstalledMatchesPin.                           *)
PInv ==
  /\ BaseInv
  /\ \A p \in Procs : PinHolder(p)
  /\ (\A p \in Procs : ~Locked(p)) => Recorded(manifest, done, hash, disk)

LEMMA PInvInit == Init => PInv
<1> SUFFICES ASSUME Init PROVE PInv
  BY Zenon
<1>1. BaseInv
  BY BaseInit, Zenon
<1>2. \A p \in Procs : ~Locked(p)
  BY ZenonT(30) DEF Init, Locked
<1>3. ASSUME NEW l \in ItemsOf(manifest), done[l.path] = l.url, Scheme[l.url] = "http"
      PROVE  hash[l.url] \in Content
             /\ \A t \in disk[l.path] : t.content \in CopiesOf(hash[l.url])
  <2>1. l.path \in Paths /\ l.url \in Urls
    BY <1>1, ItemFacts, Zenon DEF BaseInv
  <2>2. done[l.path] # None
    BY <1>3, <2>1, ConstantsOK, Zenon
  <2>3. PICK v \in Vers : /\ disk[l.path] = {Whole(l.url, v)}
                          /\ Pins[l.url] = Whole(l.url, v).content
    BY <1>3, <2>1, <2>2 DEF Init
  <2>4. Whole(l.url, v).content \in Content
    BY <2>1 DEF Whole, Content
  <2>5. QED
    BY <2>3, <2>4, ZenonT(30) DEF Init, CopiesOf
<1>4. QED
  BY <1>1, <1>2, <1>3, ZenonT(30) DEF PInv, PinHolder, Recorded

(* The line in work is an item of the manifest.                              *)
LEMMA WorkIsItem ==
  ASSUME BaseInv, NEW p \in Procs, Elems(todo[p]) \subseteq Elems(manifest),
         todo[p] # << >>, Head(todo[p]).kind = "item"
  PROVE  /\ path(p) \in Paths /\ url(p) \in Urls
         /\ \A k \in ItemsOf(manifest) : k.path = path(p) => k.url = url(p)
<1>1. Head(todo[p]) \in Elems(todo[p])
  BY HeadTail, Zenon DEF BaseInv, TypeOK
<1>2. Head(todo[p]) \in ItemsOf(manifest)
  BY <1>1, ZenonT(30) DEF Elems, ItemsOf
<1>3. /\ Head(todo[p]).path \in Paths /\ Head(todo[p]).url \in Urls
      /\ \A k \in ItemsOf(manifest) : k.path = Head(todo[p]).path => k = Head(todo[p])
  BY <1>2, ItemFacts, Zenon DEF BaseInv
<1>4. QED
  BY <1>3, ZenonT(30) DEF path, url

(* A process that ends, other than in update_map, leaves the files recorded. *)
LEMMA PinExit ==
  ASSUME PInv, BaseInv', NEW q \in Procs, Locked(q), pc[q] # "hash_rename",
         UNCHANGED <<manifest, done, hash, disk>>, \A p \in Procs : ~Locked(p)'
  PROVE  PInv'
<1>1. Recorded(manifest, done, hash, disk)
  BY ZenonT(30) DEF PInv, PinHolder, CarriedOK
<1>2. Recorded(manifest, done, hash, disk)'
  BY <1>1, ZenonT(30) DEF Recorded
<1>3. QED
  BY <1>2, ZenonT(30) DEF PInv, PinHolder

(* After a step of the holder only the holder is to be looked at.            *)
LEMMA PinGoesOn ==
  ASSUME BaseInv', NEW q \in Procs, Locked(q)', PinHolder(q)'
  PROVE  PInv'
<1>1. \A p \in Procs : p # q => ~Locked(p)'
  BY Zenon DEF BaseInv, LockInv
<1>2. QED
  BY <1>1, ZenonT(30) DEF PInv, PinHolder

(* A step that leaves the files and the holder alone.                        *)
LEMMA PinIdle ==
  ASSUME PInv, BaseInv',
         UNCHANGED <<manifest, done, hash, tmp, disk, todo, src, outbuf>>,
         \A p \in Procs : Locked(p) <=> Locked(p)',
         \A p \in Procs : Locked(p)' => pc'[p] = pc[p]
  PROVE  PInv'
<1>1. ASSUME NEW p \in Procs, Locked(p)'
      PROVE  PinHolder(p)'
  <2>1. /\ Locked(p) /\ PinHolder(p) /\ pc'[p] = pc[p] /\ todo'[p] = todo[p]
        /\ src'[p] = src[p] /\ outbuf'[p] = outbuf[p]
    BY <1>1, ZenonT(30) DEF PInv
  <2>2. manifest' = manifest /\ done' = done /\ hash' = hash /\ tmp' = tmp /\ disk' = disk
    BY Zenon
  <2>3. Elems(todo'[p]) \subseteq Elems(manifest')
    BY <2>1, <2>2, ZenonT(30) DEF PinHolder
  <2>4. QED
    BY <2>1, <2>2, <2>3, ZenonT(30) DEF PinHolder, path, url
<1>2. Recorded(manifest, done, hash, disk) => Recorded(manifest, done, hash, disk)'
  BY DEF Recorded
<1>3. QED
  BY <1>1, <1>2, ZenonT(30) DEF PInv, PinHolder

(* What is below the path in work is of no concern to what is recorded, as   *)
(* the line in work is not.                                                  *)
LEMMA RecordedElsewhere ==
  ASSUME NEW x, NEW u, Recorded(manifest, done, hash, disk), done[x] # u,
         \A i \in ItemsOf(manifest) : i.path = x => i.url = u,
         \A i \in ItemsOf(manifest) : i.path # x => disk'[i.path] = disk[i.path]
  PROVE  Recorded(manifest, done, hash, disk')
BY ZenonT(30) DEF Recorded

(* The holder goes on with the same lines.                                   *)
LEMMA PinMoves ==
  ASSUME PInv, BaseInv', NEW q \in Procs, Locked(q), Locked(q)',
         manifest' = manifest, todo' = todo,
         FreshOK(pc'[q], path(q), url(q), done', disk', tmp', src'[q]),
         HeldOK(pc'[q], path(q), url(q), hash', disk', src'[q]),
         CarriedOK(pc'[q], path(q), url(q), manifest, done', hash', disk', outbuf'[q])
  PROVE  PInv'
<1>1. PinHolder(q)
  BY ZenonT(30) DEF PInv
<1>2. Elems(todo'[q]) \subseteq Elems(manifest')
  BY <1>1, ZenonT(30) DEF PinHolder
<1>3. PinHolder(q)'
  BY <1>2, ZenonT(30) DEF PinHolder, path, url
<1>4. QED
  BY <1>3, PinGoesOn, ZenonT(30)

(* Where no line is in work there is nothing to hold.                        *)
LEMMA PinBetween ==
  ASSUME NEW at \in {"loop", "ninja", "close", "hung"}, NEW x, NEW u, NEW m, NEW d, NEW h, NEW k,
         NEW f, NEW s, NEW buf, Recorded(m, d, h, k)
  PROVE  FreshOK(at, x, u, d, k, f, s) /\ HeldOK(at, x, u, h, k, s)
         /\ CarriedOK(at, x, u, m, d, h, k, buf)
BY DEF FreshOK, HeldOK, CarriedOK, Fetching, HashMap, Recording

LEMMA PinStep == ASSUME NoLoss PROVE PInv /\ [Next]_vars => PInv'
<1> SUFFICES ASSUME PInv, [Next]_vars PROVE PInv'
  BY Zenon
<1>0. BaseInv
  BY Zenon DEF PInv
<1>1. BaseInv'
  BY <1>0, BaseStep, Zenon
<1>2. CASE UNCHANGED vars
  BY <1>1, <1>2, PinIdle, Zenon DEF vars, Locked
<1>3. ASSUME NEW q \in Procs,
             Launch(q) \/ open_manifest(q) \/ open_manifest_fails(q) \/ Step(q)
               \/ Hang(q) \/ Kill(q)
      PROVE  PInv'
  <2>l. PICK x, u : x = path(q) /\ u = url(q)
    BY Zenon
  <2>a. lock' = None => \A p \in Procs : ~Locked(p)'
    BY <1>1, ConstantsOK, Zenon DEF BaseInv, LockInv
  <2>b. /\ pc \in [Procs -> PcLabels] /\ todo \in [Procs -> Seq(Line)]
        /\ outbuf \in [Procs -> {None} \cup [Paths -> Urls \cup {None, Cut}]
                                       \cup [Urls -> Content \cup {None, Cut}]]
        /\ src \in [Procs -> Content \cup {None}] /\ disk \in [Paths -> SUBSET Token]
        /\ done \in [Paths -> Urls \cup {None, Cut}] /\ hash \in [Urls -> Content \cup {None, Cut}]
        /\ tmp \in Content \cup {None}
    BY <1>0, Zenon DEF BaseInv, TypeOK
  <2>c. Shape(q) /\ PinHolder(q)
    BY <1>0, Zenon DEF PInv, BaseInv, ShapeInv
  <2>d. (Locked(q) /\ todo[q] # << >> /\ Head(todo[q]).kind = "item") =>
          /\ x \in Paths /\ u \in Urls
          /\ \A i \in ItemsOf(manifest) : i.path = x => i.url = u
    BY <1>0, <2>c, <2>l, WorkIsItem, Zenon DEF PinHolder
  <2>e. \A i \in ItemsOf(manifest) : i.path \in Paths /\ i.url \in Urls
    BY <1>0, ItemFacts, Zenon DEF BaseInv
  <2>f. Locked(q) =>
          /\ Elems(todo[q]) \subseteq Elems(manifest)
          /\ FreshOK(pc[q], x, u, done, disk, tmp, src[q])
          /\ HeldOK(pc[q], x, u, hash, disk, src[q])
          /\ CarriedOK(pc[q], x, u, manifest, done, hash, disk, outbuf[q])
    BY <2>c, <2>l, Zenon DEF PinHolder
  <2>1. CASE Launch(q)
    BY <2>1, <1>1, <2>b, PinIdle, Zenon DEF Launch, Goto, files, Locked
  <2>2. CASE open_manifest_fails(q)
    BY <2>2, <1>1, <2>b, PinIdle, Zenon DEF open_manifest_fails, Goto, files, Locked
  <2>3. CASE open_manifest(q)
    <3>1. pc'[q] = "loop" /\ todo'[q] = manifest /\ Locked(q)'
      BY <2>3, <2>b, Zenon DEF open_manifest, Goto, Locked
    <3>2. Recorded(manifest, done, hash, disk)
      <4>1. \A p \in Procs : ~Locked(p)
        BY <2>3, <1>0, ConstantsOK, Zenon DEF open_manifest, BaseInv, LockInv
      <4>2. QED
        BY <4>1, Zenon DEF PInv
    <3>3. /\ manifest' = manifest /\ done' = done /\ hash' = hash /\ disk' = disk
      BY <2>3, Zenon DEF open_manifest, files
    <3>4. PinHolder(q)'
      BY <3>1, <3>2, <3>3, PinBetween, Zenon DEF PinHolder
    <3>5. QED
      BY <1>1, <3>1, <3>4, PinGoesOn, Zenon
  <2>4. CASE Kill(q)
    BY <2>4, <1>0 DEF Kill, NoLoss, BaseInv, TypeOK
  <2>5. CASE close_manifest(q)
    BY <2>5, <1>1, <2>a, PinExit, Zenon DEF close_manifest, Exit, files, Locked
  <2>6. CASE InvalidLine(q)
    BY <2>6, <1>1, <2>a, PinExit, Zenon DEF InvalidLine, Exit, files, Locked
  <2>7. CASE FetchFails(q)
    BY <2>7, <1>1, <2>a, PinExit, Zenon DEF FetchFails, Exit, files, Locked
  <2>8. CASE WriteFails(q)
    BY <2>8, <1>1, <2>a, PinExit, Zenon DEF WriteFails, Exit, files, Locked
  <2>9. CASE HashMismatch(q)
    BY <2>9, <1>1, <2>a, PinExit, Zenon DEF HashMismatch, Exit, files, Locked
  <2>10. CASE MapOpenFails(q)
    BY <2>10, <1>1, <2>a, PinExit, Zenon DEF MapOpenFails, Exit, files, Locked
  <2>11. CASE MapRenameFails(q)
    BY <2>11, Zenon DEF MapRenameFails, NoLoss
  <2>12. CASE ExtractFails(q)
    BY <2>12, <1>1, <2>a, PinExit, Zenon DEF ExtractFails, Exit, files, Locked
  <2>13. CASE run_ninja(q)
    <3>1. CASE Exit(q)
      BY <2>13, <3>1, <1>1, <2>a, PinExit, Zenon DEF run_ninja, Exit, files, Locked
    <3>2. CASE Goto(q, "close") /\ UNCHANGED <<manifest, lock, todo, want, src, outbuf, runs, kills>>
      <4>1. pc'[q] = "close" /\ pc[q] = "ninja" /\ Locked(q) /\ Locked(q)'
        BY <2>13, <3>2, <2>b, Zenon DEF run_ninja, Goto, Locked
      <4>2. Recorded(manifest, done, hash, disk)
        BY <4>1, <2>f, Zenon DEF CarriedOK
      <4>3. QED
        BY <2>13, <3>2, <4>1, <4>2, <1>1, PinBetween, PinMoves, Zenon DEF run_ninja, files
    <3>3. QED
      BY <2>13, <3>1, <3>2, Zenon DEF run_ninja
  <2>14. CASE NoMoreLines(q)
    <3>1. pc'[q] \in {"ninja", "close"} /\ pc[q] = "loop" /\ Locked(q) /\ Locked(q)'
      BY <2>14, <2>b, Zenon DEF NoMoreLines, Goto, Locked
    <3>2. Recorded(manifest, done, hash, disk)
      BY <3>1, <2>f, Zenon DEF CarriedOK
    <3>3. QED
      BY <2>14, <3>1, <3>2, <1>1, PinBetween, PinMoves, Zenon DEF NoMoreLines, files
  <2>15. CASE SkipLine(q)
    <3>1. /\ pc'[q] = "loop" /\ pc[q] = "loop" /\ Locked(q) /\ Locked(q)'
          /\ todo'[q] = Tail(todo[q]) /\ todo[q] # << >>
          /\ manifest' = manifest /\ done' = done /\ hash' = hash /\ disk' = disk
      BY <2>15, <2>b, Zenon DEF SkipLine, Locked, files
    <3>2. Elems(Tail(todo[q])) \subseteq Elems(manifest)
      BY <3>1, <2>b, <2>f, HeadTail
    <3>3. Recorded(manifest, done, hash, disk)
      BY <3>1, <2>f, Zenon DEF CarriedOK
    <3>4. PinHolder(q)'
      BY <3>1, <3>2, <3>3, PinBetween, Zenon DEF PinHolder
    <3>5. QED
      BY <1>1, <3>1, <3>4, PinGoesOn, Zenon
  <2>16. CASE delete_path_begin(q)
    <3>1. /\ pc'[q] = "delete" /\ pc[q] = "loop" /\ Locked(q) /\ Locked(q)'
          /\ todo[q] # << >> /\ Head(todo[q]).kind = "item" /\ done[x] # u
      BY <2>l, <2>16, <2>b, Zenon DEF delete_path_begin, Goto, Locked, UpToDate, path, url
    <3>2. \A i \in ItemsOf(manifest) : i.path # x => disk'[i.path] = disk[i.path]
      BY <2>16, <3>1, <2>b, <2>d, <2>e, <2>l, Zenon DEF delete_path_begin
    <3>3. Recorded(manifest, done, hash, disk')
      <4>1. Recorded(manifest, done, hash, disk)
        BY <3>1, <2>f, Zenon DEF CarriedOK
      <4>2. \A i \in ItemsOf(manifest) : i.path = x => i.url = u
        BY <3>1, <2>d, Zenon
      <4>3. \A i \in ItemsOf(manifest) : i.path # x => disk'[i.path] = disk[i.path]
        BY <3>2, Zenon
      <4>4. done[x] # u
        BY <3>1, Zenon
      <4>5. QED
        BY <4>1, <4>2, <4>3, <4>4, RecordedElsewhere, ZenonT(30)
    <3>4. FreshOK("delete", x, u, done, disk', tmp, src[q]) /\ HeldOK("delete", x, u, hash, disk', src[q])
          /\ CarriedOK("delete", x, u, manifest, done, hash, disk', outbuf[q])
      BY <3>1, <3>3, ZenonT(30) DEF FreshOK, HeldOK, CarriedOK, Fetching, HashMap, Recording
    <3>5. QED
      BY <2>l, <2>16, <3>1, <3>4, <1>1, PinMoves, ZenonT(30) DEF delete_path_begin
  <2>17. CASE delete_path_end(q)
    <3>1. /\ pc'[q] = "fetch" /\ pc[q] = "delete" /\ Locked(q) /\ Locked(q)'
          /\ todo[q] # << >> /\ Head(todo[q]).kind = "item" /\ done[x] # u
      BY <2>l, <2>17, <2>b, <2>c, <2>f, Zenon DEF delete_path_end, Goto, Locked, Shape, FreshOK,
         Fetching
    <3>2. /\ \A i \in ItemsOf(manifest) : i.path # x => disk'[i.path] = disk[i.path]
          /\ disk'[x] = {}
      BY <2>17, <3>1, <2>b, <2>d, <2>e, <2>l, Zenon DEF delete_path_end, NoLoss
    <3>3. Recorded(manifest, done, hash, disk')
      <4>1. Recorded(manifest, done, hash, disk)
        BY <3>1, <2>f, Zenon DEF CarriedOK
      <4>2. \A i \in ItemsOf(manifest) : i.path = x => i.url = u
        BY <3>1, <2>d, Zenon
      <4>3. \A i \in ItemsOf(manifest) : i.path # x => disk'[i.path] = disk[i.path]
        BY <3>2, Zenon
      <4>4. done[x] # u
        BY <3>1, Zenon
      <4>5. QED
        BY <4>1, <4>2, <4>3, <4>4, RecordedElsewhere, ZenonT(30)
    <3>4. FreshOK("fetch", x, u, done, disk', tmp, src[q]) /\ HeldOK("fetch", x, u, hash, disk', src[q])
          /\ CarriedOK("fetch", x, u, manifest, done, hash, disk', outbuf[q])
      BY <3>1, <3>2, <3>3, ZenonT(30) DEF FreshOK, HeldOK, CarriedOK, Fetching, HashMap, Recording
    <3>5. QED
      BY <2>l, <2>17, <3>1, <3>4, <1>1, PinMoves, ZenonT(30) DEF delete_path_end
  <2>18. CASE OpenHttp(q)
    <3>1. pc'[q] = "body" /\ pc[q] = "fetch" /\ Locked(q) /\ Locked(q)'
      BY <2>18, <2>b, Zenon DEF OpenHttp, Goto, Locked
    <3>2. FreshOK("body", x, u, done, disk, tmp', src[q]) /\ HeldOK("body", x, u, hash, disk, src[q])
          /\ CarriedOK("body", x, u, manifest, done, hash, disk, outbuf[q])
      BY <3>1, <2>f, ZenonT(30) DEF FreshOK, HeldOK, CarriedOK, Fetching, HashMap, Recording
    <3>3. QED
      BY <2>l, <2>18, <3>1, <3>2, <1>1, PinMoves, ZenonT(30) DEF OpenHttp
  <2>19. CASE OpenFileUrl(q)
    <3>1. pc'[q] = "extract" /\ pc[q] = "fetch" /\ Locked(q) /\ Locked(q)' /\ Scheme[u] = "file"
      BY <2>19, <2>b, <2>l, Zenon DEF OpenFileUrl, Goto, Locked
    <3>2. FreshOK("extract", x, u, done, disk, tmp, src'[q]) /\ HeldOK("extract", x, u, hash, disk, src'[q])
          /\ CarriedOK("extract", x, u, manifest, done, hash, disk, outbuf[q])
      BY <3>1, <2>f, ZenonT(30) DEF FreshOK, HeldOK, CarriedOK, Fetching, HashMap, Recording
    <3>3. QED
      BY <2>l, <2>19, <3>1, <3>2, <1>1, PinMoves, ZenonT(30) DEF OpenFileUrl, files
  <2>20. CASE ReceiveBody(q)
    <3>1. pc'[q] = "hash" /\ pc[q] = "body" /\ Locked(q) /\ Locked(q)' /\ src'[q] = tmp'
      BY <2>20, <2>b, Zenon DEF ReceiveBody, Goto, Locked
    <3>2. FreshOK("hash", x, u, done, disk, tmp', src'[q]) /\ HeldOK("hash", x, u, hash, disk, src'[q])
          /\ CarriedOK("hash", x, u, manifest, done, hash, disk, outbuf[q])
      BY <3>1, <2>f, ZenonT(30) DEF FreshOK, HeldOK, CarriedOK, Fetching, HashMap, Recording
    <3>3. QED
      BY <2>l, <2>20, <3>1, <3>2, <1>1, PinMoves, Zenon DEF ReceiveBody
  <2>21. CASE HashMatch(q)
    <3>1. /\ pc'[q] = "extract" /\ pc[q] = "hash" /\ Locked(q) /\ Locked(q)'
          /\ src'[q] = tmp' /\ hash[u] = src[q]
      BY <2>21, <2>b, <2>l, Zenon DEF HashMatch, Goto, Locked
    <3>a. hash[u] = tmp /\ tmp \in Content
      BY <3>1, <2>c, <2>f, Zenon DEF FreshOK, Shape
    <3>b. src'[q] \in CopiesOf(hash[u]) /\ hash[u] \in Content
      BY <2>21, <3>1, <3>a, ReopenedIs, Zenon DEF HashMatch, CopiesOf
    <3>2. FreshOK("extract", x, u, done, disk, tmp', src'[q]) /\ HeldOK("extract", x, u, hash, disk, src'[q])
          /\ CarriedOK("extract", x, u, manifest, done, hash, disk, outbuf[q])
      BY <3>1, <3>b, <2>f, ZenonT(30) DEF FreshOK, HeldOK, CarriedOK, Fetching, HashMap, Recording
    <3>3. QED
      BY <2>l, <2>21, <3>1, <3>2, <1>1, PinMoves, Zenon DEF HashMatch
  <2>22. CASE HashNoval(q)
    <3>1. /\ pc'[q] = "hash_copy" /\ pc[q] = "hash" /\ Locked(q) /\ Locked(q)'
          /\ hash[u] = None
      BY <2>22, <2>b, <2>l, Zenon DEF HashNoval, Goto, Locked
    <3>2. FreshOK("hash_copy", x, u, done, disk, tmp, src[q]) /\ HeldOK("hash_copy", x, u, hash, disk, src[q])
          /\ CarriedOK("hash_copy", x, u, manifest, done, hash, disk, outbuf[q])
      BY <3>1, <2>f, ZenonT(30) DEF FreshOK, HeldOK, CarriedOK, Fetching, HashMap, Recording
    <3>3. QED
      BY <2>l, <2>22, <3>1, <3>2, <1>1, PinMoves, Zenon DEF HashNoval, files
  <2>23. CASE HashCopy(q)
    <3>1. /\ pc'[q] = "hash_unlink" /\ pc[q] = "hash_copy" /\ Locked(q) /\ Locked(q)'
          /\ outbuf'[q] = [hash EXCEPT ![u] = None]
      BY <2>23, <2>b, <2>l, Zenon DEF HashCopy, update_map_copy, Goto, Locked
    <3>2. hash[u] = None /\ u \in Urls
      BY <2>l, <3>1, <2>c, <2>d, <2>f, Zenon DEF CarriedOK, Shape, HashMap
    <3>3. outbuf'[q] = hash
      BY <3>1, <3>2, <2>b, Zenon
    <3>4. FreshOK("hash_unlink", x, u, done, disk, tmp, src[q]) /\ HeldOK("hash_unlink", x, u, hash, disk, src[q])
          /\ CarriedOK("hash_unlink", x, u, manifest, done, hash, disk, outbuf'[q])
      BY <3>1, <3>2, <3>3, <2>f, ZenonT(30) DEF FreshOK, HeldOK, CarriedOK, Fetching, HashMap,
         Recording
    <3>5. QED
      BY <2>l, <2>23, <3>1, <3>4, <1>1, PinMoves, ZenonT(30) DEF HashCopy, update_map_copy, files
  <2>24. CASE HashUnlink(q)
    <3>1. pc'[q] = "hash_rename" /\ pc[q] = "hash_unlink" /\ Locked(q) /\ Locked(q)'
      BY <2>24, <2>b, Zenon DEF HashUnlink, Goto, Locked
    <3>a. \A v \in Urls : hash'[v] = None
      BY <2>24, Zenon DEF HashUnlink, NoMap
    <3>2. FreshOK("hash_rename", x, u, done, disk, tmp, src[q]) /\ HeldOK("hash_rename", x, u, hash', disk, src[q])
          /\ CarriedOK("hash_rename", x, u, manifest, done, hash', disk, outbuf[q])
      BY <3>1, <3>a, <2>f, ZenonT(30) DEF FreshOK, HeldOK, CarriedOK, Fetching, HashMap, Recording
    <3>3. QED
      BY <2>l, <2>24, <3>1, <3>2, <1>1, PinMoves, Zenon DEF HashUnlink
  <2>25. CASE HashRename(q)
    <3>1. /\ pc'[q] = "extract" /\ pc[q] = "hash_rename" /\ Locked(q) /\ Locked(q)'
          /\ src'[q] = tmp' /\ tmp' \in Reopened
          /\ hash' \in Written([outbuf[q] EXCEPT ![u] = src[q]], u)
      BY <2>25, <2>b, <2>l, Zenon DEF HashRename, Goto, Locked
    <3>2. /\ outbuf[q] \in [Urls -> Content \cup {None, Cut}] /\ u \in Urls /\ src[q] = tmp
          /\ outbuf[q][u] = None /\ Recorded(manifest, done, outbuf[q], disk)
          /\ tmp \in Content
      BY <2>l, <3>1, <2>c, <2>d, <2>f, Zenon DEF CarriedOK, FreshOK, Shape, HashMap
    <3>a. hash' = [outbuf[q] EXCEPT ![u] = src[q]]
      <4>1. "map" \notin Faults
        BY DEF NoLoss
      <4>2. QED
        BY <3>1, <4>1, WrittenFrom, ZenonT(40)
    <3>3. hash'[u] = tmp /\ \A v \in Urls : v # u => hash'[v] = outbuf[q][v]
      BY <3>a, <3>2, Zenon
    <3>4. Recorded(manifest, done, hash', disk)
      BY <3>2, <3>3, <2>e, ConstantsOK, ZenonT(30) DEF Recorded
    <3>b. src'[q] \in CopiesOf(hash'[u]) /\ hash'[u] \in Content
      BY <3>1, <3>2, <3>3, ReopenedIs, Zenon DEF CopiesOf
    <3>5. FreshOK("extract", x, u, done, disk, tmp', src'[q]) /\ HeldOK("extract", x, u, hash', disk, src'[q])
          /\ CarriedOK("extract", x, u, manifest, done, hash', disk, outbuf[q])
      BY <3>1, <3>b, <3>4, <2>f, ZenonT(30) DEF FreshOK, HeldOK, CarriedOK, Fetching, HashMap,
         Recording
    <3>6. QED
      BY <2>l, <2>25, <3>1, <3>5, <1>1, PinMoves, Zenon DEF HashRename
  <2>26. CASE ExtractBegin(q)
    <3>1. /\ pc'[q] = "unpack" /\ pc[q] = "extract" /\ Locked(q) /\ Locked(q)'
          /\ todo[q] # << >> /\ Head(todo[q]).kind = "item" /\ done[x] # u /\ disk[x] = {}
      BY <2>l, <2>26, <2>b, <2>c, <2>f, Zenon DEF ExtractBegin, Goto, Locked, Shape, FreshOK,
         Fetching
    <3>2. /\ \A i \in ItemsOf(manifest) : i.path # x => disk'[i.path] = disk[i.path]
          /\ disk'[x] = {[content |-> src[q], whole |-> FALSE]}
      BY <2>26, <3>1, <2>b, <2>d, <2>e, <2>l, Zenon DEF ExtractBegin
    <3>3. Recorded(manifest, done, hash, disk')
      <4>1. Recorded(manifest, done, hash, disk)
        BY <3>1, <2>f, Zenon DEF CarriedOK
      <4>2. \A i \in ItemsOf(manifest) : i.path = x => i.url = u
        BY <3>1, <2>d, Zenon
      <4>3. \A i \in ItemsOf(manifest) : i.path # x => disk'[i.path] = disk[i.path]
        BY <3>2, Zenon
      <4>4. done[x] # u
        BY <3>1, Zenon
      <4>5. QED
        BY <4>1, <4>2, <4>3, <4>4, RecordedElsewhere, ZenonT(30)
    <3>4. \A t \in disk'[x] : t.content = src[q]
      BY <3>2
    <3>5. FreshOK("unpack", x, u, done, disk', tmp, src[q]) /\ HeldOK("unpack", x, u, hash, disk', src[q])
          /\ CarriedOK("unpack", x, u, manifest, done, hash, disk', outbuf[q])
      BY <3>1, <3>3, <3>4, <2>f, ZenonT(30) DEF FreshOK, HeldOK, CarriedOK, Fetching, HashMap,
         Recording
    <3>6. QED
      BY <2>l, <2>26, <3>1, <3>5, <1>1, PinMoves, ZenonT(30) DEF ExtractBegin
  <2>27. CASE ExtractEnd(q)
    <3>1. /\ pc'[q] = "done_copy" /\ pc[q] = "unpack" /\ Locked(q) /\ Locked(q)'
          /\ todo[q] # << >> /\ Head(todo[q]).kind = "item" /\ done[x] # u
          /\ \A t \in disk[x] : t.content = src[q]
          /\ src[q] \in Content
      BY <2>l, <2>27, <2>b, <2>c, <2>f, Zenon DEF ExtractEnd, Goto, Locked, Shape, FreshOK, HeldOK,
         Fetching
    <3>a. PICK w \in BOOLEAN : disk' = [disk EXCEPT ![x] =
                     (@ \ {[content |-> src[q], whole |-> FALSE]})
                       \cup {[content |-> src[q], whole |-> w]}]
      BY <2>27, <2>l, ZenonT(30) DEF ExtractEnd
    <3>2. /\ \A i \in ItemsOf(manifest) : i.path # x => disk'[i.path] = disk[i.path]
          /\ \A t \in disk'[x] : t \in disk[x] \/ t = [content |-> src[q], whole |-> w]
      BY <3>a, <3>1, <2>b, <2>d, <2>e, Zenon
    <3>3. Recorded(manifest, done, hash, disk')
      <4>1. Recorded(manifest, done, hash, disk)
        BY <3>1, <2>f, Zenon DEF CarriedOK
      <4>2. \A i \in ItemsOf(manifest) : i.path = x => i.url = u
        BY <3>1, <2>d, Zenon
      <4>3. \A i \in ItemsOf(manifest) : i.path # x => disk'[i.path] = disk[i.path]
        BY <3>2, Zenon
      <4>4. done[x] # u
        BY <3>1, Zenon
      <4>5. QED
        BY <4>1, <4>2, <4>3, <4>4, RecordedElsewhere, ZenonT(30)
    <3>4. \A t \in disk'[x] : t.content = src[q]
      BY <3>1, <3>2
    <3>5. Scheme[u] = "http" => src[q] \in CopiesOf(hash[u]) /\ hash[u] \in Content
      BY <3>1, <2>f, Zenon DEF HeldOK
    <3>6. FreshOK("done_copy", x, u, done, disk', tmp', src[q]) /\ HeldOK("done_copy", x, u, hash, disk', src[q])
          /\ CarriedOK("done_copy", x, u, manifest, done, hash, disk', outbuf[q])
      BY <3>1, <3>3, <3>4, <3>5, <2>f, ZenonT(30) DEF FreshOK, HeldOK, CarriedOK, Fetching, HashMap,
         Recording
    <3>7. QED
      BY <2>l, <2>27, <3>1, <3>6, <1>1, PinMoves, ZenonT(30) DEF ExtractEnd
  <2>28. CASE DoneCopy(q)
    <3>1. /\ pc'[q] = "done_unlink" /\ pc[q] = "done_copy" /\ Locked(q) /\ Locked(q)'
          /\ outbuf'[q] = [done EXCEPT ![x] = None]
      BY <2>28, <2>b, <2>l, Zenon DEF DoneCopy, update_map_copy, Goto, Locked
    <3>2. \A i \in ItemsOf(manifest) : outbuf'[q][i.path] = i.url => done[i.path] = i.url
      BY <3>1, <2>b, <2>e, ConstantsOK
    <3>3. Recorded(manifest, outbuf'[q], hash, disk)
      BY <3>1, <3>2, <2>f, ZenonT(30) DEF CarriedOK, Recorded
    <3>4. FreshOK("done_unlink", x, u, done, disk, tmp, src[q]) /\ HeldOK("done_unlink", x, u, hash, disk, src[q])
          /\ CarriedOK("done_unlink", x, u, manifest, done, hash, disk, outbuf'[q])
      BY <3>1, <3>3, <2>f, ZenonT(30) DEF FreshOK, HeldOK, CarriedOK, Fetching, HashMap, Recording
    <3>5. QED
      BY <2>l, <2>28, <3>1, <3>4, <1>1, PinMoves, ZenonT(30) DEF DoneCopy, update_map_copy, files
  <2>29. CASE DoneUnlink(q)
    <3>1. pc'[q] = "done_rename" /\ pc[q] = "done_unlink" /\ Locked(q) /\ Locked(q)'
      BY <2>29, <2>b, Zenon DEF DoneUnlink, Goto, Locked
    <3>2. \A i \in ItemsOf(manifest) : done'[i.path] # i.url
      BY <2>29, <2>e, ConstantsOK, Zenon DEF DoneUnlink, NoMap
    <3>3. Recorded(manifest, done', hash, disk)
      BY <3>2, Zenon DEF Recorded
    <3>4. FreshOK("done_rename", x, u, done', disk, tmp, src[q]) /\ HeldOK("done_rename", x, u, hash, disk, src[q])
          /\ CarriedOK("done_rename", x, u, manifest, done', hash, disk, outbuf[q])
      BY <3>1, <3>3, <2>f, ZenonT(30) DEF FreshOK, HeldOK, CarriedOK, Fetching, HashMap, Recording
    <3>5. QED
      BY <2>l, <2>29, <3>1, <3>4, <1>1, PinMoves, Zenon DEF DoneUnlink
  <2>30. CASE DoneRename(q)
    <3>1. /\ pc'[q] = "loop" /\ pc[q] = "done_rename" /\ Locked(q) /\ Locked(q)'
          /\ todo'[q] = Tail(todo[q]) /\ todo[q] # << >> /\ Head(todo[q]).kind = "item"
          /\ done' \in Written([outbuf[q] EXCEPT ![x] = u], x)
          /\ outbuf[q] \in [Paths -> Urls \cup {None, Cut}]
          /\ manifest' = manifest /\ hash' = hash /\ disk' = disk
      BY <2>l, <2>30, <2>b, <2>c, <2>l, Zenon DEF DoneRename, Goto, Locked, Shape, Recording
    <3>a. done' = [outbuf[q] EXCEPT ![x] = u]
      <4>1. "map" \notin Faults
        BY DEF NoLoss
      <4>2. QED
        BY <3>1, <4>1, WrittenFrom, ZenonT(40)
    <3>2. Elems(Tail(todo[q])) \subseteq Elems(manifest)
      BY <3>1, <2>b, <2>f, HeadTail, Zenon
    <3>3. ASSUME NEW i \in ItemsOf(manifest), done'[i.path] = i.url, Scheme[i.url] = "http"
          PROVE  hash[i.url] \in Content
                 /\ \A t \in disk[i.path] : t.content \in CopiesOf(hash[i.url])
      <4>1. CASE i.path = x
        <5>1. i.url = u
          BY <4>1, <3>1, <2>d, Zenon
        <5>2. Scheme[u] = "http" =>
                hash[u] \in Content /\ \A t \in disk[x] : t.content \in CopiesOf(hash[u])
          BY <3>1, <2>f, Zenon DEF HeldOK, Recording
        <5>3. QED
          BY <4>1, <5>1, <5>2, <3>3, ZenonT(30)
      <4>2. CASE i.path # x
        <5>1. outbuf[q][i.path] = i.url
          BY <4>2, <3>1, <3>a, <3>3, <2>e, Zenon
        <5>2. Recorded(manifest, outbuf[q], hash, disk)
          BY <3>1, <2>f, Zenon DEF CarriedOK
        <5>3. QED
          BY <5>1, <5>2, <3>3, ZenonT(30) DEF Recorded
      <4>3. QED
        BY <4>1, <4>2
    <3>4. Recorded(manifest, done', hash, disk)
      BY <3>3, Zenon DEF Recorded
    <3>5. /\ FreshOK("loop", path(q)', url(q)', done', disk, tmp', src'[q])
          /\ HeldOK("loop", path(q)', url(q)', hash, disk, src'[q])
          /\ CarriedOK("loop", path(q)', url(q)', manifest, done', hash, disk, outbuf'[q])
      BY <3>4, PinBetween, Zenon
    <3>6. Elems(todo'[q]) \subseteq Elems(manifest)
      BY <3>1, <3>2, Zenon
    <3>7. PinHolder(q)'
      <4>1. manifest' = manifest /\ hash' = hash /\ disk' = disk /\ pc'[q] = "loop"
        BY <3>1, Zenon
      <4>2. QED
        BY <3>5, <3>6, <4>1, ZenonT(30) DEF PinHolder
    <3>8. QED
      BY <1>1, <3>1, <3>7, PinGoesOn, Zenon
  <2>31. CASE CutLineCrash(q)
    BY <2>31, <1>1, <2>a, PinExit, Zenon DEF CutLineCrash, Exit, files, Locked
  <2>32. CASE Hang(q)
    <3>1. /\ pc'[q] = "hung" /\ Locked(q) /\ Locked(q)'
          /\ pc[q] \in {"fetch", "body", "extract", "ninja"}
      BY <2>32, <2>b, Zenon DEF Hang, Goto, Locked
    <3>2. Recorded(manifest, done, hash, disk)
      BY <3>1, <2>f, Zenon DEF CarriedOK
    <3>3. QED
      BY <2>32, <3>1, <3>2, <1>1, PinBetween, PinMoves, Zenon DEF Hang, files
  <2>33. QED
    BY <1>3, <2>1, <2>2, <2>3, <2>4, <2>5, <2>6, <2>7, <2>8, <2>9, <2>10, <2>11, <2>12, <2>13,
       <2>14, <2>15, <2>16, <2>17, <2>18, <2>19, <2>20, <2>21, <2>22, <2>23, <2>24, <2>25, <2>26,
       <2>27, <2>28, <2>29, <2>30, <2>31, <2>32, Zenon DEF Step
<1>4. QED
  BY <1>2, <1>3, Zenon DEF Next

(* What is installed over http is of the version that download.hash has for  *)
(* its url, with or without a pin to begin with, whatever servers send and   *)
(* whether or not the tail of download.tmp reaches the disk: as long as      *)
(* update_map loses no line, by a kill, a failed rename or an fclose that    *)
(* fails, and delete_path deletes.                                           *)
THEOREM InstalledIsPinned == ASSUME NoLoss PROVE Spec => []InstalledMatchesPin
<1>1. ASSUME PInv, NEW l \in ItemsOf(manifest), UpToDate(l), Scheme[l.url] = "http",
             hash[l.url] \in Content
      PROVE  \A t \in disk[l.path] : t.content \in CopiesOf(hash[l.url])
  <2>1. l.url \in Urls
    BY <1>1, ItemFacts, ZenonT(30) DEF PInv, BaseInv
  <2>a. hash[l.url] # None
    BY <1>1, ConstantsOK, Zenon
  <2>2. Recorded(manifest, done, hash, disk)
    BY <2>a, <1>1, <2>1, ZenonT(30) DEF PInv, PinHolder, CarriedOK
  <2>3. QED
    BY <1>1, <2>2, ZenonT(30) DEF Recorded, UpToDate
<1>2. PInv => InstalledMatchesPin
  BY <1>1, ZenonT(30) DEF InstalledMatchesPin, CopiesOf
<1>3. QED
  BY PInvInit, PinStep, <1>2, PTL DEF Spec
=============================================================================
