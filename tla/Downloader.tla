----------------------------- MODULE Downloader -----------------------------
(***************************************************************************)
(* The download tool (tools/download/download.c).                          *)
(*                                                                         *)
(* Visual Studio runs one download process per project, in parallel, in    *)
(* one solution directory.  A process takes an exclusive lock on           *)
(* download.manifest, walks its lines, brings every path that              *)
(* download.done does not already record for the line's url up to date,    *)
(* and runs ninja while it still holds the lock.  A process may be killed  *)
(* between any two steps; what it wrote to disk stays.                     *)
(*                                                                         *)
(* The two map files (download.done: path -> url, download.hash: url ->    *)
(* sha256) are functions with None for a missing key; a file that is       *)
(* missing maps every key to None.  A sha256 is the content it is the      *)
(* digest of: two contents have one digest only if they are equal.  Keys   *)
(* and values are short enough for test_map's line[256].                   *)
(***************************************************************************)
EXTENDS Naturals, Sequences

CONSTANTS
  Procs,      (* download processes                                         *)
  Paths,      (* paths the manifest installs to, none inside another        *)
  Urls,
  Scheme,     (* Urls -> "http" (https too), "file" or "other"              *)
  Vers,       (* what a url may serve over time                             *)
  Manifests,  (* contents download.manifest may have: sequences of lines    *)
  Pins,       (* download.hash as checked in: Urls -> content or None       *)
  Faults,     (* what may go wrong, of the names below                      *)
  RunsNinja,  (* TRUE for the WIN32 build, whose run_ninja does something   *)
  MaxRuns,    (* bound: launches of each process                            *)
  MaxKills,   (* bound: processes killed                                    *)
  None,
  Cut         (* a line of a map file of which only a beginning is there    *)

(* The faults that an instance may switch on: a connection that breaks off   *)
(* in the body; a local read, or the close of an unpacked file, that fails   *)
(* unnoticed; the close of download.tmp and of download.map that fail        *)
(* unnoticed, as nothing looks at what fflush and fclose return; a delete    *)
(* and a rename that fail; a call that does not return.                      *)
FaultNames == {"net", "disk", "tmp", "map", "delete", "rename", "hang"}

(* A content that arrived from a url; full is FALSE when the stream broke    *)
(* off early.                                                                *)
Content == [url : Urls, ver : Vers, full : BOOLEAN]

(* What extraction left below a path: a content, unpacked wholly or partly.  *)
Token == [content : Content, whole : BOOLEAN]

(* A manifest line once trimmed and cut at the commas.                       *)
Line == [kind : {"comment", "foreign", "invalid", "item"},
         path : Paths, url : Urls]

ItemsOf(m) == {m[i] : i \in {j \in DOMAIN m : m[j].kind = "item"}}

ASSUME ConstantsOK ==
  /\ Scheme \in [Urls -> {"http", "file", "other"}]
  /\ Manifests \subseteq Seq(Line)
  /\ Pins \in [Urls -> Content \cup {None}]
  /\ \A u \in Urls : Pins[u] # None => Pins[u].url = u /\ Pins[u].full
  /\ None \notin Content \cup Urls \cup Procs
  /\ Cut \notin Content \cup Urls \cup {None}
  /\ Faults \subseteq FaultNames
  /\ MaxRuns \in Nat /\ MaxKills \in Nat
  /\ RunsNinja \in BOOLEAN

(* The lines for this host name each path once.                              *)
ASSUME PathsDistinct ==
  \A m \in Manifests : \A l, k \in ItemsOf(m) : l.path = k.path => l = k

VARIABLES
  manifest,   (* download.manifest                                          *)
  done,       (* download.done                                              *)
  hash,       (* download.hash                                              *)
  tmp,        (* download.tmp, None when there is no such file              *)
  disk,       (* what is below each path                                    *)
  lock,       (* the process that holds the manifest's lock, or None        *)
  pc,         (* where each process is                                      *)
  todo,       (* the lines a process has still to handle, as it read them   *)
  want,       (* the manifest as a process read it                          *)
  src,        (* the content in a process's hands                           *)
  outbuf,     (* lines update_map has copied for the new map file           *)
  runs,       (* launches so far                                            *)
  kills       (* kills so far                                               *)

files == <<done, hash, tmp, disk>>
procs == <<pc, todo, want, src, outbuf>>
vars  == <<manifest, done, hash, tmp, disk, lock, pc, todo, want, src, outbuf,
           runs, kills>>

(* An empty or missing map file.                                             *)
NoMap(keys) == [k \in keys |-> None]

(* All of one version of what a url serves, unpacked.                        *)
Whole(u, v) == [content |-> [url |-> u, ver |-> v, full |-> TRUE], whole |-> TRUE]

Init ==
  /\ manifest \in Manifests
  /\ hash = Pins
  (* a checkout that an earlier manifest may have left paths installed in    *)
  /\ done \in [Paths -> Urls \cup {None}]
  /\ disk \in [Paths -> {{}} \cup {{Whole(u, v)} : u \in Urls, v \in Vers}]
  /\ \A x \in Paths :
       IF done[x] = None
         THEN disk[x] = {}
         ELSE \E v \in Vers :
                /\ disk[x] = {Whole(done[x], v)}
                /\ Scheme[done[x]] # "other"
                /\ Scheme[done[x]] = "http" =>
                     Pins[done[x]] = Whole(done[x], v).content
  /\ tmp = None
  /\ lock = None
  /\ pc = [p \in Procs |-> "idle"]
  /\ todo = [p \in Procs |-> << >>]
  /\ want = [p \in Procs |-> << >>]
  /\ src = [p \in Procs |-> None]
  /\ outbuf = [p \in Procs |-> None]
  /\ runs = [p \in Procs |-> 0]
  /\ kills = 0

-----------------------------------------------------------------------------
(* Start and end of a process.                                               *)

Goto(p, l) == pc' = [pc EXCEPT ![p] = l]

(* The process ends and the system drops its lock.  Every return of main and *)
(* every exit() of the code ends here, with the files as they are.           *)
Exit(p) ==
  /\ Goto(p, "idle")
  /\ lock' = None
  /\ todo' = [todo EXCEPT ![p] = << >>]
  /\ want' = [want EXCEPT ![p] = << >>]
  /\ src' = [src EXCEPT ![p] = None]
  /\ outbuf' = [outbuf EXCEPT ![p] = None]
  /\ UNCHANGED <<manifest, runs, kills>>

(* MSBuild starts download.exe for a project.                                *)
Launch(p) ==
  /\ pc[p] = "idle"
  /\ runs[p] < MaxRuns
  /\ runs' = [runs EXCEPT ![p] = @ + 1]
  /\ Goto(p, "open")
  /\ UNCHANGED <<manifest, files, lock, todo, want, src, outbuf, kills>>

(* open, then a blocking flock, and only then the read of the whole file.    *)
open_manifest(p) ==
  /\ pc[p] = "open"
  /\ lock = None
  /\ lock' = p
  /\ todo' = [todo EXCEPT ![p] = manifest]
  /\ want' = [want EXCEPT ![p] = manifest]
  /\ Goto(p, "loop")
  /\ UNCHANGED <<manifest, files, src, outbuf, runs, kills>>

(* chdir, open or flock fails, or the file is cut short while it is read.    *)
open_manifest_fails(p) ==
  /\ pc[p] = "open"
  /\ Goto(p, "idle")
  /\ UNCHANGED <<manifest, files, lock, todo, want, src, outbuf, runs, kills>>

(* All lines are handled: run_ninja, still under the lock.                   *)
NoMoreLines(p) ==
  /\ pc[p] = "loop"
  /\ todo[p] = << >>
  /\ Goto(p, IF RunsNinja THEN "ninja" ELSE "close")
  /\ UNCHANGED <<manifest, files, lock, todo, want, src, outbuf, runs, kills>>

(* ninja ends, or could not be launched.                                     *)
run_ninja(p) ==
  /\ pc[p] = "ninja"
  /\ \/ /\ Goto(p, "close")
        /\ UNCHANGED <<manifest, lock, todo, want, src, outbuf, runs, kills>>
     \/ Exit(p)
  /\ UNCHANGED files

close_manifest(p) ==
  /\ pc[p] = "close"
  /\ Exit(p)
  /\ UNCHANGED files

-----------------------------------------------------------------------------
(* One turn of main's loop over the lines.                                   *)

path(p) == Head(todo[p]).path
url(p)  == Head(todo[p]).url

(* test_map("download.done", path, url) == MATCH                             *)
UpToDate(l) == done[l.path] = l.url

(* Mutant: next is not moved on to the following line.                       *)
SkipLine_Same(p) ==
  /\ pc[p] = "loop"
  /\ todo[p] # << >>
  /\ LET l == Head(todo[p])
     IN  \/ l.kind \in {"comment", "foreign"}
         \/ l.kind = "item" /\ UpToDate(l)
  /\ UNCHANGED vars

(* Comments, empty lines, lines for another host and lines that              *)
(* download.done records already.                                            *)
SkipLine(p) ==
  /\ pc[p] = "loop"
  /\ todo[p] # << >>
  /\ LET l == Head(todo[p])
     IN  \/ l.kind \in {"comment", "foreign"}
         \/ l.kind = "item" /\ UpToDate(l)
  /\ todo' = [todo EXCEPT ![p] = Tail(@)]
  /\ UNCHANGED <<manifest, files, lock, pc, want, src, outbuf, runs, kills>>

(* A line without a path or a url ends the run.                              *)
InvalidLine(p) ==
  /\ pc[p] = "loop"
  /\ todo[p] # << >>
  /\ Head(todo[p]).kind = "invalid"
  /\ Exit(p)
  /\ UNCHANGED files

Torn(t) == [t EXCEPT !.whole = FALSE]

(* delete_path works through a tree entry by entry: a kill in the middle     *)
(* leaves part of it.                                                        *)
delete_path_begin(p) ==
  /\ pc[p] = "loop"
  /\ todo[p] # << >>
  /\ Head(todo[p]).kind = "item"
  /\ ~UpToDate(Head(todo[p]))
  /\ disk' = [disk EXCEPT ![path(p)] = {Torn(t) : t \in @}]
  /\ Goto(p, "delete")
  /\ UNCHANGED <<manifest, done, hash, tmp, lock, todo, want, src, outbuf,
                 runs, kills>>

(* It returns nothing: what could not be removed stays, unnoticed.           *)
delete_path_end(p) ==
  /\ pc[p] = "delete"
  /\ \E left \in SUBSET disk[path(p)] :
       /\ "delete" \notin Faults => left = {}
       /\ disk' = [disk EXCEPT ![path(p)] = left]
  /\ Goto(p, "fetch")
  /\ UNCHANGED <<manifest, done, hash, tmp, lock, todo, want, src, outbuf,
                 runs, kills>>

(* Mutant: a line that cannot be fetched is passed over.                     *)
FetchFails_NextLine(p) ==
  /\ pc[p] = "fetch"
  /\ todo' = [todo EXCEPT ![p] = Tail(@)]
  /\ Goto(p, "loop")
  /\ UNCHANGED <<manifest, files, lock, want, src, outbuf, runs, kills>>

(* An unknown scheme, a failed connection, an output or source file that     *)
(* cannot be opened.                                                         *)
FetchFails(p) ==
  /\ pc[p] = "fetch"
  /\ Exit(p)
  /\ UNCHANGED files

(* http: the response is open and download.tmp is created or truncated.      *)
OpenHttp(p) ==
  /\ pc[p] = "fetch"
  /\ Scheme[url(p)] = "http"
  /\ \E v \in Vers : tmp' = [url |-> url(p), ver |-> v, full |-> FALSE]
  /\ Goto(p, "body")
  /\ UNCHANGED <<manifest, done, hash, disk, lock, todo, want, src, outbuf,
                 runs, kills>>

(* file: the source is read in place; no hash is kept for it.                *)
OpenFileUrl(p) ==
  /\ pc[p] = "fetch"
  /\ Scheme[url(p)] = "file"
  /\ \E v \in Vers :
       src' = [src EXCEPT ![p] = [url |-> url(p), ver |-> v, full |-> TRUE]]
  /\ Goto(p, "extract")
  /\ UNCHANGED <<manifest, files, lock, todo, want, outbuf, runs, kills>>

(* extract_file copies the body into download.tmp.  A read that fails looks  *)
(* like the end of the stream, so the copy ends there and is taken for a     *)
(* good one.                                                                 *)
ReceiveBody(p) ==
  /\ pc[p] = "body"
  /\ \E f \in BOOLEAN :
       /\ ~f => "net" \in Faults
       /\ src' = [src EXCEPT ![p] = [tmp EXCEPT !.full = f]]
       /\ tmp' = [tmp EXCEPT !.full = f]
  /\ Goto(p, "hash")
  /\ UNCHANGED <<manifest, done, hash, disk, lock, todo, want, outbuf, runs,
                 kills>>

(* fwrite reports a failure.  What it leaves in the buffer of download.tmp   *)
(* may still be lost: see Reopened.                                          *)
WriteFails(p) ==
  /\ pc[p] = "body"
  /\ Exit(p)
  /\ UNCHANGED files

(* What a second fopen of download.tmp finds after fflush and fclose, whose  *)
(* results are not looked at: the sha256 is of the stream, not of the file.  *)
Reopened ==
  {tmp} \cup {c \in {[tmp EXCEPT !.full = FALSE]} : "tmp" \in Faults}

(* test_map("download.hash", url, sha256): on MATCH the tmp file is opened   *)
(* again for reading.                                                        *)
HashMatch(p) ==
  /\ pc[p] = "hash"
  /\ hash[url(p)] = src[p]
  /\ tmp' \in Reopened
  /\ src' = [src EXCEPT ![p] = tmp']
  /\ Goto(p, "extract")
  /\ UNCHANGED <<manifest, done, hash, disk, lock, todo, want, outbuf, runs,
                 kills>>

(* Mutant: a mismatch is reported and the file used all the same.            *)
HashMismatch_Used(p) ==
  /\ pc[p] = "hash"
  /\ hash[url(p)] \notin {None, src[p]}
  /\ Goto(p, "extract")
  /\ UNCHANGED <<manifest, files, lock, todo, want, src, outbuf, runs, kills>>

HashMismatch(p) ==
  /\ pc[p] = "hash"
  /\ hash[url(p)] \notin {None, src[p]}
  /\ Exit(p)
  /\ UNCHANGED files

HashNoval(p) ==
  /\ pc[p] = "hash"
  /\ hash[url(p)] = None
  /\ Goto(p, "hash_copy")
  /\ UNCHANGED <<manifest, files, lock, todo, want, src, outbuf, runs, kills>>

-----------------------------------------------------------------------------
(* update_map: copy the other lines into download.map, unlink the old file,  *)
(* add the new line and rename.  The first fopen truncates a download.map    *)
(* that a killed process left.                                               *)

(* The beginnings of the text of a map whose last line is key's; the order   *)
(* of the others is left open.                                               *)
Beginnings(map, key) ==
  {[k \in DOMAIN map |-> IF k \in kept THEN map[k]
                         ELSE IF k = cut /\ map[k] # None THEN Cut ELSE None] :
     kept \in SUBSET (DOMAIN map \ {key}), cut \in {None} \cup DOMAIN map}

(* The file that fclose and rename put in place.  The result of fclose is    *)
(* not looked at: only a beginning may have reached the disk.                *)
Written(map, key) ==
  {map} \cup {m \in Beginnings(map, key) : "map" \in Faults}

update_map_copy(p, from, to, map, key) ==
  /\ pc[p] = from
  /\ outbuf' = [outbuf EXCEPT ![p] = [map EXCEPT ![key] = None]]
  /\ Goto(p, to)
  /\ UNCHANGED <<manifest, files, lock, todo, want, src, runs, kills>>

HashCopy(p) == update_map_copy(p, "hash_copy", "hash_unlink", hash, url(p))
DoneCopy(p) == update_map_copy(p, "done_copy", "done_unlink", done, path(p))

HashUnlink(p) ==
  /\ pc[p] = "hash_unlink"
  /\ hash' = NoMap(Urls)
  /\ Goto(p, "hash_rename")
  /\ UNCHANGED <<manifest, done, tmp, disk, lock, todo, want, src, outbuf,
                 runs, kills>>

DoneUnlink(p) ==
  /\ pc[p] = "done_unlink"
  /\ done' = NoMap(Paths)
  /\ Goto(p, "done_rename")
  /\ UNCHANGED <<manifest, hash, tmp, disk, lock, todo, want, src, outbuf,
                 runs, kills>>

HashRename(p) ==
  /\ pc[p] = "hash_rename"
  /\ hash' \in Written([outbuf[p] EXCEPT ![url(p)] = src[p]], url(p))
  /\ tmp' \in Reopened
  /\ src' = [src EXCEPT ![p] = tmp']
  /\ Goto(p, "extract")
  /\ UNCHANGED <<manifest, done, disk, lock, todo, want, outbuf, runs, kills>>

(* The last step of a line.                                                  *)
DoneRename(p) ==
  /\ pc[p] = "done_rename"
  /\ done' \in Written([outbuf[p] EXCEPT ![path(p)] = url(p)], path(p))
  /\ todo' = [todo EXCEPT ![p] = Tail(@)]
  /\ Goto(p, "loop")
  /\ UNCHANGED <<manifest, hash, tmp, disk, lock, want, src, outbuf, runs,
                 kills>>

(* download.map cannot be opened: the old file is still there.               *)
MapOpenFails(p) ==
  /\ pc[p] \in {"hash_copy", "done_copy"}
  /\ Exit(p)
  /\ UNCHANGED files

(* The rename fails: the old file is gone already.                           *)
MapRenameFails(p) ==
  /\ "rename" \in Faults
  /\ pc[p] \in {"hash_rename", "done_rename"}
  /\ Exit(p)
  /\ UNCHANGED files

(* A line that was cut before its value has no second token, and trim(NULL)  *)
(* ends the process: in test_map when no earlier line has the key, as the    *)
(* cut line is the last, in update_map always.                               *)
CutLineCrash(p) ==
  /\ pc[p] \in {"loop", "hash", "hash_copy", "done_copy"}
  /\ pc[p] = "loop" =>
       /\ todo[p] # << >> /\ Head(todo[p]).kind = "item"
       /\ done[path(p)] \in {None, Cut}
  /\ pc[p] = "hash" => hash[url(p)] \in {None, Cut}
  /\ LET map == IF pc[p] \in {"loop", "done_copy"} THEN done ELSE hash
     IN  \E k \in DOMAIN map : map[k] = Cut
  /\ Exit(p)
  /\ UNCHANGED files

-----------------------------------------------------------------------------
(* Unpacking: extract_container or extract_path, by the url's ending.        *)

ExtractBegin(p) ==
  /\ pc[p] = "extract"
  /\ disk' = [disk EXCEPT ![path(p)] =
                @ \cup {[content |-> src[p], whole |-> FALSE]}]
  /\ Goto(p, "unpack")
  /\ UNCHANGED <<manifest, done, hash, tmp, lock, todo, want, src, outbuf,
                 runs, kills>>

(* Success, as the code sees it: a read error on the way looks like the end  *)
(* of the stream here too.  download.tmp goes in any case.                   *)
ExtractEnd(p) ==
  /\ pc[p] = "unpack"
  /\ \E w \in BOOLEAN :
       /\ ~w => "disk" \in Faults
       /\ disk' = [disk EXCEPT ![path(p)] =
                     (@ \ {[content |-> src[p], whole |-> FALSE]})
                       \cup {[content |-> src[p], whole |-> w]}]
  /\ tmp' = None
  /\ Goto(p, "done_copy")
  /\ UNCHANGED <<manifest, done, hash, lock, todo, want, src, outbuf, runs,
                 kills>>

(* Mutant: err is not looked at before update_map.                           *)
ExtractFails_Recorded(p) ==
  /\ pc[p] = "unpack"
  /\ tmp' = None
  /\ Goto(p, "done_copy")
  /\ UNCHANGED <<manifest, done, hash, disk, lock, todo, want, src, outbuf,
                 runs, kills>>

ExtractFails(p) ==
  /\ pc[p] = "unpack"
  /\ tmp' = None
  /\ Exit(p)
  /\ UNCHANGED <<done, hash, disk>>

-----------------------------------------------------------------------------

(* The process is killed, or crashes on a NULL that open_zip or the second   *)
(* fopen of download.tmp gave it: its buffers are lost, the files stay.      *)
Kill(p) ==
  /\ pc[p] \notin {"idle", "open"}
  /\ kills < MaxKills
  /\ kills' = kills + 1
  /\ Goto(p, "idle")
  /\ lock' = None
  /\ todo' = [todo EXCEPT ![p] = << >>]
  /\ want' = [want EXCEPT ![p] = << >>]
  /\ src' = [src EXCEPT ![p] = None]
  /\ outbuf' = [outbuf EXCEPT ![p] = None]
  /\ UNCHANGED <<manifest, files, runs>>

(* The process waits for ever and keeps the lock: get_line reads on after    *)
(* the connection broke (source-http.c:162), a server says nothing (there is *)
(* no timeout), open_zip looks for ever for its directory                    *)
(* (container-zip.c:274), or ninja does not end.                             *)
Hang(p) ==
  /\ "hang" \in Faults
  /\ pc[p] \in {"fetch", "body", "extract", "ninja"}
  /\ pc[p] = "fetch" => Scheme[url(p)] = "http"
  /\ Goto(p, "hung")
  /\ UNCHANGED <<manifest, files, lock, todo, want, src, outbuf, runs, kills>>

(* What the program does by itself, once it holds the lock.                  *)
Step(p) ==
  \/ NoMoreLines(p) \/ run_ninja(p) \/ close_manifest(p)
  \/ SkipLine(p) \/ InvalidLine(p)
  \/ delete_path_begin(p) \/ delete_path_end(p)
  \/ FetchFails(p) \/ OpenHttp(p) \/ OpenFileUrl(p)
  \/ ReceiveBody(p) \/ WriteFails(p)
  \/ HashMatch(p) \/ HashMismatch(p) \/ HashNoval(p)
  \/ HashCopy(p) \/ HashUnlink(p) \/ HashRename(p)
  \/ DoneCopy(p) \/ DoneUnlink(p) \/ DoneRename(p)
  \/ MapOpenFails(p) \/ MapRenameFails(p) \/ CutLineCrash(p)
  \/ ExtractBegin(p) \/ ExtractEnd(p) \/ ExtractFails(p)

Next ==
  \E p \in Procs :
    \/ Launch(p) \/ open_manifest(p) \/ open_manifest_fails(p)
    \/ Step(p) \/ Hang(p) \/ Kill(p)

Spec == Init /\ [][Next]_vars

(* The user saves another version of the manifest.                           *)
EditManifest ==
  /\ manifest' \in Manifests \ {manifest}
  /\ UNCHANGED <<files, lock, procs, runs, kills>>

EditSpec == Init /\ [][Next \/ EditManifest]_vars

(* A process that can run runs, unless it hangs: no fairness makes a hung    *)
(* process go on or be killed.  flock wakes its waiters in turn, so one that *)
(* finds the lock free again and again gets it.                              *)
FairSpec ==
  /\ Spec
  /\ \A p \in Procs : WF_vars(Step(p)) /\ SF_vars(open_manifest(p))

-----------------------------------------------------------------------------
(* Properties.                                                               *)

PcLabels ==
  {"idle", "open", "loop", "ninja", "close", "delete", "fetch", "body", "hash",
   "hash_copy", "hash_unlink", "hash_rename", "extract", "unpack",
   "done_copy", "done_unlink", "done_rename", "hung"}

(* Every variable has its type, for download.c's files and locals.           *)
TypeOK ==
  /\ manifest \in Manifests
  /\ done \in [Paths -> Urls \cup {None, Cut}]
  /\ hash \in [Urls -> Content \cup {None, Cut}]
  /\ tmp \in Content \cup {None}
  /\ disk \in [Paths -> SUBSET Token]
  /\ lock \in Procs \cup {None}
  /\ pc \in [Procs -> PcLabels]
  /\ todo \in [Procs -> Seq(Line)]
  /\ want \in [Procs -> Seq(Line)]
  /\ src \in [Procs -> Content \cup {None}]
  /\ outbuf \in [Procs -> {None} \cup [Paths -> Urls \cup {None, Cut}]
                             \cup [Urls -> Content \cup {None, Cut}]]
  /\ runs \in [Procs -> Nat]
  /\ kills \in Nat

(* Exactly the whole of a content of this url is below the path.             *)
Installed(x, u) ==
  \E c \in Content : /\ c.url = u
                     /\ c.full
                     /\ disk[x] = {[content |-> c, whole |-> TRUE]}

(* A line that main's loop would skip because download.done matches it is    *)
(* really installed, whole, whatever processes ran or died before: the       *)
(* order delete_path, extract, update_map in main, under the lock.           *)
SkippedIsInstalled ==
  \A l \in ItemsOf(manifest) : UpToDate(l) => Installed(l.path, l.url)

(* While a process runs ninja, everything its copy of the manifest lists for *)
(* this host is installed and no other process is taking it apart.           *)
NinjaSeesAll ==
  \A p \in Procs :
    pc[p] \in {"ninja", "close"} =>
      \A l \in ItemsOf(want[p]) : Installed(l.path, l.url)

(* A line that download.done matches and that came over http holds the       *)
(* version whose sha256 download.hash has for its url, or, as download.tmp   *)
(* is closed unchecked after the hash is known, what is left of that version *)
(* when its tail is lost: a url that changes what it serves cannot give two  *)
(* paths, or one path at two times, different versions (test_map and         *)
(* update_map on download.hash in main).  The hash of a body that broke off  *)
(* becomes a pin like any other.                                             *)
InstalledMatchesPin ==
  \A l \in ItemsOf(manifest) :
    (UpToDate(l) /\ Scheme[l.url] = "http" /\ hash[l.url] \in Content) =>
      \A t \in disk[l.path] :
        t.content \in {hash[l.url], [hash[l.url] EXCEPT !.full = FALSE]}

(* Every launched process ends, if a process that hangs is always killed in  *)
(* the end: no line loops for ever, and the lock goes from one process to    *)
(* the next through failures, crashes on a torn map file and kills.          *)
EveryRunEnds ==
  []<>(\A q \in Procs : pc[q] # "hung") =>
    \A p \in Procs : (pc[p] # "idle") ~> (pc[p] = "idle")
=============================================================================
