----------------------------- MODULE ZipExtract -----------------------------
(***************************************************************************)
(* Unpacking a zip file: open_zip's search for the central directory, the  *)
(* walk through its entries and the reading of their data                  *)
(* (tools/stream/container-zip.c), driven by extract_container             *)
(* (tools/download/extract.c).  One FILE serves the directory and the      *)
(* data.                                                                   *)
(*                                                                         *)
(* The file is given by what can be read at which position: end records,   *)
(* zip64 locators, file headers and local headers.  A byte of data is its  *)
(* position.                                                               *)
(***************************************************************************)
EXTENDS Integers, Sequences

CONSTANTS
  Archives,    (* files to unpack: see ArchiveOK                            *)
  EndSize, LocatorSize, HeaderSize, LocalSize,
  ExtraSize,   (* bytes of a zip_file_extra: 4                              *)
  WordSize,    (* bytes of a 64 bit length: 8                               *)
  Near, Far,   (* how much of the end is searched: 1024 and 65K             *)
  Big,         (* 0xFFFFFFFF                                                *)
  FaultSets    (* what may go wrong together: subsets of Faults             *)

Faults  == {"io", "data"}
Lengths == {"uncompressed", "compressed", "local"}

(* ends and locators are sets of records with the position they are at;      *)
(* entries and locals are functions from positions.                          *)
ArchiveOK(z) ==
  /\ z.size \in Nat
  /\ \A e \in z.ends : {e.at, e.comment} \subseteq Nat
  /\ DOMAIN z.entries \subseteq 0..z.size /\ DOMAIN z.locals \subseteq 0..z.size
  /\ \A p \in DOMAIN z.locals : z.locals[p] \in Nat
  /\ \A p \in DOMAIN z.entries :
       /\ DOMAIN z.entries[p] = {"kind", "path", "method", "name", "extralen", "extras"} \cup Lengths
       /\ {z.entries[p].name, z.entries[p].extralen} \subseteq Nat
       /\ z.entries[p].kind \in {"file", "dir", "bad"}
       /\ z.entries[p].method \in {"stored", "deflated", "other"}

ASSUME ZipConstants ==
  /\ \A z \in Archives : ArchiveOK(z)
  /\ {EndSize, LocatorSize, HeaderSize, LocalSize, ExtraSize, WordSize} \subseteq Nat \ {0}
  /\ {Near, Far} \subseteq Nat /\ EndSize < Near /\ Near < Far
  /\ Big \in Nat /\ FaultSets \subseteq SUBSET Faults

VARIABLES
  zip,         (* the file being unpacked                                   *)
  faults,      (* what may go wrong in this run                             *)
  off,         (* open_zip: how much of the end is searched                 *)
  fpos,        (* position of the FILE                                      *)
  diroff,      (* where the directory goes on                               *)
  header,      (* the entry in hand, as far as it is read                   *)
  extras,      (* its extra fields that are still to be read                *)
  extralen,
  files,       (* what extract_container has written                        *)
  pc           (* "search", "find", "next", "header", "extra", "entry",     *)
               (* "ok", "error", or "crash"                                 *)

vars == <<zip, faults, off, fpos, diroff, header, extras, extralen, files, pc>>

NoHeader == [kind |-> "none"]

Init ==
  /\ zip \in Archives /\ faults \in FaultSets
  /\ off = EndSize /\ fpos = 0 /\ diroff = 0
  /\ header = NoHeader /\ extras = << >> /\ extralen = 0
  /\ files = << >> /\ pc = "search"

-----------------------------------------------------------------------------
(* open_zip                                                                  *)

NotFound    == -1
InvalidFile == -2

(* p comes from find_central_dir, where it is counted from the start of the  *)
(* window.  Here it is taken from the end of the file.                       *)
find_central_dir_64(p) ==
  LET found == {l \in zip.locators : l.at = zip.size - p - LocatorSize}
  IN  IF found = {} THEN InvalidFile ELSE (CHOOSE l \in found : TRUE).dir

(* The end record nearest to the end whose comment reaches the end.          *)
find_central_dir(n) ==
  LET Index(e) == e.at - (zip.size - n)
      found == {e \in zip.ends :
                  /\ Index(e) \in 0..(n - EndSize)
                  /\ Index(e) + EndSize + e.comment = n}
      last == CHOOSE e \in found : \A d \in found : d.at <= e.at
  IN  IF n < EndSize THEN InvalidFile
      ELSE IF found = {} THEN NotFound
      ELSE IF last.dir = Big THEN find_central_dir_64(Index(last))
      ELSE last.dir

(* The window is no longer than the file.                                    *)
CapWindow ==
  /\ pc = "search"
  /\ off' = IF off > zip.size THEN zip.size ELSE off
  /\ pc' = "find"
  /\ UNCHANGED <<zip, faults, fpos, diroff, header, extras, extralen, files>>

Widen(n) == off' = n /\ pc' = "search" /\ UNCHANGED diroff
Give(to) == pc' = to /\ UNCHANGED <<off, diroff>>

(* Mutants: the longest window is not tried; the search does not give up.    *)
Wider_Near == IF off = EndSize THEN Near ELSE 0
Wider_Again == IF off = EndSize THEN Near ELSE Far

(* The next window to search, 0 if there is none.                            *)
Wider == CASE off = EndSize -> Near [] off = Near -> Far [] OTHER -> 0

(* main goes on with the NULL that open_zip returns for a file it refuses.   *)
open_zip ==
  /\ pc = "find"
  /\ LET d == find_central_dir(off)
     IN  \/ d >= 0 /\ diroff' = d /\ pc' = "next" /\ UNCHANGED off
         \/ (d = InvalidFile \/ "io" \in faults) /\ Give("crash")
         \/ d = NotFound /\ IF Wider # 0 THEN Widen(Wider) ELSE Give("crash")
  /\ UNCHANGED <<zip, faults, fpos, header, extras, extralen, files>>

-----------------------------------------------------------------------------
(* next_zip_file and read_zip_file_header                                    *)

(* Mutant: the FILE is taken to be where the directory was left.             *)
DirectoryPos_Left == IF files = << >> THEN diroff ELSE fpos

DirectoryPos == diroff

next_zip_file ==
  /\ pc = "next"
  /\ fpos' = DirectoryPos
  /\ pc' = "header"
  /\ UNCHANGED <<zip, faults, off, diroff, header, extras, extralen, files>>

(* No header here, or it cannot be read: the directory is taken to be at its *)
(* end.                                                                      *)
EndOfDirectory ==
  /\ pc = "header"
  /\ fpos \notin DOMAIN zip.entries \/ "io" \in faults
  /\ pc' = "ok"
  /\ UNCHANGED <<zip, faults, off, fpos, diroff, header, extras, extralen, files>>

read_zip_file_header ==
  /\ pc = "header"
  /\ fpos \in DOMAIN zip.entries
  /\ header' = zip.entries[fpos]
  /\ fpos' = fpos + HeaderSize + header'.name
  /\ extras' = header'.extras /\ extralen' = header'.extralen
  /\ pc' = IF header'.kind = "bad" THEN "error" ELSE "extra"
  /\ UNCHANGED <<zip, faults, off, diroff, files>>

(* The lengths that a zip64 field supplies, in their order, each if it is    *)
(* needed and the field has room for it.                                     *)
Needed(h, k) == IF h[k] = Big THEN <<k>> ELSE << >>

Long(h) == Needed(h, "uncompressed") \o Needed(h, "compressed") \o Needed(h, "local")

(* Mutant: zip64 fields are passed over.                                     *)
Extended_Never(h, x) == h

Extended(h, x) ==
  LET room == x.size \div WordSize
      got  == SubSeq(Long(h), 1, IF room < Len(Long(h)) THEN room ELSE Len(Long(h)))
  IN  [k \in DOMAIN h |->
         IF \E i \in DOMAIN got : got[i] = k
           THEN x.words[CHOOSE i \in DOMAIN got : got[i] = k] ELSE h[k]]

(* One turn of the loop over the extra fields.                               *)
ReadExtra ==
  /\ pc = "extra"
  /\ extralen >= ExtraSize
  /\ extras # << >>
  /\ LET x == Head(extras)
     IN  \/ /\ ExtraSize + x.size <= extralen
            /\ extralen' = extralen - (ExtraSize + x.size)
            /\ fpos' = fpos + ExtraSize + x.size
            /\ header' = IF x.zip64 THEN Extended(header, x) ELSE header
            /\ extras' = Tail(extras)
            /\ UNCHANGED <<diroff, pc>>
         \/ /\ ExtraSize + x.size > extralen
            /\ fpos' = fpos + ExtraSize + extralen
            /\ diroff' = fpos'
            /\ pc' = IF header.kind = "dir" THEN "next" ELSE "entry"
            /\ UNCHANGED <<header, extras, extralen>>
  /\ UNCHANGED <<zip, faults, off, files>>

(* Mutant: what is left of the extra field is not skipped.                   *)
Stray_Stays == 0

Stray == extralen

(* What is left of the extra field is skipped, a file comment is not.        *)
EndOfHeader ==
  /\ pc = "extra"
  /\ extralen < ExtraSize
  /\ fpos' = fpos + Stray
  /\ diroff' = fpos'
  /\ pc' = IF header.kind = "dir" THEN "next" ELSE "entry"
  /\ UNCHANGED <<zip, faults, off, header, extras, extralen, files>>

(* A seek or the read of a name or of an extra field fails.                  *)
HeaderFails ==
  /\ "io" \in faults
  /\ pc \in {"next", "header", "extra"}
  /\ pc' = "error"
  /\ UNCHANGED <<zip, faults, off, fpos, diroff, header, extras, extralen, files>>

-----------------------------------------------------------------------------
(* open_zip_file and extract_path                                            *)

(* No local header, a method that is not known, or an output file that       *)
(* cannot be created or written.                                             *)
EntryFails ==
  /\ pc = "entry"
  /\ \/ header.local \notin DOMAIN zip.locals
     \/ header.method = "other"
     \/ "io" \in faults
  /\ pc' = "error"
  /\ UNCHANGED <<zip, faults, off, fpos, diroff, header, extras, extralen, files>>

DataStart(local) == local + LocalSize + zip.locals[local]

(* The data is behind the local header's name and extra field.  The file     *)
(* stream reads ahead of it, and a read or inflate error looks like its end. *)
extract_path ==
  /\ pc = "entry"
  /\ header.local \in DOMAIN zip.locals /\ header.method # "other"
  /\ \E whole \in BOOLEAN :
       /\ ~whole => "data" \in faults
       /\ files' = Append(files, [path |-> header.path, from |-> DataStart(header.local),
                                  size |-> header.compressed, whole |-> whole])
  /\ fpos' \in DataStart(header.local)..zip.size
  /\ pc' = "next"
  /\ UNCHANGED <<zip, faults, off, diroff, header, extras, extralen>>

-----------------------------------------------------------------------------

Next ==
  \/ CapWindow \/ open_zip \/ next_zip_file \/ EndOfDirectory \/ read_zip_file_header
  \/ ReadExtra \/ EndOfHeader \/ HeaderFails \/ EntryFails \/ extract_path

Spec == Init /\ [][Next]_vars

(* A single thread that runs on.                                             *)
FairSpec == Spec /\ WF_vars(Next)

-----------------------------------------------------------------------------
(* Properties.  zip.content lists the files whoever wrote the archive put    *)
(* into it, in the order of the directory; zip.tidy says that the lengths of *)
(* its extra fields add up, and zip.valid that nothing is wrong with it.     *)

Ended == pc \in {"ok", "error", "crash"}

(* Every variable has its type.                                              *)
TypeOK ==
  /\ off \in 0..Far /\ fpos \in Nat /\ diroff \in Nat /\ extralen \in Nat
  /\ pc \in {"search", "find", "next", "header", "extra", "entry", "ok", "error", "crash"}
  /\ \A i \in DOMAIN files : files[i].size # Big

(* Whatever fails, the files written are the first ones of the archive, each *)
(* from its own data: reading data moves the position of the FILE that the   *)
(* directory is read from, and extra fields of any shape come between the    *)
(* headers.                                                                  *)
FilesAreEntries ==
  /\ Len(files) <= Len(zip.content)
  /\ \A i \in DOMAIN files :
       LET f == files[i] entry == zip.content[i]
       IN  f.path = entry.path /\ f.from = entry.from /\ f.size = entry.size

(* extract_container comes back with success only when every file of the     *)
(* archive was written: "read all the files" is what read_zip_file_header    *)
(* calls a position without a header.  That takes reads that do not fail and *)
(* extra fields whose lengths add up.                                        *)
SuccessIsComplete ==
  pc = "ok" /\ faults = {} /\ zip.tidy => Len(files) = Len(zip.content)

(* An archive without errors is unpacked: open_zip finds its directory, and  *)
(* does not call it an invalid file.                                         *)
ValidUnpacks == Ended /\ zip.valid /\ faults = {} => pc = "ok"

(* The search for the directory and the walk through it come to an end.      *)
Terminates == <>Ended
=============================================================================
