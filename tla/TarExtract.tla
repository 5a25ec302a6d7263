----------------------------- MODULE TarExtract -----------------------------
(***************************************************************************)
(* Unpacking a tar archive: extract_container and extract_file             *)
(* (tools/download/extract.c) over the tar container                       *)
(* (tools/stream/container-tar.c), whose files are limited streams         *)
(* (tools/stream/filter-limit.c) over one source that all of them share.   *)
(*                                                                         *)
(* The source is any stream that keeps the contract of module Stream and   *)
(* chooses how much it returns.  Bytes are their offsets in the archive.   *)
(***************************************************************************)
EXTENDS Naturals, Sequences

CONSTANTS
  Block,      (* TAR_BLOCK_SIZE                                             *)
  Archives,   (* the archives to unpack, each its entries in order          *)
  Dirs,       (* the directory that is unpacked to, and those below it      *)
  DataTypes,  (* typeflags a block that is not a header may seem to have    *)
  FaultSets   (* what may go wrong together: subsets of Faults              *)

Faults == {"cut", "read", "io"}

(* "link" is a hard or a symbolic link, "other" a typeflag the code does not *)
(* handle.  named: clean_tar_name and clean_tar_linkname accept the names.   *)
(* within: the directories that the name of the entry leads through.         *)
Types == {"reg", "link", "other"}
Entry == [type : Types, size : Nat, named : BOOLEAN, within : SUBSET Dirs]
ASSUME TarConstants ==
  /\ Block \in Nat \ {0}
  /\ Archives \subseteq Seq(Entry)
  /\ \A a \in Archives : \A k \in DOMAIN a : a[k].type = "link" => a[k].size = 0
  /\ FaultSets \subseteq SUBSET Faults
  /\ DataTypes \subseteq Types /\ DataTypes # {}

VARIABLES
  archive,    (* the archive being unpacked                                 *)
  win32,      (* WIN32 is defined, in the build that runs                   *)
  faults,     (* what may go wrong in this run                              *)
  total,      (* bytes the source has: FullLen unless the archive is cut    *)
  spos,       (* bytes consumed from the source                             *)
  slen,       (* length of the window it returned last                      *)
  failed,     (* the source has failed                                      *)
  padding, file_size, file_opened,   (* struct tar_container                *)
  skip, consume,                     (* locals of next_tar_file             *)
  header,     (* the header read last: its offset and what it says          *)
  left,       (* of the limited stream                                      *)
  len,        (* of extract_file                                            *)
  files,      (* what was created: sequence of [at, link, bytes]            *)
  dirs,       (* the directories that are there                             *)
  ioerr,      (* malloc, fopen or a write to a disk has failed, or symlink  *)
              (* other than for want of a directory                         *)
  pc

source == <<archive, win32, faults, total, spos, slen, failed>>
tar    == <<padding, file_size, file_opened>>
out    == <<left, len, files, dirs, ioerr>>
vars   == <<source, tar, skip, consume, header, out, pc>>

Entries == DOMAIN archive

(* Blocks of an entry: its header, and its payload rounded up.               *)
Blocks(e) == 1 + (e.size + Block - 1) \div Block

(* Where the headers of an archive are, and the end marker behind its last   *)
(* entry.                                                                    *)
Offsets(a) ==
  LET off[j \in 1..(Len(a) + 1)] ==
        IF j = 1 THEN 0 ELSE off[j - 1] + Block * Blocks(a[j - 1])
  IN  off

HeaderOff(k) == Offsets(archive)[k]

EndMarker == HeaderOff(Len(archive) + 1)
FullLen == EndMarker + 2 * Block

(* The bytes of entry k.                                                     *)
Data(k) == [i \in 1..archive[k].size |-> HeaderOff(k) + Block + i - 1]

NoHeader ==
  [at |-> 0, entry |-> [type |-> "other", size |-> 0, named |-> FALSE, within |-> {}]]

(* open_tar: calloc, so that the first next_file skips nothing.  download.c  *)
(* has deleted the directory that it unpacks to.                             *)
Init ==
  /\ archive \in Archives /\ win32 \in BOOLEAN /\ faults \in FaultSets
  /\ total \in IF "cut" \in faults THEN 0..FullLen ELSE {FullLen}
  /\ spos = 0 /\ slen = 0 /\ failed = FALSE
  /\ padding = 0 /\ file_size = 0 /\ file_opened = FALSE
  /\ skip = 0 /\ consume = 0 /\ header = NoHeader
  /\ left = 0 /\ len = 0 /\ files = << >> /\ dirs = {} /\ ioerr = FALSE
  /\ pc = "next"

AtMost(a, b) == IF a < b THEN a ELSE b

(* s->read(s, c, need, &slen) on the source, which may fail and may still    *)
(* hand out bytes after it has failed.                                       *)
Read(c, need) ==
  /\ spos' = spos + c
  /\ \/ /\ slen' \in 0..(total - spos')
        /\ slen' >= need \/ slen' = total - spos' \/ failed
        /\ UNCHANGED failed
     \/ /\ "read" \in faults
        /\ slen' = 0
        /\ failed' = TRUE
  /\ UNCHANGED <<archive, win32, faults, total>>

-----------------------------------------------------------------------------
(* next_tar_file                                                             *)

(* Mutant: the padding behind the last file is not skipped.                  *)
Unread_NoPadding == IF file_opened THEN 0 ELSE file_size

(* What the last file left behind in the source.                             *)
Unread == padding + (IF file_opened THEN 0 ELSE file_size)

next_tar_file ==
  /\ pc = "next"
  /\ skip' = Unread
  /\ padding' = 0
  /\ consume' = 0
  /\ pc' = "skip"
  /\ UNCHANGED <<source, file_size, file_opened, header, out>>

(* Mutants: all is skipped at once, whatever the source returned; no bytes   *)
(* are not taken for an early close.                                         *)
Skippable_All == skip
AfterSkip_GoesOn == "skip"

Skippable == AtMost(slen', skip)
AfterSkip == IF slen' = 0 THEN "err" ELSE "skip"

(* One turn of the loop over what is left of the last file.                  *)
Skip ==
  /\ pc = "skip" /\ skip > 0
  /\ Read(consume, 1)
  /\ consume' = Skippable
  /\ skip' = skip - consume'
  /\ pc' = AfterSkip
  /\ UNCHANGED <<tar, header, out>>

(* What the block at an offset may say when it is read as a header.  The     *)
(* end marker is zeros, a typeflag the code does not handle.                 *)
HeadersAt(off) ==
  IF \E k \in Entries : HeaderOff(k) = off
    THEN {archive[k] : k \in {j \in Entries : HeaderOff(j) = off}}
    ELSE {[type |-> t, size |-> n, named |-> TRUE, within |-> d] :
            t \in IF off >= EndMarker THEN {"other"} ELSE DataTypes,
            n \in {0, 1}, d \in {{}, Dirs}}

(* One turn of the loop over headers: a block of another type is stepped     *)
(* over alone, its payload block by block in later turns.                    *)
ReadHeader ==
  /\ pc = "skip" /\ skip = 0
  /\ Read(consume, Block)
  /\ \/ slen' = 0 /\ pc' = "ok" /\ UNCHANGED <<consume, header>>
     \/ slen' \in 1..(Block - 1) /\ pc' = "err" /\ UNCHANGED <<consume, header>>
     \/ /\ slen' >= Block
        /\ \E e \in HeadersAt(spos') :
             IF e.type = "other"
               THEN consume' = Block /\ pc' = "skip" /\ UNCHANGED header
               ELSE /\ header' = [at |-> spos', entry |-> e]
                    /\ pc' = e.type /\ UNCHANGED consume
  /\ UNCHANGED <<tar, skip, out>>

(* Mutant: the names of a link are not checked.                              *)
LinkNamed_Always == TRUE

LinkNamed == header.entry.named

(* LNKTYPE, SYMTYPE, with the read that consumes the header.                 *)
read_tar_link_header ==
  /\ pc = "link"
  /\ Read(Block, 0)
  /\ consume' = slen'
  /\ \/ /\ LinkNamed
        /\ file_opened' = TRUE /\ padding' = 0 /\ file_size' = 0
        /\ pc' = "symlink"
     \/ ~LinkNamed /\ pc' = "err" /\ UNCHANGED tar
  /\ UNCHANGED <<skip, header, out>>

(* tar files are padded out to the block size                                *)
Padding(n) == (Block - (n % Block)) % Block

(* REGTYPE, with the read that consumes the header.                          *)
read_tar_file_header ==
  /\ pc = "reg"
  /\ Read(Block, 0)
  /\ consume' = slen'
  /\ \/ /\ header.entry.named
        /\ file_opened' = FALSE
        /\ file_size' = header.entry.size
        /\ padding' = Padding(file_size')
        /\ pc' = "open"
     \/ ~header.entry.named /\ pc' = "err" /\ UNCHANGED tar
  /\ UNCHANGED <<skip, header, out>>

-----------------------------------------------------------------------------
(* extract_container's work on one file                                      *)

Create(link) ==
  files' = Append(files, [at |-> header.at, link |-> link, bytes |-> << >>])

(* A link needs its directory, which an earlier file has made or not: there  *)
(* is no make_directory here.  With WIN32 no link is created, and that is no *)
(* error.                                                                    *)
symlink ==
  /\ pc = "symlink"
  /\ \/ ~win32 /\ header.entry.within \subseteq dirs /\ Create(TRUE) /\ pc' = "next"
     \/ ~win32 /\ ~(header.entry.within \subseteq dirs) /\ pc' = "err" /\ UNCHANGED files
     \/ win32 /\ pc' = "next" /\ UNCHANGED files
  /\ UNCHANGED <<source, tar, skip, consume, header, left, len, dirs, ioerr>>

(* make_directory, over the path of the file in hand.                        *)
make_directory == dirs' = dirs \cup header.entry.within

(* open_tar_file, open_limited and open_path.                                *)
open_tar_file ==
  /\ pc = "open" /\ ~file_opened
  /\ file_opened' = TRUE
  /\ left' = file_size /\ len' = 0
  /\ make_directory
  /\ Create(FALSE)
  /\ pc' = "copy"
  /\ UNCHANGED <<source, padding, file_size, skip, consume, header, ioerr>>

(* malloc fails, or symlink; or fopen, when make_directory is done.          *)
CreateFails ==
  /\ "io" \in faults
  /\ \/ pc = "symlink" /\ ~win32 /\ UNCHANGED dirs
     \/ pc = "open" /\ (UNCHANGED dirs \/ make_directory)
  /\ ioerr' = TRUE
  /\ pc' = "err"
  /\ UNCHANGED <<source, tar, skip, consume, header, left, len, files>>

(* Mutant: the window is not taken down to what is left.                     *)
Limited_Not == slen'

Limited == AtMost(slen', left')

(* read_limit(consume, need): the limiter takes need and the window it       *)
(* returns down to what is left of the file.                                 *)
read_limit(c, need) ==
  /\ left' = left - c
  /\ Read(c, AtMost(need, left'))
  /\ len' = Limited

Held == files[Len(files)].bytes

(* The file has the first n of the bytes written to it and of the window.    *)
Write(n) ==
  files' = [files EXCEPT ![Len(files)].bytes =
              SubSeq(@ \o [i \in 1..len' |-> spos' + i - 1], 1, n)]

(* One turn of extract_file's loop.  No bytes end the file, be it their end  *)
(* or an error.  Bytes are buffered, and lost when the disk does not take    *)
(* them: fwrite tells, but the fclose of extract_path is not looked at.      *)
extract_file ==
  /\ pc = "copy"
  /\ read_limit(len, 1)
  /\ \/ /\ Write(Len(Held) + len')
        /\ pc' = IF len' = 0 THEN "next" ELSE "copy"
        /\ UNCHANGED ioerr
     \/ /\ "io" \in faults
        /\ \E n \in 0..(Len(Held) + len') : n < Len(Held) + len' /\ Write(n)
        /\ ioerr' = TRUE
        /\ pc' = IF len' = 0 THEN "next" ELSE "err"
  /\ UNCHANGED <<tar, skip, consume, header, dirs>>

Next ==
  \/ next_tar_file \/ Skip \/ ReadHeader
  \/ read_tar_link_header \/ read_tar_file_header
  \/ symlink \/ open_tar_file \/ CreateFails \/ extract_file

Spec == Init /\ [][Next]_vars

(* The program runs on, and a read of the source returns.                    *)
FairSpec == Spec /\ WF_vars(Next)

-----------------------------------------------------------------------------
(* Every variable of the container, the limiter and the loops has its type.  *)
TypeOK ==
  /\ total \in 0..FullLen /\ spos \in 0..total /\ slen \in 0..(total - spos)
  /\ failed \in BOOLEAN /\ ioerr \in BOOLEAN
  /\ padding \in 0..(Block - 1) /\ file_size \in Nat /\ file_opened \in BOOLEAN
  /\ skip \in Nat /\ consume \in Nat /\ left \in Nat /\ len \in Nat
  /\ header.at \in Nat /\ header.entry \in Entry
  /\ win32 \in BOOLEAN /\ dirs \subseteq Dirs
  /\ \A i \in DOMAIN files : /\ files[i].at \in Nat
                             /\ files[i].link \in BOOLEAN
                             /\ files[i].bytes \in Seq(Nat)
  /\ pc \in {"next", "skip", "link", "reg", "symlink", "open", "copy", "ok", "err"}

(* The tar container, the limiters and extract_file share one source: none   *)
(* of them ever consumes more than the source returned last, and no limited  *)
(* stream hands out more than is left of its file.                           *)
ConsumesWhatItSaw ==
  /\ pc = "skip" => consume <= slen
  /\ pc \in {"link", "reg"} => Block <= slen
  /\ pc = "copy" => len <= slen /\ len <= left

(* What an entry of a type that next_tar_file does not know holds is not     *)
(* taken for a header that it knows: there are no such payloads, or no block *)
(* of data looks like one.  Such an entry is stepped over by its header      *)
(* alone, and its payload is read as headers.                                *)
Quiet ==
  \/ \A a \in Archives : \A k \in DOMAIN a : a[k].type = "other" => a[k].size = 0
  \/ DataTypes = {"other"}

(* However the archive is cut and whatever write fails, what                 *)
(* extract_container creates is an entry of the archive, and a file holds    *)
(* only bytes of its own entry, from the first on and in order: no file's    *)
(* contents are taken for a header.  This ends with a failure of the source, *)
(* which extract_file takes for the end of a file: after it a source that    *)
(* still hands out bytes is read out of step.                                *)
BytesBelong ==
  ~failed => \A i \in DOMAIN files :
    \E k \in Entries :
      /\ files[i].at = HeaderOff(k)
      /\ files[i].link = (archive[k].type = "link")
      /\ Len(files[i].bytes) <= archive[k].size
      /\ files[i].bytes = SubSeq(Data(k), 1, Len(files[i].bytes))

(* What unpacking should leave of entry k.                                   *)
Image(k) == [at |-> HeaderOff(k), link |-> archive[k].type = "link",
             bytes |-> Data(k)]

(* Unpacking leaves files, and links unless WIN32 is defined.               *)
Left(k) == archive[k].type = "reg" \/ (archive[k].type = "link" /\ ~win32)

(* The directories that the files in front of entry k lie in.                *)
Earlier(k) ==
  UNION {archive[j].within : j \in {i \in Entries : i < k /\ archive[i].type = "reg"}}

(* A link that is to be created finds its directories there.                 *)
Linkable(k) ==
  archive[k].type = "link" /\ ~win32 => archive[k].within \subseteq Earlier(k)

(* An archive that is all there, with names that are accepted, is unpacked,  *)
(* however the source cuts its windows.  What extract_container creates are  *)
(* whole files and links, in order and nothing else.  It reports success     *)
(* exactly when every link, where links are created, is in directories of    *)
(* files in front of it, and then no file and no such link is missing.       *)
WholeArchiveUnpacks ==
  (/\ total = FullLen /\ ~failed /\ ~ioerr /\ pc \in {"ok", "err"}
   /\ \A k \in Entries : archive[k].named) =>
     /\ pc = "ok" <=> \A k \in Entries : Linkable(k)
     /\ \A i \in DOMAIN files : \E k \in Entries : Left(k) /\ files[i] = Image(k)
     /\ pc = "ok" => \A k \in Entries : Left(k) => \E i \in DOMAIN files : files[i] = Image(k)
     /\ \A i, j \in DOMAIN files : i < j => files[i].at < files[j].at

(* A refused name ends the unpacking with an error: nothing behind it is     *)
(* created and extract_container does not report success                     *)
(* (read_tar_file_header and read_tar_link_header return -1), as long as the *)
(* source has not failed and is read in step.  The name of an entry whose    *)
(* type is not handled is never looked at.                                   *)
RefusedNameStops ==
  ~failed => \A k \in Entries : archive[k].type # "other" /\ ~archive[k].named =>
    /\ \A i \in DOMAIN files : files[i].at < HeaderOff(k)
    /\ pc = "ok" => spos <= HeaderOff(k)

(* extract_container returns, whatever the source does.                      *)
Terminates == <>(pc \in {"ok", "err"})

(* A stream that closes early is an error: when extract_container reports    *)
(* success every file it created is whole.                                   *)
EarlyCloseIsError ==
  pc = "ok" => \A i \in DOMAIN files : \E k \in Entries : files[i] = Image(k)
=============================================================================
