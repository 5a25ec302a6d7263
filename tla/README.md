# Specifications of the clang-toolchain tools

TLA+ models of the programs this repository adds to the sources it bundles:
the downloader that fetches and unpacks toolchains before a build, the stream
library below it, the project generator and the script that builds the
libraries; and of the condition variable of the bundled musl, the one piece of
those sources whose correctness rests on how threads interleave. Each module is
translated from the code; TLC checks the runs listed in `PROJECT.json` on small
instances, and TLAPS checks the proofs, which hold for all values of the
constants.

## The system

| part | source | state | what makes it hard |
| --- | --- | --- | --- |
| downloader | `tools/download/download.c` | `download.manifest`, `download.done`, `download.hash`, `download.tmp`, `download.map`, installed paths | many processes in one directory; a kill between any two file operations; servers that change or break off |
| unpacking | `tools/download/extract.c` | files written | read errors that look like the end of the data |
| stream contract | `tools/stream/stream.h` | window last returned | `consume`/`need` of one call refer to the call before |
| file source | `source-file.c` | buffer, position | memmove and growth while bytes are held |
| http source | `source-http.c` | socket, buffer, remaining length | redirects on a reused connection, peers that close, bodies that arrive with the headers |
| tar container | `container-tar.c` | padding, skip, opened | several streams share one source; cut archives |
| zip container | `container-zip.c` | `FILE` position, directory offset | the search for the directory; one `FILE` shared by directory and data |
| filters | `filter-limit.c`, `filter-hash.c`, `filter-deflate.c`, `filter-decode-xz.c` | buffers, decoder state | who closes what; errors that are dropped |
| memory source, paths | `source-buffer.c`, `path.c` | none that lasts | which names are refused |
| project generator | `tools/generate-vcxproj/generate.c` | output files | relative paths, replacement of `*`, files left half written |
| libc build script | `build-libc.sh` | sources moved to `disabled/` and back | a run that is interrupted |
| condition variable | `musl-1.1.16/src/thread/pthread_cond_*.c`, `pthread_mutex_*.c` | futex words, list of waiters | lost wakeups, nodes on stacks of threads that have returned |
| other bundled sources | rest of `musl-1.1.16`, `libcxx-4.0.1.src`, `libcxxabi-4.0.1.src`, `libunwind-4.0.1.src`, `compiler-rt-4.0.1.src` | | third party, not modelled |
| submodules | BearSSL, xz-embedded, tomlc99, zlib | | not in the tree, external |

How they meet: `main` of the downloader opens an http stream, wraps it in the
hash filter, and lets `extract_file` copy it to `download.tmp`. It then opens a
file stream on `download.tmp`, wraps it in the xz decoder if the url's ending
says so, puts the tar or zip container on top, and `extract_container` drives
that: `next_file`, `open_file` (a limited stream on the container's own source)
and `extract_file` until the limited stream is empty. In the Windows build
`main` runs ninja at the end, still under the lock on the manifest.

What makes each part correct:

* downloader: a manifest line that is skipped is installed; ninja sees all of
  the manifest; what is installed is what `download.hash` has; every run ends.
* streams: a window holds exactly the bytes behind what was consumed, at least
  `need` of them unless the data ends; every read returns.
* containers: a file gets its own bytes and no others, a whole archive is
  unpacked whole, a damaged one is an error, and nothing is unpacked outside of
  the directory.
* generator and script: whatever a run that was killed leaves, a solution names
  projects that are there, and libraries are built from the right sources.
* condition variable: one owner of the mutex at a time, and no lost wakeup.

## Modules

| module | models | kind |
| --- | --- | --- |
| `Downloader` | `download.c` | state machine |
| `MapFile` | `test_map`, `update_map` of `download.c` on text | operators, with a function as reference |
| `Stream` | the contract of `struct stream` | abstract specification |
| `FileStream` | `source-file.c` | state machine, implements `Stream` |
| `DecodeStream` | `filter-decode-xz.c`, `filter-deflate.c` | state machine, implements `Stream` |
| `HttpDownload` | `source-http.c` | state machine, implements `Stream` on the body |
| `HashedDownload` | `filter-hash.c`, `extract_file`, on `HttpDownload` | composition |
| `TarExtract` | `container-tar.c`, `filter-limit.c`, `extract.c` | composition |
| `Paths` | `path.c`, the names of `container-tar.c` | operators, with a walk through a tree as reference |
| `ZipExtract` | `container-zip.c`, `extract.c` | composition |
| `ZipLayout` | what the proofs take a zip file to be | operators |
| `Generate` | `generate.c` | state machine |
| `BuildLibc` | `build-libc.sh` | state machine |
| `CondThreads`, `CondVar` | condition variable and mutex of musl | state machine |
| `CondMonitor` | `CondVar` seen as `Monitor` | refinement mapping |
| `CondNodes`, `CondVarInv` | the lists of waiters seen apart from the steps; the invariants of `CondVar` | operators for the proofs |
| `Monitor` | what a mutex and a condition variable promise | abstract specification |
| `DownloaderProofs`, `FileReadProofs`, `DecodeStreamProofs`, `HashedDownloadProofs`, `TarExtractProofs`, `BuildToolProofs`, `CondVarProofs`, `CondVarWakeups` | | proofs; `FileReadProofs` is about `FileStream` and `ZipExtract`, `BuildToolProofs` about `Generate` and `BuildLibc` |
| `MC...` | | instances for TLC |

Operators whose name has a suffix after an underscore and whose comment begins
with "Mutant" are wrong versions of the definition below them. They are used by
no specification. Each run's property is known to notice one of them.

### Downloader

A process is a program counter, the manifest lines it has still to handle, the
manifest as it read it, the content in its hands and the lines `update_map` has
copied. The files are shared variables. One action is one file operation, or a
stretch of code during which no other process can see a difference and a kill
makes none:

* `open_manifest` is `open`, `flock` and the read of the file; `Exit` is any
  `return` of `main` or `exit()`, after which the system drops the lock.
* `SkipLine`, `InvalidLine`, `delete_path_begin`/`_end` are the head of the
  loop. Deleting takes two steps, since a kill in the middle leaves part of the
  tree. It returns nothing, so with the fault `"delete"` anything may stay.
* `OpenHttp`, `ReceiveBody` fill `download.tmp`. With the fault `"net"` the
  body may stop early, which `extract_file` takes for its end. `WriteFails` is a
  write that `fwrite` tells of.
* `HashMatch`, `HashMismatch`, `HashNoval` are the switch over
  `test_map("download.hash", ...)`. Nothing looks at the `fflush` and `fclose` of
  `download.tmp` behind it, so with the fault `"tmp"` what is opened for unpacking
  is short of its tail, whatever the hash was (`Reopened`).
* `update_map` is three steps: copy, unlink, rename. A kill after the unlink
  leaves no map file. The `fclose` of `download.map` is not looked at either:
  with the fault `"map"` the renamed file is any beginning of the lines, and the
  last line may be cut (`Written`). A value that is cut is `Cut`, which no url
  and no digest equals. A line that is cut before its value is the end of the next
  process that reads it, since `trim` is given `NULL` (`CutLineCrash`).
* `ExtractBegin`, `ExtractEnd`, `ExtractFails` stand for unpacking, which
  `TarExtract` models in detail.
* `Hang` is a call that does not return: `get_line` on a connection that broke
  in the headers, a read from a server that is silent, `open_zip` on a file like
  `NearArchive`, ninja. The process keeps the lock until it is killed.
* `Kill` ends a process that holds the lock.

Map files are functions, sha256 digests are the contents they are digests of,
and a path holds a set of tokens saying which content was unpacked there and
whether all of it. Not in this model: paths inside other paths, a path listed
twice (`PathsDistinct`).

That `download.done` may be taken for a function is the subject of `MapFile`:
`fgets` into a buffer of limited size, `strtok` at commas, `trim`, and the text
that `update_map` writes. `TextIsMap` says, at every state of the downloader,
that each file that stands for the function is read back by `test_map` as the
function says, and turned by `update_map` into one that stands for the changed
function. The names are chosen so that the longest line just fits in `LineSize`
and one key begins like another.

### Stream and FileStream

`Stream` has a call step and a return step. Bytes are their offsets, so a byte
that is lost, repeated or misplaced shows in the window. `FileStream` keeps
`buf`, `bufsz`, `avail` and `consumed` of the code; `buf` holds offsets, or
`Garbage` where nothing has been read. `S == INSTANCE Stream` maps `pos` to
`offset - avail + consumed`. A failed stream may still hand out bytes it had:
`read_file` does so when it is called again after `err`.

### DecodeStream

`read_xz` and `read_zlib` differ in when they take more from the source and in
what they take for an error; `kind` says which one runs. Decoded bytes are
their offsets. How the data is encoded is a function `yields` from the length
of a prefix of the encoded bytes to how much it decodes to, and a behaviour
begins with any of them: `Yields` only says that all of the encoded bytes
decode to all of the data. The library decoder (external) decodes any amount
that its input and the room in the buffer allow, and `Held` bounds what it may
owe (`Owed`) when it has taken all its input. A decoder that finds the data
corrupt may have decoded something before that, which stays in the buffer
(`DecodeFails`). When the source has no more, `read_zlib` tells `inflate` to
finish (`Finish`); if that neither fails nor makes anything, the loop is left
with what there is. The source hands out any window that the contract allows,
and may be cut, fail, or hold data the decoder refuses. `dropped` counts the
bytes the buffer no longer holds, for the mapping to `Stream`. A `Call` of
`read_zlib` consumes all that was inflated, as its one caller `extract_file`
does: with bytes left in a full buffer, `inflate` told to finish would fail.

### TarExtract

The source is nondeterministic within the contract, so the model covers any
filter below the container. `read_limit` runs inside `extract_file`. Offsets in
the archive stand for bytes. `DataTypes` says which typeflags a block of data
may seem to have when it is read as a header.

`extract_container` makes the directories of a file (`make_directory`), not those
of a link: `symlink` fails unless a file before it has made them. `within` is the
set of directories that the path of an entry goes through, `dirs` the ones that
are there. With `win32` links are passed over. `fclose` of an unpacked file is not
looked at, so the fault `"io"` may cut a file without an error. The names of an
archive are taken to be different, and none to lead through a link that the
archive itself has made.

Whether a name is accepted is a bit of the entry here. Which names are accepted
is `Paths`: `valid_path`, `clean_path` and the names of tar headers on
characters, checked against a reference that walks a name's components through
a directory tree with links. `LandsInside` says that no accepted name leads out
of the directory, also through two links made before it. It does not depend on
the state of the unpacking and is checked with it.

### HttpDownload

A byte is a kind and a value; a header line is a byte for its text and one for
its newline, so lines arrive in pieces. `wire` is what the server has written
and the client not yet received. `task` says whether the status line, the other
header lines or the body is read, `pc` where:

* `GiveUp`, `Reuse`, `Connect`, `Send`, `SendFails` are a turn of the loop in
  `open_http_downloader`. `Send` keeps the order in which bytes of the request
  go out, since the loop does not advance its pointer after a short `send`.
* `LineWaits`, `LineGoesOn`, `StatusLine`, `Field`, `EndOfFields` are `get_line`
  and what is done with each line. A line that is not a status line where one
  is expected may parse as any code.
* `Call`, `Service`, `Fetch`, `Recv`, `RecvFails` are `read_https`. `need` is
  limited by `length_remaining` with the wrap-around of `size_t` (`Width`).
* `Answer` and `HangUp` are the server. `Web` gives the responses of a url.

`pos` and `failed` are history variables for the mapping to `Stream`, which
shows the body of a response that is as long as it says (`Honest`). TLS carries
the same bytes and is not modelled.

After an error `length_remaining` is 0, and consuming what is left in the buffer
takes it below zero. The limit on `need` then wraps around to a huge number;
`consumed + need` wraps back to 0, and the read is served from the buffer. That
is why `ReadReturns` holds there.

`HashedDownload` puts `read_hash` and `extract_file` on top. `read_hash` adds to
the digest what the caller consumed, through the pointer that the stream below
returned with the last read, so `hashed` grows by what is in the buffer of
`HttpDownload` at that place when the next read is called. With `copy = "other"`
the stream has a caller that consumes and asks in any way, for `ImplementsStream`.

### ZipExtract

An archive is given by what can be read at each position; `MCZipExtract` lays
archives out from lists of entries. `CapWindow` and `open_zip` are the search
for the end record, `next_zip_file` to `EndOfHeader` the walk through the
directory, with one `ReadExtra` per extra field, and `extract_path` the data.
Reading data leaves the `FILE` anywhere behind the start of the data, because
the file stream reads ahead. `ZipLayout` says when what can be read is a zip file
as the format has it, possibly with a refused entry or extra fields that do not
fit (`WellMade`); `MCZipExtract` assumes it of all archives of `zip_unpack`, so TLC
evaluates it there. `"crash"` is the end of a process that uses the
`NULL` of `open_zip`; in `Downloader` that is a `Kill`.

### Generate

`main` writes, in this order, the projects for its commands, the projects of
`projects.toml` and the solution (`Jobs`); `Open` truncates a file and `Write`
fills it, or leaves it torn when the disk is full, which nothing notices. A run may be
killed anywhere, and `EditToml` changes `projects.toml` between and during runs.
`print_relative_path` and `print_files` work on paths as sequences of what their
separators separate. `Follow`, the reference, says where a path leads.

### BuildLibc

One action is one command of the script, for `armv5` and `armv7`. A command
with `|| exit 1` may fail (`Fails`). `mkdir`, `mv` and `cp` have none: with
`MovesFail` a `mv` carries only some of its files and the script goes on
(`Carried`). The headers that `cp` copies are left out. The tar ball is removed
and then written under its final name (`RemoveTar`, `Pack`), so a `tar` that
fails or is killed leaves a torn one there (`TarCutShort`), and nothing tells
it from a whole one but how the run ended. `disabled` is the set of sources
that are in a `disabled/` directory, `step` the command that is next;
`KillBuild` may come in the middle of a `mv`. The `mv` in front of the loops
(line 86) has its pattern in quotes and moves nothing; `Repairs` shows that a
run that comes to its end repairs the trees all the same. The tests with `==`
(lines 42 and 64) are taken to work, which they do in shells that know it.

### CondVar and Monitor

Threads run scripts of `lock`, `unlock`, `wait`, `timedwait`, `signal` and
`broadcast`. A step is one access to shared memory or one futex call, except
that the sections under `_c_lock` are one step each. `asleep` says on which
futex a thread sleeps; `Timeout` may wake a `timedwait` at any time. `Monitor`
has the mutex as an owner and the waiters as a queue; a call takes effect at
once. In the mapping (`CondMonitor`), the queue is the linked list without those who are about
to leave it, and a call has had its effect (`Effective`) when only wakeups are
left to do. `NoLostWakeup` is about states in which no thread can go on and none
that is done has kept the mutex: a script may end with the mutex held, and then
others may well sleep on it.

## Runs

| run | result | states | shows |
| --- | --- | --- | --- |
| `downloader_safety` | pass | 149,000 | `SkippedIsInstalled`, `NinjaSeesAll`, `TextIsMap`, `EveryRunEnds`: two processes, a kill, calls that hang, broken connections, failed renames, torn map files, invalid lines and unknown schemes, all urls pinned |
| `downloader_pins` | pass | 34,941 | `InstalledMatchesPin`: nothing pinned, a url shared by two paths changes what it serves, bodies break off, `download.tmp` loses its tail, deletes fail |
| `filestream` | pass | 1,353 | `ImplementsStream`, `ReadReturns` |
| `decode_stream` | pass | 94,269 | `ImplementsStream`, `IntactNeverFails`, `ReadReturns`: both decoders, all encodings of 4 bytes in 3, sources that are cut or fail, corrupt data, failed allocations |
| `tar_unpack` | pass | 897,275 | `ConsumesWhatItSaw`, `BytesBelong`, `WholeArchiveUnpacks`, `RefusedNameStops`, `LandsInside`, `Terminates`: cut archives, links with and without their directories, posix and WIN32, write errors, a source that fails and goes on, file data that may look like headers, refused names |
| `http_stream` | pass | 30,608 | `TypeOK`, `InStep`, `HashIsOfFile`, `EndIsWhole`, `RedirectsEnd`, `ImplementsStream`, `ReadReturns`: redirect loops, other sites, refused codes, wrong lengths, overlong lines, short sends; hang-ups and failed allocations anywhere |
| `http_header_hangup` | violation | | `OpenReturns`: the peer closes during the headers, and `get_line` never ends |
| `zip_unpack` | pass | 2,801 | `TypeOK`, `FilesAreEntries`, `SuccessIsComplete`, `ValidUnpacks`, `Terminates`: archives of all the usual shapes, damaged ones, and read, write and inflate errors |
| `zip_file_comment` | violation | | `SuccessIsComplete`: a comment on an entry hides the entries behind it |
| `generate` | pass | 83,622 | `SolutionResolves`, `RunIsComplete`, `ItemsResolve`: runs that are killed, refused a file or out of disk space, `projects.toml` edited |
| `build_libc` | pass | 14,114 | `RightSources`, `Repairs`, `PacksWhole`: runs for either target that fail or are killed anywhere, also in `tar`, where moves do what they are told |
| `condvar` | pass | 176,240 | `TypeOK`, `MutualExclusion`, `NoLostWakeup`, `NoDangling`, `ImplementsMonitor`, `SignaledReturns`: two waiters with timeouts, signals and broadcasts with and without the mutex |

In `TarExtract`, `HttpDownload`, `ZipExtract`, `DecodeStream` and `Generate` a behaviour begins by choosing
the input and the set of faults that may happen in it (`FaultSets`), so that one
run has behaviours with and without faults and a property can be about one kind.

Where the passing runs stop. Some inputs are left out of the passing runs
because the code does not do there what the property says. Four of them have a
cfg of their own, to be run by hand (`tlc -config X.cfg M`), in which TLC finds
the property violated:

* `downloader_edit.cfg` with `MCDownloader`: a line is edited, its download
  fails, and it is changed back; `download.done` still matches, but the path is
  gone (`download.c:294`).
* `downloader_pin_lost.cfg` with `MCDownloader`: a kill between `unlink` and
  `rename` of `download.hash` loses all pins (`download.c:85`).
* `tar_early_close.cfg` with `MCTarExtract`: an archive that is cut inside a file
  which needs no padding is unpacked with success (`container-tar.c:141`).
* `http_reuse.cfg` with `MCHttpDownload`: the body of a redirect on a connection
  that is kept is read as the next status line (`source-http.c:242`).

The others are defined in the MC module and can be put in place of the archives
of the run:

* `Extended` of `MCTarExtract`, with `tar_unpack`: the payload of an extended
  header is read as headers, and `BytesBelong` is false (`container-tar.c:163`).
  The assumption `MCQuiet`, that there is no such payload, has to be taken out.
* `Zip64` of `MCZipExtract`, with `zip_unpack` (it is not `WellMade`): the zip64 locator is looked for
  at a distance from the end that is a position in the window, and
  `ValidUnpacks` is false (`container-zip.c:86`).
* `NearArchive` of `MCZipExtract`, with `zip_unpack`: the search in a file
  without an end record that is exactly as long as one of the windows does not
  end, and `Terminates` is false (`container-zip.c:274`).

Some faults are left out of a run for the same reason. `SkippedIsInstalled` is
false with the fault `"tmp"`, so `downloader_safety` is without it, and
`InstalledMatchesPin` with kills, `"rename"` or `"map"`, which lose pins, so
`downloader_pins` is without those. `InstalledMatchesPin` is about versions: a
path may hold less than all of the version that its url is pinned to, never
another one. `RightSources` and `Repairs` need that moves work
(`MovesFail = FALSE`); `PacksWhole` does not, and is proved without it.

Once a source has failed, `BytesBelong` and `RefusedNameStops` say nothing:
`extract_file` takes the failure for the end of a file, and a source that still
hands out bytes, as `read_file` and `read_https` do, is read out of step.

Bounds. Two processes are the least that contend for the lock; `MaxRuns` and
`MaxKills` bound launches and kills, and every further launch starts from files
that a bounded one can leave. Two paths, one http and one file url meet both
branches of `main`; three paths are needed where a url's two paths have another
between them. `LineSize` is 8, so that the longest line of the map files just
fits. The file has 5 bytes and the buffer grows by 2, so that a read grows it
more than once and `need` may be more than the file. The decoders make 4 bytes
out of 3, in windows of any size, into a buffer that grows by 2, and `inflate`
may owe up to 2, the whole room of a turn. Tar blocks have 3 bytes so that
padding takes more than one read; a cut and a failing source are not combined,
since a source may fail at any byte. Names have up to 3 characters of one letter,
`/`, `.`, `:` and `\`, a prefix as many, which is enough for `..` with a slash on
either side; one link more than two can only be one more step of the same walk.
The http buffer grows by 2 bytes, so that headers end at every place in it;
`MaxRedirects` is the code's 5. The windows of the zip search keep the order of
the code's 22, 1024 and 65K, and there is an archive for each of them. The
generator runs three times over three contents of `projects.toml`, so that a run
that was killed and one that was given other projects meet the files of an
earlier one; the script runs four times, so that runs for both targets follow a
killed run of each. Three threads are the least with which a signal, a waiter
that times out and the one behind it meet. Runs that say `CHECK_DEADLOCK FALSE`
model programs that end, or launches that are used up.

Fairness. `Downloader!FairSpec` has weak fairness of the steps of a process that
does not hang, and strong fairness of getting the lock, as `flock` wakes its
waiters. The code does not guarantee that a call returns: it sets no timeout, so a
silent server and a ninja that does not end hold the lock for ever;
`get_line` repeats a failed read without end (`http_header_hangup`), and so does
the search of `open_zip` (`NearArchive`). All of these are `Hang`, which has no
fairness and from which only `Kill` leads on, with no fairness either.
`EveryRunEnds` therefore has a premise: it speaks of behaviours in which whoever
hangs is killed in the end. Without one who does that, the other processes wait
for the lock for ever. `HashSpec` has weak fairness of
the http client, of a server that was asked and of `extract_file`. `ZipExtract`,
`FileStream`, `DecodeStream` and `TarExtract` have weak fairness of the single
thread that runs them, not of the calls its user makes. `CondVar!FairSpec` has
weak fairness of each thread that is not asleep; none of timeouts, so
`SignaledReturns` does not rest on them, and none of who gets the mutex.

## Proofs

Each theorem holds for all values of the constants that meet the assumption of
its module, which TLC evaluates in every run. An invariant seldom survives a
step by itself; what is added to it is this:

* `DownloaderProofs`: `TypeCorrect` and `LockExcludes` for all constants.
  `SkippedInstalled` and `NinjaSeesInstalled` assume `AllPinned`: every http url
  has a pin, and deleting, unpacking and the close of `download.tmp` do not fail
  unnoticed. Kills, hangs, torn map files and failed renames are allowed. The pin
  is what makes a broken connection noticed: a short body never equals a pinned
  content. `IInv` adds that only the holder of the lock is past `open`, that a
  process's lines are lines of the manifest it read, and, for the line in hand,
  what is below its path at each program counter. Without the last part the step
  that records the line could not be shown to record an installed one.
  `InstalledIsPinned` is under `NoLoss`: no kills, and
  neither renaming nor deleting nor the close of `download.map` fails. Nothing is
  assumed of pins, of what urls serve or of `download.tmp`, so it says that no
  other version than the pinned one is installed, not that all of it is.
  `downloader_pin_lost.cfg` shows why kills are excluded. `PInv`
  says of the process with the lock what it holds at each program counter: that
  its line is not recorded and nothing is below its path while it is fetched,
  that what it unpacks has the hash of the url, and that the copy of a map that
  `update_map` has made will be as good as the map it replaces.
* `FileReadProofs`, of the file stream: `FileTypesHold`, with the bounds on the buffer's indices,
  and `FileImplementsStream`. `InOrder` says that index `i` of the buffer holds
  byte `offset - avail + i` of the file for every `i < avail`. It is shown to
  survive memmove, growth and `fread`.
* `DecodeStreamProofs`: `TypeCorrect`, `DecodersImplementStream` and
  `WholeDataDecodes`. `Good` says that the buffer holds the decoded bytes from
  `dropped` on, and `Bounds` that the decoder has finished only at the end of
  the data, or failed. For whole data, `Whole` adds that a decoder that has
  taken all of its input has finished or owes no more than a turn has room for,
  which needs that `inflate` owes at most a buffer increment (`Held`).
* `HashedDownloadProofs`: `DigestIsOfFile`, for any servers, also ones that lie
  about lengths. `Pointing` says that the window `extract_file` was given is
  still at the place in the buffer that `read_hash` points to. `HttpTypes`,
  `HttpInStep`, `WholeAtTheEnd` and `HttpImplementsStream` are about servers that
  keep to `WellServed`: a redirect that stays on its site has no body
  (`http_reuse.cfg` shows why), a 200 response carries the file, whatever length
  it announces, and a response fits in memory. `Track` is the core of the
  invariant `AInv`: what is in the buffer and on the wire is the rest of one
  response to the last request, from the byte on that the client has come to, and
  nothing is left of a response when a connection is used again. `Counts` says
  that `length_remaining` and `pos` add up to the announced length until a read
  fails, and that the buffer never gets so long that `consumed + need` could wrap
  around; without it the read after an error could not be shown to be served.
* `TarExtractProofs`: `TypeCorrect` and `ConsumesOnlyWhatItSaw` for all archives,
  cuts, windows and faults. `FilesHoldTheirBytes`, `AcceptedArchiveUnpacks` and
  `RefusalStops` assume `Quiet`: behind a header of a type that `next_tar_file`
  does not know there is no data, or none that looks like a header. (Data of
  files may look like headers.) `IInv` says, at each program counter, which
  position in the archive the shared source has come to: `AtWalk` while headers
  are read and data is skipped, `AtFile` while a file is copied, `AtEnd` once
  unpacking has come back, and `Contents` what has been written of each entry
  before that position. `AcceptedArchiveUnpacks` is an equivalence: an archive
  that is all there is unpacked with success exactly if every link that is created
  finds its directories made by files before it; `IInv` ties `dirs` to
  the files before the position. It is lost when the source fails, and so are the
  properties.
* `FileReadProofs`, of the zip container: `TypeCorrect`, `FilesAreTheirEntries`, `SuccessMeansAll`
  and `ValidArchivesUnpack`, for all archives that are `WellMade`, with any number
  of entries, extra fields, lengths of comments and windows. An archive with a
  comment on an entry or with a zip64 locator is not, since the reader goes wrong
  there. `Window` says which part of the end the search has come to; `Walk` which
  header the walk has come to, how many of its extra fields are read, that the
  lengths in hand are the real ones once the zip64 field is behind, and that
  the number of files written is that of the file headers before it. It is what
  ties the position of the `FILE`, which data moves, to the directory.
* `BuildToolProofs`, of the generator: `TypeCorrect`, `SolutionsResolve`,
  `RunsAreComplete`. `FileOK` says that a file is torn, a project with its own
  uuid, or a solution whose projects are on disk; `Before` that the files before
  the one in hand are as this run wrote them. A solution's path is assumed to be
  no project's, and the projects of one `projects.toml` to have different files.
* `BuildToolProofs`, of the script: `LibcTypesHold`, `BuiltFromRightSources`,
  `TreesRepaired`, `PackedWhole`. `Trees` says for each command what must be, and
  what cannot be, in `disabled/` whatever was there when the run began;
  `Libraries` what the ninja file names and what is built. `BuiltFromRightSources`
  and `TreesRepaired` assume `~MovesFail`; `PackedWhole` assumes nothing: a tar
  ball that is not torn holds all libraries of its target, and a run that ends
  with success has left one.
* `CondVarProofs` and `CondVarWakeups`, for any number of threads and any scripts in which threads
  lock what they do not have and unlock and wait with what they have. There are
  three invariants (`CondVarInv`), each of which needs the ones before it.
  - `OneOwner` from `IInv`: `ThreadOK` says at which places in its call a thread
    has the mutex.
  - `TypeCorrect` and `NodesInUse` (in `CondVarWakeups`) from `JInv`: every thread's node has the state
    and barrier that go with its place (`Statuses`), `ref` is the number of leaving
    waiters that a signaler waits for (`Refs`), `_m_waiters` is the number of
    threads that have counted themselves plus the number of signaled waiters that a
    count was passed on to (`Count`), and the links are those of lists (`Lists`).
    The last says that there are a group for each node (the condition variable's
    list, the one that a signaler has split off and still waits with, or one in
    which the mutex is handed on) and a rank for each node, growing from
    the oldest to the newest, such that `prev` and `next` stay in the group, mirror
    each other and follow the ranks. Groups and ranks are quantified, not
    variables of the model; each step is shown to have a witness for them. That
    `Walk` then visits the nodes of the list is by induction along it.
  - `WakeupsArrive` from `KInv`: who sleeps on a barrier that is open is about
    to be woken or requeued (`Sleepers`), and while threads sleep on the mutex and it is
    free one that is awake will look at it, and whoever is about to free it will
    wake one (`Contention`).

The invariants for tar, zip, http and the condition variable were checked with TLC
on the instances of the runs before they were proved, the quantified numbers,
groups and ranks bounded or kept in history variables. Induction over numbers is
the least number principle here (`Least`, `Induction` of `CondVarProofs`),
derived from the well-foundedness of `<` with the property as a set. `USE
SMTT(30)` at the head of a module gives the solver more time than its default.

Only model-checked:

* every liveness property: fairness is out of the prover's reach;
* `TextIsMap`, `LandsInside` and `ItemsResolve`, which are about algorithms on
  text and paths of any length. A proof needs an induction over these
  sequences for every helper (`Pieces`, `Tokens`, `Slashes`, `Common` and the
  rest), which are made of `SelectSeq`, folds and `CHOOSE` over positions, and
  the facts about those would have to be proved first;
* that `CondVar` implements `Monitor`: the queue of the mapping is the walk along
  the links with some nodes left out, a sequence whose changes the steps on links
  would have to be matched with.

## Not modelled

* `source-buffer.c`: a pointer and a length, which nothing in the tools opens.
* deflating and gzip in `filter-deflate.c`, which nothing in the tools opens.
* TLS and the resolver below `source-http.c`; they carry the same bytes or fail.
  Urls longer than the request buffer (`source-http.c:271`), since urls have no
  text here. That a body longer than its `Content-Length` is an
  error once more of it has arrived (`source-http.c:148`) and that the request is sent again from its start after
  a short `send` (`source-http.c:282`) are in the model, without a property.
* The process launch of the Windows downloader, its progress display, and paths
  of the manifest that lie inside other paths.
* The second `close` of the source when `open_inflate` fails
  (`container-zip.c:210`): memory management is left out throughout.
* What the ustar prefix is meant to be: `Paths` joins it without a slash, as the
  code does (`container-tar.c:22`), and only says where the result leads.
* File systems that do not tell a file from a directory in `readdir`
  (`generate.c:253`), the text of project files other than the files they list,
  and file names with doubled separators, for which the number of `..` in
  `print_relative_path` comes out wrong.
* In `build-libc.sh`, what the compilers do and the copies of the headers; an unknown target leaves the script
  before anything changes.
* In musl: process-shared condition variables, cancellation
  (`pthread_cond_timedwait.c:164`), interrupted futex calls, robust, recursive
  and error-checking mutexes, and steps inside the sections under `_c_lock`. The
  rest of musl, libcxx, libcxxabi, libunwind and compiler-rt is third-party code
  compiled as it is; it makes up almost all of the lines in the tree, so what is
  modelled is a small share of them, and most of what the repository adds.
* The ninja files and `ssl-roots.h`, which have no state, and the submodules
  BearSSL, xz-embedded, tomlc99 and zlib, which are not in the tree.
