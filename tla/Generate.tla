------------------------------ MODULE Generate ------------------------------
(***************************************************************************)
(* The project generator (tools/generate-vcxproj/generate.c): main reads   *)
(* projects.toml and writes a project file for each of its projects, one   *)
(* or two for commands, and then the solution that names them.  It may be  *)
(* killed or fail on the way and is run again, on another projects.toml.   *)
(*                                                                         *)
(* A path is the sequence of what its separators separate, so that the     *)
(* empty string is << "" >> and a\\b is << "a", "", "b" >>.  A uuid is the *)
(* path that it is the digest of; each file is spelled in one way.         *)
(***************************************************************************)
EXTENDS Naturals, Sequences, FiniteSets

CONSTANTS
  Tomls,      (* contents projects.toml may have                            *)
  Tree,       (* the regular files of each directory                        *)
  Kind,       (* what print_cfile, ... make of a file name; "none" if none  *)
              (* of them prints it (or it has no entry)                     *)
  FaultSets,  (* what may go wrong together: subsets of Faults              *)
  MaxRuns

Faults == {"open", "full"}
BuildAll == <<"_BUILD_ALL.vcxproj">>
Gen      == <<"_GENERATE_VCXPROJ.vcxproj">>

(* ok: it parses and has the fields that must be there.                      *)
ProjectsOf(t) == {t.projects[i] : i \in DOMAIN t.projects}
FilesOf(t) == {p.file : p \in ProjectsOf(t)}
Outputs == {BuildAll, Gen} \cup UNION {FilesOf(t) \cup {t.solution} : t \in Tomls}
ASSUME GenerateConstants ==
  /\ FaultSets \subseteq SUBSET Faults /\ MaxRuns \in Nat
  /\ \A t \in Tomls :
       /\ t.ok \in BOOLEAN /\ t.generate \in BOOLEAN
       /\ t.projects \in Seq(ProjectsOf(t))
       /\ \A u \in Tomls : t.solution \notin {BuildAll, Gen} \cup FilesOf(u)
       /\ {BuildAll, Gen} \cap FilesOf(t) = {}
       /\ \A i, j \in DOMAIN t.projects : t.projects[i].file = t.projects[j].file => i = j

VARIABLES
  toml,       (* projects.toml                                              *)
  faults,     (* what may go wrong                                          *)
  cfg,        (* projects.toml as the running process has read it           *)
  at,         (* which of the files it is at                                *)
  pc,         (* "idle", "read", "open", "write", or "ok" when it is done   *)
  disk,       (* the files it has written, by their path                    *)
  runs

vars == <<toml, faults, cfg, at, pc, disk, runs>>

-----------------------------------------------------------------------------
(* What is written.                                                          *)

Suffix(s, n) == IF n < Len(s) THEN SubSeq(s, n + 1, Len(s)) ELSE << "" >>

(* How many directories vcxfile begins with that dir begins with, too.  What *)
(* is left of a dir that is used up is the empty string.                     *)
Common(vcxfile, dir) ==
  LET Same(n) == \A i \in 1..n : vcxfile[i] = (IF i <= Len(dir) THEN dir[i] ELSE "")
      shared == {n \in 0..(Len(vcxfile) - 1) : Same(n)}
  IN  CHOOSE n \in shared : \A k \in shared : k <= n

(* Mutant: one for each name instead of each separator.                      *)
Ups_Names(v) == Cardinality({i \in DOMAIN v : v[i] # ""})

(* One for each separator, or run of separators.                             *)
Ups(v) ==
  IF Len(v) = 1 THEN 0 ELSE 1 + Cardinality({i \in 2..(Len(v) - 1) : v[i] # ""})

print_relative_path(vcxfile, dir) ==
  LET n    == Common(vcxfile, dir)
      down == Suffix(dir, n)
  IN  [i \in 1..Ups(Suffix(vcxfile, n)) |-> ".."] \o (IF down = << "" >> THEN << >> ELSE down)

Parent(dir) == IF Len(dir) = 1 THEN << "" >> ELSE SubSeq(dir, 1, Len(dir) - 1)
KindOf(file) == IF file \in DOMAIN Kind THEN Kind[file] ELSE "none"
Listed(dir) == IF dir \in DOMAIN Tree THEN Tree[dir] ELSE {}

(* A directory without files is taken for a file.                            *)
print_files(kind, vcxfile, dir) ==
  IF Listed(dir) # {}
    THEN {print_relative_path(vcxfile, dir) \o << f >> : f \in {g \in Listed(dir) : KindOf(g) = kind}}
    ELSE {print_relative_path(vcxfile, Parent(dir)) \o << f >> :
            f \in {g \in {dir[Len(dir)]} : KindOf(g) = kind}}

Torn == [whole |-> FALSE]
Sources == {"c", "h", "other"}

write_project(p) ==
  [whole |-> TRUE, uuid |-> p.file,
   items |-> [k \in Sources |->
                UNION {print_files(k, p.file, p.dirs[i]) : i \in DOMAIN p.dirs}]]

write_command(file, kind) ==
  [whole |-> TRUE, uuid |-> file,
   items |-> [k \in {kind} |-> print_files(kind, << "" >>, << "." >>)]]

(* The projects it names, each with its uuid, and those a build builds.      *)
write_solution(t) ==
  LET command == {BuildAll} \cup (IF t.generate THEN {Gen} ELSE {})
  IN  [whole |-> TRUE, uuids |-> [f \in FilesOf(t) \cup command |-> f],
       build |-> FilesOf(t) \cup {BuildAll}]

Written(t, f) ==
  CASE f = BuildAll -> write_command(BuildAll, "ninja")
    [] f = Gen -> write_command(Gen, "toml")
    [] f = t.solution -> write_solution(t)
    [] OTHER -> write_project(CHOOSE p \in ProjectsOf(t) : p.file = f)

(* Mutants: the solution is written before the projects; the loop over the   *)
(* projects leaves out the last one.                                         *)
Jobs_Early(t) == << t.solution, BuildAll >> \o (IF t.generate THEN << Gen >> ELSE << >>)
                   \o [i \in DOMAIN t.projects |-> t.projects[i].file]
Jobs_NotLast(t) == << BuildAll >> \o (IF t.generate THEN << Gen >> ELSE << >>)
                   \o [i \in 1..(Len(t.projects) - 1) |-> t.projects[i].file] \o << t.solution >>

Commands(t) == IF t.generate THEN 2 ELSE 1

(* The files in the order main writes them.                                  *)
Jobs(t) ==
  [i \in 1..(Commands(t) + Len(t.projects) + 1) |->
     CASE i = 1 -> BuildAll
       [] i > 1 /\ i <= Commands(t) -> Gen
       [] i > Commands(t) /\ i <= Commands(t) + Len(t.projects) ->
            t.projects[i - Commands(t)].file
       [] OTHER -> t.solution]

-----------------------------------------------------------------------------
(* main                                                                      *)

Init ==
  /\ toml \in Tomls /\ faults \in FaultSets
  /\ cfg = toml /\ at = 1 /\ pc = "idle" /\ runs = 0
  /\ disk = << >>

File == Jobs(cfg)[at]

Put(f, content) ==
  disk' = [g \in DOMAIN disk \cup {f} |-> IF g = f THEN content ELSE disk[g]]

Start ==
  /\ pc \in {"idle", "ok"} /\ runs < MaxRuns
  /\ runs' = runs + 1
  /\ pc' = "read"
  /\ UNCHANGED <<toml, faults, cfg, at, disk>>

(* All of projects.toml is read and checked before anything is written.      *)
ReadToml ==
  /\ pc = "read"
  /\ \/ toml.ok /\ cfg' = toml /\ at' = 1 /\ pc' = "open"
     \/ ~toml.ok /\ pc' = "idle" /\ UNCHANGED <<cfg, at>>
  /\ UNCHANGED <<toml, faults, disk, runs>>

(* fopen with "wb", which leaves an empty file.                              *)
Open ==
  /\ pc = "open"
  /\ Put(File, Torn)
  /\ pc' = "write"
  /\ UNCHANGED <<toml, faults, cfg, at, runs>>

must_fopen_fails ==
  /\ "open" \in faults
  /\ pc = "open"
  /\ pc' = "idle"
  /\ UNCHANGED <<toml, faults, cfg, at, disk, runs>>

Then(n) == IF n > Len(Jobs(cfg)) THEN "ok" ELSE "open"

(* The fprintfs and fclose, whose failure nobody notices.                    *)
Write ==
  /\ pc = "write"
  /\ \/ Put(File, Written(cfg, File))
     \/ "full" \in faults /\ UNCHANGED disk
  /\ at' = at + 1
  /\ pc' = Then(at')
  /\ UNCHANGED <<toml, faults, cfg, runs>>

Kill ==
  /\ pc \in {"read", "open", "write"}
  /\ pc' = "idle"
  /\ UNCHANGED <<toml, faults, cfg, at, disk, runs>>

EditToml ==
  /\ toml' \in Tomls \ {toml}
  /\ UNCHANGED <<faults, cfg, at, pc, disk, runs>>

Next == Start \/ ReadToml \/ Open \/ must_fopen_fails \/ Write \/ Kill \/ EditToml

Spec == Init /\ [][Next]_vars

-----------------------------------------------------------------------------
(* Every file on disk is one main writes, and a process that is writing has a *)
(* file to write.                                                            *)
TypeOK ==
  /\ toml \in Tomls /\ cfg \in Tomls /\ faults \in FaultSets /\ runs \in 0..MaxRuns
  /\ pc \in {"idle", "read", "open", "write", "ok"}
  /\ at \in 1..(Len(Jobs(cfg)) + 1) /\ (pc \in {"open", "write"} => at <= Len(Jobs(cfg)))
  /\ DOMAIN disk \subseteq Outputs

Solutions == {t.solution : t \in Tomls} \cap DOMAIN disk

(* Whatever runs were killed, failed or were given another projects.toml, a  *)
(* solution names only project files that exist, and each with the uuid that *)
(* is in it, old or new: main writes it last.                                *)
SolutionResolves ==
  \A s \in Solutions : disk[s].whole =>
    \A f \in DOMAIN disk[s].uuids :
      f \in DOMAIN disk /\ (disk[f].whole => disk[f].uuid = disk[s].uuids[f])

(* When main returns 0, the solution and all it names were written by this   *)
(* run, whole, whatever earlier runs left; unless the disk was full, which   *)
(* it does not notice.                                                       *)
RunIsComplete ==
  pc = "ok" /\ "full" \notin faults =>
    /\ cfg.solution \in DOMAIN disk /\ disk[cfg.solution] = write_solution(cfg)
    /\ \A f \in DOMAIN write_solution(cfg).uuids :
         f \in DOMAIN disk /\ disk[f] = Written(cfg, f)

(* Where a path leads from a directory, in as few names as there are.        *)
Follow(from, path) ==
  LET both == from \o path
      Go[n \in 0..Len(both)] ==
        IF n = 0 THEN << >>
        ELSE LET now == Go[n - 1]
             IN  CASE both[n] \in {"", "."} -> now
                   [] both[n] = ".." /\ now # << >> /\ now[Len(now)] # ".." -> SubSeq(now, 1, Len(now) - 1)
                   [] OTHER -> Append(now, both[n])
  IN  Go[Len(both)]

Wanted(p, kind) ==
  UNION {LET d == p.dirs[i]
             names == IF Listed(d) # {} THEN {Append(d, g) : g \in Listed(d)} ELSE {d}
         IN  {Follow(<< >>, n) : n \in {n \in names : KindOf(n[Len(n)]) = kind}} : i \in DOMAIN p.dirs}

Projects == UNION {ProjectsOf(t) : t \in Tomls}
OnDisk   == {f \in DOMAIN disk : disk[f].whole /\ \E p \in Projects : p.file = f}
Items(f) == UNION {disk[f].items[k] : k \in Sources}

(* No step of a path goes up from a directory only to come back into it.     *)
Shortest(dir, i) ==
  \A n \in 1..(Len(i) - 1) :
    i[n] = ".." /\ i[n + 1] # ".." =>
      Follow(dir, SubSeq(i, 1, n - 1)) # Follow(dir, SubSeq(i, 1, n + 1))

(* A project file lists, as paths that lead there from its own directory,    *)
(* exactly the files a projects.toml gave it, each in the group of its kind, *)
(* whether it named their directory or them, and "the shortest relative      *)
(* path" to each (print_relative_path).                                      *)
ItemsResolve ==
  \A f \in OnDisk :
    /\ \A i \in Items(f) : Shortest(Parent(f), i)
    /\ \E p \in Projects :
         /\ p.file = f
         /\ \A k \in Sources :
              {Follow(Parent(f), i) : i \in disk[f].items[k]} = Wanted(p, k)
=============================================================================
