-------------------------- MODULE BuildToolProofs --------------------------
(***************************************************************************)
(* What the tools that prepare a build leave on disk: the generator, for   *)
(* all contents of projects.toml, and build-libc.sh, for all sets of       *)
(* sources; each for any number of runs.                                   *)
(***************************************************************************)
EXTENDS Generate, BuildLibc, TLAPS

USE SMTT(30)

-----------------------------------------------------------------------------
(* The generator.                                                            *)

Last(t)  == Commands(t) + Len(t.projects) + 1
Named(t) == DOMAIN write_solution(t).uuids

(* The numbers a content of projects.toml comes with.                        *)
LEMMA Counts ==
  ASSUME NEW t \in Tomls
  PROVE  /\ Commands(t) \in {1, 2} /\ Len(t.projects) \in Nat
         /\ DOMAIN t.projects = 1..Len(t.projects)
         /\ Last(t) \in Nat /\ Last(t) >= 2
         /\ Jobs(t) \in Seq(Outputs) /\ Len(Jobs(t)) = Last(t)
<1>1. t.projects \in Seq(ProjectsOf(t)) /\ t.generate \in BOOLEAN
  BY GenerateConstants
<1>2. Commands(t) \in {1, 2}
  BY DEF Commands
<1>3. Len(t.projects) \in Nat /\ DOMAIN t.projects = 1..Len(t.projects)
  BY <1>1
<1>4. Last(t) \in Nat /\ Last(t) >= 2
  BY <1>2, <1>3 DEF Last
<1>5. \A i \in 1..Len(t.projects) : t.projects[i].file \in Outputs
  BY <1>3 DEF Outputs, FilesOf, ProjectsOf
<1>6. BuildAll \in Outputs /\ Gen \in Outputs /\ t.solution \in Outputs
  BY DEF Outputs
<1>7. \A i \in 1..Last(t) : Jobs(t)[i] \in Outputs
  BY <1>2, <1>3, <1>5, <1>6 DEF Jobs, Last
<1>8. Jobs(t) \in [1..Last(t) -> Outputs]
  BY <1>7, Zenon DEF Jobs, Last
<1>9. QED
  BY <1>2, <1>3, <1>4, <1>8

(* The solution is the last of the files, and each file it names is one of   *)
(* the others.                                                               *)
LEMMA SolutionLast ==
  ASSUME NEW t \in Tomls
  PROVE  /\ Jobs(t)[Last(t)] = t.solution
         /\ \A i \in 1..(Last(t) - 1) : Jobs(t)[i] \in Named(t)
         /\ \A f \in Named(t) : \E i \in 1..(Last(t) - 1) : Jobs(t)[i] = f
         /\ \A u \in Tomls : t.solution \notin Named(u)
<1> USE Counts
<1>1. Named(t) = FilesOf(t) \cup {BuildAll} \cup (IF t.generate THEN {Gen} ELSE {})
  BY DEF Named, write_solution
<1>2. Jobs(t)[Last(t)] = t.solution
  BY DEF Jobs, Last
<1>3. ASSUME NEW i \in 1..(Last(t) - 1) PROVE Jobs(t)[i] \in Named(t)
  <2>1. CASE i = 1
    BY <2>1, <1>1 DEF Jobs, Last
  <2>2. CASE i > 1 /\ i <= Commands(t)
    <3>1. Jobs(t)[i] = Gen
      BY <2>2 DEF Jobs, Last
    <3>2. t.generate
      BY <2>2 DEF Commands
    <3> QED
      BY <3>1, <3>2, <1>1
  <2>3. CASE i > Commands(t)
    <3>1. i - Commands(t) \in DOMAIN t.projects /\ Jobs(t)[i] = t.projects[i - Commands(t)].file
      BY <2>3 DEF Jobs, Last
    <3> QED
      BY <3>1, <1>1 DEF FilesOf, ProjectsOf
  <2> QED
    BY <2>1, <2>2, <2>3
<1>4. ASSUME NEW f \in Named(t) PROVE \E i \in 1..(Last(t) - 1) : Jobs(t)[i] = f
  <2>1. CASE f = BuildAll
    <3>1. 1 \in 1..(Last(t) - 1) /\ Jobs(t)[1] = BuildAll
      BY DEF Jobs, Last
    <3> QED
      BY <3>1, <2>1
  <2>2. CASE f = Gen /\ t.generate
    <3>1. 2 \in 1..(Last(t) - 1) /\ Jobs(t)[2] = Gen
      BY <2>2 DEF Jobs, Last, Commands
    <3> QED
      BY <3>1, <2>2
  <2>3. CASE f \in FilesOf(t)
    <3>1. PICK n \in DOMAIN t.projects : f = t.projects[n].file
      BY <2>3 DEF FilesOf, ProjectsOf
    <3>2. n + Commands(t) \in 1..(Last(t) - 1) /\ Jobs(t)[n + Commands(t)] = f
      <4>1. n \in 1..Len(t.projects) /\ (n + Commands(t)) - Commands(t) = n
        OBVIOUS
      <4> QED
        BY <3>1, <4>1 DEF Jobs, Last
    <3> QED
      BY <3>2
  <2> QED
    BY <1>1, <2>1, <2>2, <2>3
<1>5. ASSUME NEW u \in Tomls PROVE t.solution \notin Named(u)
  BY GenerateConstants DEF Named, write_solution
<1>6. QED
  BY <1>2, <1>3, <1>4, <1>5

(* No file is written twice in a run.                                        *)
LEMMA JobsDiffer ==
  ASSUME NEW t \in Tomls, NEW i \in 1..Last(t), NEW j \in 1..Last(t), Jobs(t)[i] = Jobs(t)[j]
  PROVE  i = j
<1> USE Counts
<1> DEFINE C == Commands(t)  k == Len(t.projects)
<1>1. /\ BuildAll # Gen /\ {BuildAll, Gen} \cap FilesOf(t) = {}
      /\ t.solution \notin {BuildAll, Gen} \cup FilesOf(t)
      /\ \A m, n \in DOMAIN t.projects : t.projects[m].file = t.projects[n].file => m = n
  BY GenerateConstants DEF BuildAll, Gen
<1>2. ASSUME NEW n \in 1..Last(t)
      PROVE  \/ n = 1 /\ Jobs(t)[n] = BuildAll
             \/ n = 2 /\ C = 2 /\ Jobs(t)[n] = Gen
             \/ /\ n - C \in DOMAIN t.projects
                /\ Jobs(t)[n] = t.projects[n - C].file /\ Jobs(t)[n] \in FilesOf(t)
             \/ n = Last(t) /\ Jobs(t)[n] = t.solution
  <2>1. CASE n = 1
    BY <2>1 DEF Jobs, Last
  <2>2. CASE n > 1 /\ n <= C
    BY <2>2 DEF Jobs, Last
  <2>3. CASE n > C /\ n <= C + k
    <3>1. n - C \in DOMAIN t.projects /\ Jobs(t)[n] = t.projects[n - C].file
      BY <2>3 DEF Jobs, Last
    <3> QED
      BY <3>1 DEF FilesOf, ProjectsOf
  <2>4. CASE n > C + k
    BY <2>4 DEF Jobs, Last
  <2> QED
    BY <2>1, <2>2, <2>3, <2>4
<1>3. CASE i - C \in DOMAIN t.projects /\ j - C \in DOMAIN t.projects
           /\ Jobs(t)[i] = t.projects[i - C].file /\ Jobs(t)[j] = t.projects[j - C].file
  <2>1. i - C = j - C
    BY <1>1, <1>3, Zenon
  <2> QED
    BY <2>1
<1>4. QED
  BY <1>1, <1>2, <1>3

LEMMA CommandHasUuid ==
  ASSUME NEW file, NEW kind
  PROVE  write_command(file, kind).whole = TRUE /\ write_command(file, kind).uuid = file
<1> DEFINE I == [k \in {kind} |-> print_files(kind, << "" >>, << "." >>)]
<1>1. write_command(file, kind) = [whole |-> TRUE, uuid |-> file, items |-> I]
  BY Zenon DEF write_command
<1> HIDE DEF I
<1>2. QED
  BY <1>1

(* What is written in a file that is not the solution has its uuid.          *)
LEMMA WrittenHasUuid ==
  ASSUME NEW t \in Tomls, NEW f \in Named(t)
  PROVE  Written(t, f).whole = TRUE /\ Written(t, f).uuid = f
<1>1. f # t.solution
  BY SolutionLast
<1>a. BuildAll # Gen
  BY DEF BuildAll, Gen
<1>2. CASE f = BuildAll
  <2>1. Written(t, f) = write_command(BuildAll, "ninja")
    BY <1>1, <1>2, <1>a DEF Written
  <2>2. /\ write_command(BuildAll, "ninja").whole = TRUE
        /\ write_command(BuildAll, "ninja").uuid = BuildAll
    BY CommandHasUuid, Zenon
  <2> QED
    BY <1>2, <2>1, <2>2, ZenonT(30)
<1>3. CASE f = Gen
  <2>1. Written(t, f) = write_command(Gen, "toml")
    BY <1>1, <1>3, <1>a DEF Written
  <2>2. /\ write_command(Gen, "toml").whole = TRUE
        /\ write_command(Gen, "toml").uuid = Gen
    BY CommandHasUuid, Zenon
  <2> QED
    BY <1>3, <2>1, <2>2, ZenonT(30)
<1>4. CASE f \in FilesOf(t) /\ f \notin {BuildAll, Gen}
  <2>1. \E p \in ProjectsOf(t) : p.file = f
    BY <1>4 DEF FilesOf
  <2>2. PICK p \in ProjectsOf(t) : p.file = f /\ Written(t, f) = write_project(p)
    BY <1>1, <1>4, <2>1, Zenon DEF Written
  <2> QED
    BY <2>2 DEF write_project
<1>5. QED
  BY <1>2, <1>3, <1>4, Zenon DEF Named, write_solution

LEMMA WrittenSolution ==
  ASSUME NEW t \in Tomls
  PROVE  Written(t, t.solution) = write_solution(t)
  BY GenerateConstants DEF Written

-----------------------------------------------------------------------------

Solution(f) == \E t \in Tomls : f = t.solution

(* A file on disk is empty or half written, or a project with its uuid, or a *)
(* solution whose projects are there.                                        *)
FileOK(f) ==
  \/ disk[f] = Torn
  \/ ~Solution(f) /\ disk[f].whole = TRUE /\ disk[f].uuid = f
  \/ \E t \in Tomls : /\ f = t.solution /\ disk[f] = write_solution(t)
                      /\ Named(t) \subseteq DOMAIN disk

Running == pc \in {"open", "write", "ok"}

(* The files before the one in hand are there, as this run wrote them.       *)
Before ==
  Running => \A i \in 1..(at - 1) :
    /\ Jobs(cfg)[i] \in DOMAIN disk
    /\ "full" \notin faults => disk[Jobs(cfg)[i]] = Written(cfg, Jobs(cfg)[i])

IInv ==
  /\ TypeOK
  /\ \A f \in DOMAIN disk : FileOK(f)
  /\ Before
  /\ pc = "ok" => at = Last(cfg) + 1
  /\ pc = "write" => File \in DOMAIN disk /\ disk[File] = Torn

LEMMA InitIInv == Init => IInv
<1> SUFFICES ASSUME Init PROVE IInv
  OBVIOUS
<1>1. cfg \in Tomls /\ Len(Jobs(cfg)) = Last(cfg) /\ Last(cfg) \in Nat
  BY Counts DEF Init
<1>2. DOMAIN disk = {}
  BY DEF Init
<1>3. MaxRuns \in Nat
  BY GenerateConstants
<1>4. TypeOK
  BY <1>1, <1>2, <1>3 DEF Init, TypeOK
<1>5. QED
  BY <1>2, <1>4 DEF Init, IInv, Before, Running

(* A file that is there stays there, and what may change is the one in hand. *)
LEMMA PutKeeps ==
  ASSUME IInv, NEW c, File \in Outputs, Put(File, c),
         \/ c = Torn
         \/ ~Solution(File) /\ c.whole = TRUE /\ c.uuid = File
         \/ \E t \in Tomls : /\ File = t.solution /\ c = write_solution(t)
                             /\ Named(t) \subseteq DOMAIN disk \cup {File}
  PROVE  /\ DOMAIN disk' = DOMAIN disk \cup {File}
         /\ DOMAIN disk' \subseteq Outputs
         /\ disk'[File] = c
         /\ \A f \in DOMAIN disk : f # File => disk'[f] = disk[f]
         /\ \A f \in DOMAIN disk' : FileOK(f)'
<1>1. /\ DOMAIN disk' = DOMAIN disk \cup {File} /\ disk'[File] = c
      /\ \A f \in DOMAIN disk : f # File => disk'[f] = disk[f]
  BY DEF Put
<1>2. DOMAIN disk' \subseteq Outputs
  BY <1>1 DEF IInv, TypeOK
<1>3. ASSUME NEW f \in DOMAIN disk' PROVE FileOK(f)'
  <2>1. CASE f = File
    BY <1>1, <2>1 DEF FileOK, Solution
  <2>2. CASE f # File
    <3>1. f \in DOMAIN disk /\ FileOK(f)
      BY <1>1, <2>2 DEF IInv
    <3> QED
      BY <1>1, <2>2, <3>1 DEF FileOK, Solution
  <2> QED
    BY <2>1, <2>2
<1>4. QED
  BY <1>1, <1>2, <1>3

(* Every step of main, its failure and its death keep IInv.                  *)
LEMMA NextIInv == IInv /\ [Next]_vars => IInv'
<1> SUFFICES ASSUME IInv, [Next]_vars PROVE IInv'
  OBVIOUS
<1>1. /\ cfg \in Tomls /\ toml \in Tomls /\ at \in Nat \ {0} /\ MaxRuns \in Nat /\ runs \in Nat
      /\ Last(cfg) \in Nat /\ Last(toml) \in Nat /\ Last(cfg) >= 2 /\ Last(toml) >= 2
      /\ Len(Jobs(cfg)) = Last(cfg) /\ Len(Jobs(toml)) = Last(toml)
      /\ at <= Last(cfg) + 1 /\ (pc \in {"open", "write"} => at <= Last(cfg))
  BY Counts, GenerateConstants DEF IInv, TypeOK
<1>a. ASSUME UNCHANGED disk PROVE \A f \in DOMAIN disk' : FileOK(f)'
  BY <1>a DEF IInv, FileOK, Solution
<1>2. CASE Start
  BY <1>1, <1>2, <1>a DEF Start, IInv, TypeOK, Before, Running, File
<1>3. CASE ReadToml
  BY <1>1, <1>3, <1>a DEF ReadToml, IInv, TypeOK, Before, Running, File
<1>4. CASE Open
  <2>1. pc = "open" /\ pc' = "write" /\ Put(File, Torn) /\ UNCHANGED <<toml, faults, cfg, at, runs>>
    BY <1>4 DEF Open
  <2>2. File \in Outputs /\ at \in 1..Last(cfg)
    BY <1>1, <2>1, Counts DEF File
  <2>3. /\ DOMAIN disk' = DOMAIN disk \cup {File} /\ DOMAIN disk' \subseteq Outputs
        /\ disk'[File] = Torn /\ \A f \in DOMAIN disk : f # File => disk'[f] = disk[f]
        /\ \A f \in DOMAIN disk' : FileOK(f)'
    BY <2>1, <2>2, PutKeeps, Zenon
  <2>4. \A i \in 1..(at - 1) : Jobs(cfg)[i] # File
    BY <1>1, <2>2, JobsDiffer DEF File
  <2>5. Before'
    BY <2>1, <2>3, <2>4 DEF IInv, Before, Running
  <2>6. TypeOK'
    BY <1>1, <2>1, <2>2, <2>3 DEF IInv, TypeOK
  <2> QED
    BY <2>1, <2>3, <2>5, <2>6 DEF IInv, File
<1>5. CASE must_fopen_fails
  BY <1>1, <1>5, <1>a DEF must_fopen_fails, IInv, TypeOK, Before, Running, File
<1>6. CASE Write
  <2>1. /\ pc = "write" /\ pc' = Then(at') /\ at' = at + 1 /\ UNCHANGED <<toml, faults, cfg, runs>>
        /\ \/ Put(File, Written(cfg, File))
           \/ "full" \in faults /\ UNCHANGED disk
    BY <1>6 DEF Write
  <2>2. File \in Outputs /\ at \in 1..Last(cfg) /\ File \in DOMAIN disk
    BY <1>1, <2>1, Counts DEF File, IInv
  <2>3. pc' = (IF at' > Last(cfg) THEN "ok" ELSE "open")
    BY <1>1, <2>1 DEF Then
  <2>4. /\ DOMAIN disk' = DOMAIN disk \cup {File} /\ DOMAIN disk' \subseteq Outputs
        /\ "full" \notin faults => disk'[File] = Written(cfg, File)
        /\ \A f \in DOMAIN disk : f # File => disk'[f] = disk[f]
        /\ \A f \in DOMAIN disk' : FileOK(f)'
    <3>1. CASE "full" \in faults /\ UNCHANGED disk
      BY <2>2, <3>1, <1>a, Zenon DEF IInv, TypeOK
    <3>2. CASE Put(File, Written(cfg, File)) /\ at = Last(cfg)
      <4>1. File = cfg.solution /\ Written(cfg, File) = write_solution(cfg)
        BY <1>1, <3>2, SolutionLast, WrittenSolution DEF File
      <4>2. Named(cfg) \subseteq DOMAIN disk
        BY <1>1, <2>1, <3>2, SolutionLast DEF IInv, Before, Running
      <4>3. Put(File, write_solution(cfg))
        BY <3>2, <4>1
      <4> QED
        BY <1>1, <2>2, <4>1, <4>2, <4>3, PutKeeps, ZenonT(30)
    <3>3. CASE Put(File, Written(cfg, File)) /\ at # Last(cfg)
      <4>a. at \in 1..(Last(cfg) - 1)
        BY <1>1, <2>2, <3>3
      <4>1. File \in Named(cfg)
        BY <1>1, <4>a, SolutionLast, ZenonT(30) DEF File
      <4>2. ~Solution(File)
        BY <1>1, <4>1, SolutionLast DEF Solution
      <4>3. Written(cfg, File).whole = TRUE /\ Written(cfg, File).uuid = File
        BY <1>1, <4>1, WrittenHasUuid, Zenon
      <4> QED
        BY <2>2, <3>3, <4>2, <4>3, PutKeeps, Zenon
    <3> QED
      BY <2>1, <3>1, <3>2, <3>3
  <2>5. \A i \in 1..(at - 1) : Jobs(cfg)[i] # File
    BY <1>1, <2>2, JobsDiffer DEF File
  <2>6. Before'
    <3> SUFFICES ASSUME NEW i \in 1..at
                 PROVE  /\ Jobs(cfg)[i] \in DOMAIN disk'
                        /\ "full" \notin faults => disk'[Jobs(cfg)[i]] = Written(cfg, Jobs(cfg)[i])
      BY <1>1, <2>1 DEF Before
    <3>1. CASE i = at
      BY <2>4, <3>1 DEF File
    <3>2. CASE i \in 1..(at - 1)
      BY <2>1, <2>4, <2>5, <3>2 DEF IInv, Before, Running
    <3> QED
      BY <1>1, <3>1, <3>2
  <2>7. TypeOK'
    BY <1>1, <2>1, <2>2, <2>3, <2>4 DEF IInv, TypeOK
  <2> QED
    BY <1>1, <2>1, <2>2, <2>3, <2>4, <2>6, <2>7 DEF IInv
<1>7. CASE Kill
  BY <1>1, <1>7, <1>a DEF Kill, IInv, TypeOK, Before, Running, File
<1>8. CASE EditToml
  BY <1>1, <1>8, <1>a DEF EditToml, IInv, TypeOK, Before, Running, File
<1>9. CASE UNCHANGED vars
  BY <1>1, <1>9, <1>a DEF vars, IInv, TypeOK, Before, Running, File
<1>10. QED
  BY <1>2, <1>3, <1>4, <1>5, <1>6, <1>7, <1>8, <1>9 DEF Next

LEMMA Inductive == Spec => []IInv
  BY InitIInv, NextIInv, PTL DEF Spec

(* A process that is writing has a file to write, and the disk holds only    *)
(* files main writes.                                                        *)
THEOREM TypeCorrect == Spec => []TypeOK
<1>1. IInv => TypeOK
  BY DEF IInv
<1> QED
  BY <1>1, Inductive, PTL

(* Whatever was killed, failed or edited, a solution on disk names only      *)
(* projects that exist and that have the uuid it gives them.                 *)
THEOREM SolutionsResolve == Spec => []SolutionResolves
<1>1. IInv => SolutionResolves
  <2> SUFFICES ASSUME IInv, NEW s \in Solutions, disk[s].whole,
                      NEW f \in DOMAIN disk[s].uuids
               PROVE  f \in DOMAIN disk /\ (disk[f].whole => disk[f].uuid = disk[s].uuids[f])
    BY DEF SolutionResolves
  <2>1. s \in DOMAIN disk /\ Solution(s) /\ disk[s] # Torn
    BY DEF Solutions, Solution, Torn
  <2>2. PICK t \in Tomls : disk[s] = write_solution(t) /\ Named(t) \subseteq DOMAIN disk
    BY <2>1 DEF IInv, FileOK
  <2>3. f \in Named(t) /\ disk[s].uuids[f] = f
    BY <2>2 DEF Named, write_solution
  <2>4. ~Solution(f)
    BY <2>3, SolutionLast DEF Solution
  <2>5. disk[f] = Torn \/ disk[f].uuid = f
    BY <2>2, <2>3, <2>4 DEF IInv, FileOK, Solution
  <2> QED
    BY <2>2, <2>3, <2>5 DEF Torn
<1> QED
  BY <1>1, Inductive, PTL

(* When main returns 0 on a disk that is not full, all it should have        *)
(* written is there as this run wrote it.                                    *)
THEOREM RunsAreComplete == Spec => []RunIsComplete
<1>1. IInv => RunIsComplete
  <2> SUFFICES ASSUME IInv, pc = "ok", "full" \notin faults
               PROVE  /\ cfg.solution \in DOMAIN disk /\ disk[cfg.solution] = write_solution(cfg)
                      /\ \A f \in Named(cfg) : f \in DOMAIN disk /\ disk[f] = Written(cfg, f)
    BY DEF RunIsComplete, Named
  <2>1. cfg \in Tomls /\ Last(cfg) \in Nat /\ Last(cfg) >= 2 /\ at - 1 = Last(cfg)
    BY Counts DEF IInv, TypeOK
  <2>2. \A i \in 1..Last(cfg) : /\ Jobs(cfg)[i] \in DOMAIN disk
                                /\ disk[Jobs(cfg)[i]] = Written(cfg, Jobs(cfg)[i])
    BY <2>1 DEF IInv, Before, Running
  <2>3. \A f \in Named(cfg) : f \in DOMAIN disk /\ disk[f] = Written(cfg, f)
    BY <2>1, <2>2, SolutionLast
  <2>4. cfg.solution \in DOMAIN disk /\ disk[cfg.solution] = write_solution(cfg)
    BY <2>1, <2>2, SolutionLast, WrittenSolution
  <2> QED
    BY <2>3, <2>4
<1> QED
  BY <1>1, Inductive, PTL

-----------------------------------------------------------------------------
(* The script that builds the libraries.                                     *)

V7 == target = "armv7"

Built == [rt : SUBSET (Files \cup Missing), cpp : SUBSET (Files \cup Missing),
          libc : SUBSET (Files \cup Missing)]
Shape ==
  /\ out \in [Targets -> Built]
  /\ tarball \in [is : {"gone", "torn", "whole"}, for : Targets, lib : [Targets -> Built]]
  /\ ninja \in [rt : SUBSET Files, cpp : SUBSET Files]
  /\ step \in {"rt_off", "cxx_off", "restore", "ninja_cpp"} => V7

(* What is in disabled/ at each command, whatever was there at the start.    *)
Trees ==
  /\ step \in {"configure", "rt_off", "cxx_off", "list", "restore", "ninja_rt", "make"} =>
       Musl \subseteq disabled
  /\ step \in {"cxx_off", "list"} /\ V7 => Overridden \subseteq disabled
  /\ step = "list" /\ V7 => NotWanted \subseteq disabled
  /\ step \in {"ninja_rt", "make", "musl_on", "ninja_cpp", "pack", "tar"} /\ V7 =>
       disabled \subseteq Musl
  /\ step \in {"ninja_cpp", "pack", "tar"} => disabled \cap Musl = {}

(* What the ninja file names, and what is built, at each command.            *)
Libraries ==
  /\ step \in {"restore", "ninja_rt", "make", "musl_on", "ninja_cpp", "pack", "tar"} /\ V7 =>
       ninja = [rt |-> Generic \ Overridden, cpp |-> Cxx \ NotWanted]
  /\ step \in {"make", "musl_on", "ninja_cpp", "pack", "tar"} /\ V7 =>
       out["armv7"].rt = Generic \ Overridden
  /\ step \in {"pack", "tar"} /\ V7 => out["armv7"].cpp = Cxx \ NotWanted
  /\ step \in {"musl_on", "ninja_cpp", "pack", "tar"} => out[target].libc = {}

LibcInv == LibcTypes /\ Shape /\ (~MovesFail => Trees /\ Libraries /\ RightSources)

(* The script starts with nothing in disabled/ and nothing built.            *)
LEMMA InitLibcInv == LibcInit => LibcInv
  BY BuildConstants DEF LibcInit, LibcInv, LibcTypes, Shape, Trees, Libraries,
     RightSources, None, Nothing, Missing, Targets, V7, Built

(* A mv moves some of its files, and all of them where none fails.           *)
LEMMA MovesFacts ==
  ASSUME NEW S, Moves(S)
  PROVE  /\ disabled' \subseteq disabled \cup S /\ disabled \subseteq disabled'
         /\ ~MovesFail => disabled' = disabled \cup S
  BY DEF Moves, Carried

LEMMA RestoreFacts ==
  ASSUME NEW S, Restore(S)
  PROVE  disabled' \subseteq disabled /\ (~MovesFail => disabled' = disabled \ S)
  BY DEF Restore, Carried

LEMMA TarCutShortFacts ==
  ASSUME Shape, TarCutShort
  PROVE  /\ tarball' \in [is : {"gone", "torn", "whole"}, for : Targets, lib : [Targets -> Built]]
         /\ tarball'.is = "whole" => tarball' = tarball
  BY DEF Shape, TarCutShort

(* Every command of the script, its failure and its death keep LibcInv.      *)
LEMMA NextLibcInv == LibcInv /\ [LibcNext]_libcVars => LibcInv'
<1> SUFFICES ASSUME LibcInv, [LibcNext]_libcVars PROVE LibcInv'
  OBVIOUS
<1> USE BuildConstants DEF LibcInv, LibcTypes, Shape, Trees, Libraries, RightSources, V7, Targets,
      Missing, Files, Present, To, Builds, Built
<1>1. ASSUME NEW t \in Targets, StartBuild(t) PROVE LibcInv'
  BY <1>1 DEF StartBuild, None, Nothing
<1>2. CASE Prepare
  BY <1>2 DEF Prepare
<1>3. CASE DisableMusl
  BY <1>3, MovesFacts DEF DisableMusl
<1>4. CASE DisableRt
  BY <1>4, MovesFacts DEF DisableRt, HasOverride
<1>5. CASE DisableCxx
  BY <1>5, MovesFacts DEF DisableCxx, CxxOff
<1>6. CASE ListSources
  BY <1>6, ZenonT(60) DEF ListSources, None
<1>7. CASE RestoreSources
  BY <1>7, RestoreFacts DEF RestoreSources
<1>8. CASE BuildRt
  BY <1>8 DEF BuildRt
<1>9. CASE BuildMusl
  BY <1>9 DEF BuildMusl
<1>10. CASE RestoreMusl
  BY <1>10, RestoreFacts DEF RestoreMusl
<1>11. CASE BuildCpp
  BY <1>11 DEF BuildCpp
<1>12. CASE RemoveTar
  BY <1>12 DEF RemoveTar
<1>13. CASE Pack
  BY <1>13 DEF Pack
<1>14. CASE Fails
  BY <1>14, TarCutShortFacts DEF Fails, OnError
<1>15. CASE KillBuild
  <2>1. disabled' \subseteq Musl \cup Overridden \cup NotWanted
    <3>1. CASE UNCHANGED disabled
      BY <3>1
    <3>2. CASE \E S \in SUBSET (Musl \cup Overridden \cup NotWanted) : Moves(S)
      BY <3>2, MovesFacts
    <3>3. CASE \E S : Restore(S)
      BY <3>3, RestoreFacts
    <3>4. QED
      BY <1>15, <3>1, <3>2, <3>3 DEF KillBuild
  <2>2. /\ step' = "idle" /\ status' = "failed"
        /\ tarball' \in [is : {"gone", "torn", "whole"}, for : Targets, lib : [Targets -> Built]]
        /\ UNCHANGED <<target, ninja, out, started>>
    BY <1>15, TarCutShortFacts, Zenon DEF KillBuild, To
  <2>3. QED
    BY <2>1, <2>2
<1>16. CASE UNCHANGED libcVars
  BY <1>16 DEF libcVars
<1>17. QED
  BY <1>1, <1>2, <1>3, <1>4, <1>5, <1>6, <1>7, <1>8, <1>9, <1>10, <1>11, <1>12, <1>13, <1>14,
     <1>15, <1>16, ZenonT(40) DEF LibcNext

LEMMA LibcInductive == LibcSpec => []LibcInv
  BY InitLibcInv, NextLibcInv, PTL DEF LibcSpec

(* The script stays at its commands, with every source in one place.         *)
THEOREM LibcTypesHold == LibcSpec => []LibcTypes
<1>1. LibcInv => LibcTypes
  BY DEF LibcInv
<1> QED
  BY <1>1, LibcInductive, PTL

(* However many runs failed or were killed with sources in disabled/, every  *)
(* library that is built is built from the right ones, if every mv works.    *)
THEOREM BuiltFromRightSources ==
  ASSUME ~MovesFail
  PROVE  LibcSpec => []RightSources
<1>1. LibcInv => RightSources
  BY DEF LibcInv
<1> QED
  BY <1>1, LibcInductive, PTL

(* A run that comes to its end has put every source of its target back, if   *)
(* every mv works.                                                           *)
THEOREM TreesRepaired ==
  ASSUME ~MovesFail
  PROVE  LibcSpec => []Repairs
<1>1. LibcInv => Repairs
  BY BuildConstants DEF LibcInv, LibcTypes, Trees, Repairs, V7, Targets
<1> QED
  BY <1>1, LibcInductive, PTL

(* What is built at each command, also where a mv failed, and what is packed.*)
PackInv ==
  /\ step \in {"make", "musl_on", "ninja_cpp", "pack", "tar"} /\ V7 => out["armv7"].rt # Missing
  /\ step \in {"pack", "tar"} /\ V7 => out["armv7"].cpp # Missing
  /\ step \in {"musl_on", "ninja_cpp", "pack", "tar"} => out[target].libc # Missing
  /\ status = "ok" => step = "idle"
  /\ PacksWhole

LEMMA InitPackInv == LibcInit => PackInv
  BY DEF LibcInit, PackInv, PacksWhole, None, Nothing, Missing, Targets, Built

(* A library that is built is not the missing one.                           *)
LEMMA BuildsNotMissing ==
  ASSUME NEW S, S \subseteq Files
  PROVE  S # Missing
  BY BuildConstants DEF Missing

LEMMA NextPackInv == LibcInv /\ PackInv /\ [LibcNext]_libcVars => PackInv'
<1> SUFFICES ASSUME LibcInv, PackInv, [LibcNext]_libcVars PROVE PackInv'
  OBVIOUS
<1>0. /\ target \in Targets /\ out \in [Targets -> Built]
      /\ ninja.rt \subseteq Files /\ ninja.cpp \subseteq Files /\ Present(Musl) \subseteq Files
      /\ (step = "ninja_cpp" => V7) /\ Shape
  BY DEF LibcInv, LibcTypes, Shape, Files, Present
<1> USE DEF PackInv, PacksWhole, Complete, V7, Targets, To
<1>1. ASSUME NEW t \in Targets, StartBuild(t) PROVE PackInv'
  BY <1>1 DEF StartBuild
<1>2. CASE Prepare \/ DisableMusl \/ DisableRt \/ DisableCxx \/ ListSources \/ RestoreSources
  BY <1>2 DEF Prepare, DisableMusl, DisableRt, DisableCxx, ListSources, RestoreSources
<1>3. CASE BuildRt
  BY <1>0, <1>3, BuildsNotMissing DEF BuildRt, Builds, Built
<1>4. CASE BuildMusl
  BY <1>0, <1>4, BuildsNotMissing DEF BuildMusl, Builds, Built
<1>5. CASE RestoreMusl
  BY <1>5 DEF RestoreMusl
<1>6. CASE BuildCpp
  BY <1>0, <1>6, BuildsNotMissing DEF BuildCpp, Builds, Built
<1>7. CASE RemoveTar
  BY <1>7 DEF RemoveTar
<1>8. CASE Pack
  BY <1>0, <1>8 DEF Pack
<1>9. CASE Fails
  BY <1>0, <1>9, TarCutShortFacts DEF Fails, OnError
<1>10. CASE KillBuild
  <2>1. /\ step' = "idle" /\ status' = "failed" /\ TarCutShort
        /\ UNCHANGED <<target, ninja, out, started>>
    BY <1>10, Zenon DEF KillBuild
  <2>2. QED
    BY <1>0, <2>1, TarCutShortFacts
<1>11. CASE UNCHANGED libcVars
  BY <1>11 DEF libcVars
<1>12. QED
  BY <1>1, <1>2, <1>3, <1>4, <1>5, <1>6, <1>7, <1>8, <1>9, <1>10, <1>11, ZenonT(40) DEF LibcNext

(* Also where a mv fails, only a run that built all the libraries of its     *)
(* target leaves a whole tar ball, and one that ends with success does.      *)
THEOREM PackedWhole == LibcSpec => []PacksWhole
<1>1. PackInv => PacksWhole
  BY DEF PackInv
<1> QED
  BY <1>1, InitPackInv, NextPackInv, LibcInductive, PTL DEF LibcSpec
=============================================================================
