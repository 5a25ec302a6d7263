----------------------------- MODULE BuildLibc -----------------------------
(***************************************************************************)
(* build-libc.sh: the C and C++ libraries for one target.  The script      *)
(* moves the sources it must not compile to disabled/ directories inside   *)
(* the source trees and back; it leaves at an error (|| exit 1), may be    *)
(* killed, and is run again, for either target, on what that left behind.  *)
(* Nothing looks at what mv, mkdir and the cp of the headers return: with  *)
(* MovesFail a mv leaves files behind and the script goes on.              *)
(***************************************************************************)
EXTENDS Naturals, FiniteSets

CONSTANTS
  Generic, Overridden,   (* compiler-rt builtins; those with one in arm/    *)
  Musl,                  (* musl's src/string/arm/__aeabi_*.c               *)
  Cxx,                   (* sources of libcxx and libcxxabi                 *)
  NotWanted,             (* of them cxa_noexception.cpp and debug.cpp       *)
  MovesFail,             (* whether a mv may fail                           *)
  MaxBuilds

Targets == {"armv5", "armv7"}
Files == Generic \cup Musl \cup Cxx
ASSUME BuildConstants ==
  /\ Overridden \subseteq Generic /\ NotWanted \subseteq Cxx
  /\ Generic \cap Musl = {} /\ Generic \cap Cxx = {} /\ Musl \cap Cxx = {}
  /\ "missing" \notin Files
  /\ MaxBuilds \in Nat /\ MovesFail \in BOOLEAN

VARIABLES
  target, step,
  disabled,   (* the sources that are in a disabled/ directory              *)
  ninja,      (* the sources $OUT/build-libc.ninja names, by library        *)
  out,        (* lib/<target>: what each library was built from             *)
  tarball,    (* $TAR_FILE: gone, torn or whole, and what was packed by     *)
              (* the run for which target                                   *)
  status,     (* how the last run ended                                     *)
  started

libcVars == <<target, step, disabled, ninja, out, tarball, status, started>>

None    == [rt |-> {}, cpp |-> {}]
Missing == {"missing"}
Nothing == [rt |-> Missing, cpp |-> Missing, libc |-> Missing]
LibcInit ==
  /\ target = "armv7" /\ step = "idle"
  /\ disabled = {}
  /\ ninja = None
  /\ out = [t \in Targets |-> Nothing]
  /\ tarball = [is |-> "gone", for |-> "armv7", lib |-> out]
  /\ status = "none" /\ started = 0

Present(S) == S \ disabled
To(label)  == step' = label

(* What a mv of the files S may move.                                        *)
Carried(S) == IF MovesFail THEN SUBSET S ELSE {S}
Moves(S)   == \E C \in Carried(S) : disabled' = disabled \cup C

(* Mutant: the mv back is quoted, as the one in front of the loops is.       *)
Restore_Quoted(S) == UNCHANGED disabled

Restore(S) == \E C \in Carried(S) : disabled' = disabled \ C

(* rm -rf "$OUT"; mkdir -p "$OUT"                                            *)
StartBuild(t) ==
  /\ step = "idle" /\ started < MaxBuilds
  /\ started' = started + 1
  /\ target' = t
  /\ out' = [out EXCEPT ![t] = Nothing]
  /\ ninja' = None
  /\ status' = "none"
  /\ To(IF t = "armv5" THEN "libgcc" ELSE "musl_off")
  /\ UNCHANGED <<disabled, tarball>>

(* cp of libgcc-armv5.a, configure, make install-headers: they change no     *)
(* source, and their failure ends the script.                                *)
Prepare ==
  /\ \/ step = "libgcc" /\ To("musl_off")
     \/ step = "configure" /\ To(IF target = "armv5" THEN "list" ELSE "rt_off")
  /\ UNCHANGED <<target, disabled, ninja, out, tarball, status, started>>

DisableMusl ==
  /\ step = "musl_off"
  /\ Moves(Musl)
  /\ To("configure")
  /\ UNCHANGED <<target, ninja, out, tarball, status, started>>

HasOverride == Overridden

(* The mv out of "disabled/*" is quoted and moves nothing; the loops over    *)
(* arm/*.c and arm/*.S move the generic versions, those that are there.      *)
DisableRt ==
  /\ step = "rt_off"
  /\ Moves(HasOverride)
  /\ To("cxx_off")
  /\ UNCHANGED <<target, ninja, out, tarball, status, started>>

(* Mutant: debug.cpp and cxa_noexception.cpp stay.                           *)
CxxOff_None == {}

CxxOff == NotWanted

DisableCxx ==
  /\ step = "cxx_off"
  /\ Moves(CxxOff)
  /\ To("list")
  /\ UNCHANGED <<target, ninja, out, tarball, status, started>>

(* ls of what is left, into the ninja file.  For armv5 it names three files  *)
(* of arm/ that are never moved.                                             *)
ListSources ==
  /\ step = "list"
  /\ ninja' = IF target = "armv5" THEN None
              ELSE [rt |-> Present(Generic), cpp |-> Present(Cxx)]
  /\ To(IF target = "armv5" THEN "ninja_rt" ELSE "restore")
  /\ UNCHANGED <<target, disabled, out, tarball, status, started>>

RestoreSources ==
  /\ step = "restore"
  /\ Restore(Generic \cup Cxx)
  /\ To("ninja_rt")
  /\ UNCHANGED <<target, ninja, out, tarball, status, started>>

Builds(lib, S) == out' = [out EXCEPT ![target][lib] = S]

(* ninja libclang-rt                                                         *)
BuildRt ==
  /\ step = "ninja_rt" /\ ninja.rt \cap disabled = {}
  /\ Builds("rt", ninja.rt)
  /\ To("make")
  /\ UNCHANGED <<target, disabled, ninja, tarball, status, started>>

(* make -e install                                                           *)
BuildMusl ==
  /\ step = "make"
  /\ Builds("libc", Present(Musl))
  /\ To("musl_on")
  /\ UNCHANGED <<target, disabled, ninja, tarball, status, started>>

RestoreMusl ==
  /\ step = "musl_on"
  /\ Restore(Musl)
  /\ To(IF target = "armv5" THEN "pack" ELSE "ninja_cpp")
  /\ UNCHANGED <<target, ninja, out, tarball, status, started>>

BuildCpp ==
  /\ step = "ninja_cpp" /\ ninja.cpp \cap disabled = {}
  /\ Builds("cpp", ninja.cpp)
  /\ To("pack")
  /\ UNCHANGED <<target, disabled, ninja, tarball, status, started>>

(* rm -f $TAR_FILE, which has its final name from the start.                 *)
RemoveTar ==
  /\ step = "pack"
  /\ tarball' = [tarball EXCEPT !.is = "gone"]
  /\ To("tar")
  /\ UNCHANGED <<target, disabled, ninja, out, status, started>>

(* tar -cJf of lib: of all targets.                                          *)
Pack ==
  /\ step = "tar"
  /\ tarball' = [is |-> "whole", for |-> target, lib |-> out]
  /\ To("idle") /\ status' = "ok"
  /\ UNCHANGED <<target, disabled, ninja, out, started>>

(* A tar that does not come to its end leaves what it has written.           *)
TarCutShort ==
  IF step = "tar"
  THEN \E b \in {"gone", "torn"} : tarball' = [tarball EXCEPT !.is = b]
  ELSE UNCHANGED tarball

(* Mutant: the last ninja is not followed by || exit 1.                      *)
OnError_GoesOn == IF step = "ninja_cpp" THEN "pack" ELSE "idle"

OnError == "idle"

(* A command that is followed by || exit 1 fails.                            *)
Fails ==
  /\ step \in {"libgcc", "configure", "ninja_rt", "make", "ninja_cpp", "tar"}
  /\ TarCutShort
  /\ To(OnError) /\ status' = "failed"
  /\ UNCHANGED <<target, disabled, ninja, out, started>>

(* The script is killed, in a mv after some of its files.                    *)
KillBuild ==
  /\ step # "idle"
  /\ \/ UNCHANGED disabled
     \/ step = "musl_off" /\ \E S \in SUBSET Musl : Moves(S)
     \/ step = "rt_off" /\ \E S \in SUBSET Overridden : Moves(S)
     \/ step = "cxx_off" /\ \E S \in SUBSET NotWanted : Moves(S)
     \/ step = "restore" /\ \E S \in SUBSET (Generic \cup Cxx) : Restore(S)
     \/ step = "musl_on" /\ \E S \in SUBSET Musl : Restore(S)
  /\ TarCutShort
  /\ To("idle") /\ status' = "failed"
  /\ UNCHANGED <<target, ninja, out, started>>

LibcNext ==
  \/ \E t \in Targets : StartBuild(t)
  \/ Prepare \/ DisableMusl \/ DisableRt \/ DisableCxx \/ ListSources
  \/ RestoreSources \/ BuildRt \/ BuildMusl \/ RestoreMusl \/ BuildCpp
  \/ RemoveTar \/ Pack \/ Fails \/ KillBuild

LibcSpec == LibcInit /\ [][LibcNext]_libcVars

-----------------------------------------------------------------------------
(* The script is at one of its commands and every source in one place.       *)
LibcTypes ==
  /\ target \in Targets /\ started \in 0..MaxBuilds
  /\ step \in {"idle", "libgcc", "musl_off", "configure", "rt_off", "cxx_off", "list",
             "restore", "ninja_rt", "make", "musl_on", "ninja_cpp", "pack", "tar"}
  /\ disabled \subseteq Musl \cup Overridden \cup NotWanted
  /\ ninja.rt \subseteq Generic /\ ninja.cpp \subseteq Cxx
  /\ tarball.is \in {"gone", "torn", "whole"} /\ tarball.for \in Targets
  /\ status \in {"none", "ok", "failed"}

(* Whatever earlier runs left in disabled/, a library is built from the      *)
(* right sources: libclang-rt never holds a builtin and its arm override,    *)
(* nor misses one that has none, libc never holds what libclang-rt           *)
(* overrides, and libcpp not the two files that must stay out.  That is so   *)
(* as long as no mv fails, which the script would not notice.                *)
RightSources ==
  /\ out["armv7"].rt \in {Missing, Generic \ Overridden}
  /\ out["armv7"].cpp \in {Missing, Cxx \ NotWanted}
  /\ \A t \in Targets : out[t].libc \in {Missing, {}}

(* A run that comes to its end repairs the source trees, if no mv fails:     *)
(* past its last mv nothing is left in a disabled/ directory that the        *)
(* target's script uses, although the mv that should repair them first moves *)
(* nothing.                                                                  *)
Repairs ==
  step \in {"pack", "tar"} =>
    disabled \cap (Musl \cup IF target = "armv7" THEN Generic \cup Cxx ELSE {}) = {}

(* All the libraries of target t are built.                                  *)
Complete(lib, t) ==
  /\ lib[t].libc # Missing
  /\ t = "armv7" => lib[t].rt # Missing /\ lib[t].cpp # Missing

(* A tar ball that is whole holds all the libraries of the target it was     *)
(* packed for, whatever runs failed before or after, and a run that ends     *)
(* with success has left one, of all that is in lib/.  A run that fails or   *)
(* is killed may leave none or a torn one, under the same name.              *)
PacksWhole ==
  /\ tarball.is = "whole" => Complete(tarball.lib, tarball.for)
  /\ status = "ok" => tarball = [is |-> "whole", for |-> target, lib |-> out]
=============================================================================
