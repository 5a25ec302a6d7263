------------------------------- MODULE Paths -------------------------------
(***************************************************************************)
(* The names in an archive, as paths below the directory it is unpacked    *)
(* to: clean_path (tools/stream/path.c) and the names of a tar header      *)
(* (tools/stream/container-tar.c).  A name is a sequence of characters;    *)
(* the reference works on its components and follows the links that were   *)
(* created before.                                                         *)
(***************************************************************************)
EXTENDS Naturals, Sequences, FiniteSets, SequencesExt

CONSTANTS
  Letters,    (* characters that mean nothing to a file system              *)
  MaxName,    (* bound: length of a name or a prefix                        *)
  Null        (* the null pointer                                           *)

(* Characters that mean something on Windows only.                           *)
Foreign == {":", "\\"}
Names == UNION {[1..n -> Letters \cup Foreign \cup {"/", "."}] : n \in 0..MaxName}

After(name, i) == SubSeq(name, i + 1, Len(name))
Slashes(name)  == {i \in DOMAIN name : name[i] = "/"}

Climbs(s) == s = <<".", ".">> \/ IsPrefix(<<".", ".", "/">>, s)

valid_path(name) ==
  /\ ToSet(name) \cap Foreign = {}
  /\ ~(name # << >> /\ name[1] = "/")
  /\ \A i \in {0} \cup Slashes(name) : ~Climbs(After(name, i))

(* The two names are put together, with nothing between them, and then       *)
(* checked.                                                                  *)
clean_path(name1, name2) ==
  LET ret == name1 \o name2
  IN  IF ret = << >> \/ ~valid_path(ret) THEN Null ELSE ret

(* What is behind the first slash, or nothing.                               *)
strip_top_dir(name) ==
  IF Slashes(name) = {} THEN << >>
  ELSE After(name, CHOOSE i \in Slashes(name) : \A j \in Slashes(name) : i <= j)

(* prefix is empty in a header that is not of the ustar kind.                *)
clean_tar_name(prefix, name) ==
  IF prefix # << >> THEN clean_path(strip_top_dir(prefix), name)
  ELSE clean_path(<< >>, strip_top_dir(name))

(* Mutant: ".." is a good target.                                            *)
BadTargets_NotUp == {<< >>, <<".">>}

BadTargets == {<< >>, <<".">>, <<".", ".">>}

clean_tar_linkname(lnk) ==
  IF lnk \in BadTargets \/ ToSet(lnk) \cap (Foreign \cup {"/"}) # {} THEN Null ELSE lnk

-----------------------------------------------------------------------------
(* The reference: where the file system ends up.  A walk has the directory   *)
(* it has come to, as a sequence of components, and the components that are  *)
(* still to follow; links maps the places of symbolic links to their         *)
(* targets.  Above is any place that is not below the directory.             *)

Above == << <<"/">> >>
Component(name, i) ==
  LET ends == {j \in Slashes(name) \cup {Len(name) + 1} : j > i}
  IN  SubSeq(name, i + 1, (CHOOSE j \in ends : \A k \in ends : j <= k) - 1)
Components(name) ==
  LET starts == SetToSortSeq({0} \cup Slashes(name), <)
  IN  [k \in DOMAIN starts |-> Component(name, starts[k])]

Step(w, links) ==
  LET c == Head(w.todo)
      at == Append(w.dir, c)
  IN  CASE w.dir = Above \/ w.todo = << >> -> w
        [] c \in {<< >>, <<".">>} -> [w EXCEPT !.todo = Tail(@)]
        [] c = <<".", ".">> ->
             [dir |-> IF w.dir = << >> THEN Above ELSE Front(w.dir), todo |-> Tail(w.todo)]
        [] at \in DOMAIN links -> [w EXCEPT !.todo = << links[at] >> \o Tail(@)]
        [] OTHER -> [dir |-> at, todo |-> Tail(w.todo)]

(* A walk that has components left after so many steps is in a loop.         *)
MaxSteps == 2 * MaxName + 4
Walk(comps, links) ==
  FoldLeft(LAMBDA w, i : Step(w, links), [dir |-> << >>, todo |-> comps],
           [i \in 1..MaxSteps |-> i]).dir

Accepted == {clean_tar_name(p, n) : p \in Names, n \in Names} \ {Null}
Targets  == {clean_tar_linkname(n) : n \in {m \in Names : Len(m) <= 2}} \ {Null}
Short(n) == {r \in Accepted : Len(r) <= n}

(* links with one more, as symlink(2) puts it there: its path goes through   *)
(* the links that exist, the last component does not.                        *)
Linked(links, name, target) ==
  LET comps == Components(name)
      at == Append(Walk(Front(comps), links), Last(comps))
  IN  [p \in DOMAIN links \cup {at} |-> IF p \in DOMAIN links THEN links[p] ELSE target]

(* Where the names lead, without links and with two of them.                 *)
Links ==
  {Linked(Linked(<< >>, n1, t1), n2, t2) :
     n1 \in Short(2), n2 \in Short(2), t1 \in Targets, t2 \in Targets}
Places ==
  {Walk(Components(path), << >>) : path \in Accepted}
    \cup {Walk(Components(path), links) : path \in Short(3), links \in Links}
=============================================================================
