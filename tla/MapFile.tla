------------------------------ MODULE MapFile ------------------------------
(***************************************************************************)
(* The text of download.done and download.hash, as test_map and update_map *)
(* (tools/download/download.c) read and write it: lines of a key, a comma  *)
(* and a value, read into a buffer of limited size.  Text is a sequence of *)
(* characters, a file a sequence of lines.  The reference is a function    *)
(* from keys to values.                                                    *)
(***************************************************************************)
EXTENDS Naturals, Sequences, SequencesExt

CONSTANT LineSize   (* sizeof(line): 256                                    *)

(* printf("%s,%s\n")                                                         *)
TextLine(key, val) == key \o <<",">> \o val \o <<"\n">>

(* Mutant: fgets is told one less.                                           *)
Fits_Less == LineSize - 2

Fits == LineSize - 1

(* What the calls of fgets get from one line.                                *)
Pieces(line) ==
  [i \in 1..((Len(line) + Fits - 1) \div Fits) |->
     SubSeq(line, (i - 1) * Fits + 1, IF i * Fits < Len(line) THEN i * Fits ELSE Len(line))]

Reads(file) == FlattenSeq([i \in DOMAIN file |-> Pieces(file[i])])

Blank == {" ", "\t"}
trim(s) ==
  LET from == {i \in DOMAIN s : s[i] \notin Blank}
      to   == {i \in DOMAIN s : s[i] \notin Blank \cup {"\r", "\n"}}
  IN  IF to = {} THEN << >>
      ELSE SubSeq(s, CHOOSE i \in from : \A j \in from : i <= j,
                     CHOOSE i \in to : \A j \in to : i >= j)

(* The tokens that strtok finds between commas.                              *)
Tokens(s) ==
  LET cuts == SetToSortSeq({0, Len(s) + 1} \cup {i \in DOMAIN s : s[i] = ","}, <)
  IN  SelectSeq([i \in 1..(Len(cuts) - 1) |-> SubSeq(s, cuts[i] + 1, cuts[i + 1] - 1)],
                LAMBDA f : f # << >>)

(* trim is called on the NULL that strtok returns when there is no second    *)
(* token.                                                                    *)
Crashes(piece) == Len(Tokens(piece)) < 2
Key(piece) == trim(Tokens(piece)[1])
Val(piece) == trim(Tokens(piece)[2])

test_map(file, key, val) ==
  LET stop == {i \in DOMAIN Reads(file) : Crashes(Reads(file)[i]) \/ Key(Reads(file)[i]) = key}
      piece == Reads(file)[CHOOSE i \in stop : \A j \in stop : i <= j]
  IN  IF stop = {} THEN "NOVAL"
      ELSE IF Crashes(piece) THEN "crash"
      ELSE IF Val(piece) = val THEN "MATCH" ELSE "MISMATCH"

update_map(file, key, val) ==
  LET others == SelectSeq(Reads(file), LAMBDA p : Key(p) # key)
  IN  [i \in DOMAIN others |-> TextLine(Key(others[i]), Val(others[i]))]
        \o << TextLine(key, val) >>

-----------------------------------------------------------------------------
(* The files that stand for a function m with none for a missing value: a    *)
(* line for each key that has one, in any order.                             *)
Texts(m, none, Spell(_)) ==
  LET keys == {k \in DOMAIN m : m[k] # none}
  IN  {[i \in DOMAIN order |-> TextLine(Spell(order[i]), Spell(m[order[i]]))] :
         order \in SetToSeqs(keys)}

(* test_map answers for such a file what m says, and update_map turns it     *)
(* into one that stands for the changed function.                            *)
ReadsBack(m, none, vals, Spell(_)) ==
  \A file \in Texts(m, none, Spell), k \in DOMAIN m, v \in vals :
    /\ test_map(file, Spell(k), Spell(v)) =
         (IF m[k] = none THEN "NOVAL" ELSE IF m[k] = v THEN "MATCH" ELSE "MISMATCH")
    /\ \A i \in DOMAIN Reads(file) : ~Crashes(Reads(file)[i])
    /\ update_map(file, Spell(k), Spell(v)) \in Texts([m EXCEPT ![k] = v], none, Spell)
=============================================================================
