---------------------------- MODULE MCDownloader ----------------------------
(* Instances of Downloader for TLC: two processes, two paths, an http url, a *)
(* file url and, in some manifests, a url of an unknown scheme.              *)
EXTENDS Downloader, MapFile, TLC

CONSTANTS p1, p2, a, b, c, web, web2, loc, odd

(* Paths and urls as text, the longest line as long as the buffer allows; a  *)
(* value that was cut is a beginning of web's.                               *)
Spell(x) == CASE x = a -> <<"a">>
              [] x = b -> <<"a", "b">>
              [] x = web -> <<"b", " ", "a">>
              [] x = loc -> <<"a">>
              [] x = Cut -> <<"b">>
              [] OTHER -> <<"c">>

Kept == [m \in [Paths -> Urls \cup {None, Cut}] |->
           ReadsBack(m, None, Urls, Spell)]

(* The text of download.done keeps what the function done stands for: a line *)
(* that update_map wrote is read back by test_map in one piece, up to the    *)
(* longest that the buffer holds, a key that another begins with is not      *)
(* taken for it, and the lines of other keys are copied as they are.         *)
TextIsMap == Kept[done]

Perms == Permutations({p1, p2})

MCScheme == [u \in Urls |-> CASE u \in {web, web2} -> "http"
                              [] u = loc -> "file"
                              [] OTHER -> "other"]

Item(x, u) == [kind |-> "item", path |-> x, url |-> u]
Other(k)   == [kind |-> k, path |-> a, url |-> web]

(* A manifest with a line of every kind that is skipped.                     *)
TwoItems == {<<Other("comment"), Item(a, web), Other("foreign"), Item(b, loc)>>}

(* Two paths that come from one url.                                         *)
SharedUrl == {<<Item(a, web), Item(b, web)>>}

(* The same, with a path from another url between them.                      *)
SplitUrl == {<<Item(a, web), Item(b, web2), Item(c, web)>>}

(* Manifests that end a run early.                                           *)
BadLines == {<<Item(a, web), Item(b, odd)>>, <<Item(a, loc), Other("invalid")>>}

AllKinds == TwoItems \cup BadLines

(* A manifest before and after a url is changed.                             *)
Versions == {<<Item(a, web)>>, <<Item(a, web2)>>}

Pin(u)   == [url |-> u, ver |-> 1, full |-> TRUE]
AllPins  == [u \in Urls |-> IF MCScheme[u] = "http" THEN Pin(u) ELSE None]
NoPins   == [u \in Urls |-> None]
=============================================================================
