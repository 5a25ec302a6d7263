--------------------------- MODULE MCHttpDownload ---------------------------
(* HttpDownload for TLC: urls a and b of one site, c of another, and ftp,    *)
(* whose scheme the client does not know.                                    *)
EXTENDS HashedDownload, TLC

CONSTANTS a, b, c, ftp, here, there

MCSite == (a :> here) @@ (b :> here) @@ (c :> there) @@ (ftp :> None)

Response(n, l, u, data) ==
  [code |-> n, other |-> << Byte("other", 0) >>, location |-> u, length |-> l, body |-> data]

Ok(n)           == Response(200, n, None, Body)
Moved(to, page) == Response(302, Len(page), to, page)
Gone(n)         == Response(n, 0, None, << >>)
Page            == << Byte("text", 0) >>

(* A response with a header line that is too long.                           *)
Overlong(r) == [r EXCEPT !.other = [i \in 1..(MaxLine + 4) |-> Byte("other", i)]]

(* Redirects that come back to where they began; the site of a and b sends   *)
(* pages only with redirects that leave it.  One response is longer than it  *)
(* says.                                                                     *)
Loops == [u \in Urls |->
            CASE u = a   -> {Moved(b, << >>), Moved(c, Page), Moved(ftp, << >>)}
              [] u = b   -> {Moved(a, << >>), Ok(Size), Ok(-1), Gone(404)}
              [] u = c   -> {Moved(a, Page), Ok(Size), Ok(Size - 1), Overlong(Ok(Size)),
                          Gone(302), Gone(204)}
              [] u = ftp -> {}]

(* One redirect to another site, then the file.                              *)
Plain == [u \in Urls |-> IF u = c THEN {Ok(Size)} ELSE {Moved(c, Page)}]

(* A redirect inside the site, with a page for those who look at it.         *)
WithPage == [u \in Urls |-> IF u = b THEN {Ok(Size)} ELSE {Moved(b, Page)}]

(* What the proofs take for granted of the servers, WithPage is not like.    *)
ASSUME MCServed == Web # WithPage => WellServed
=============================================================================
