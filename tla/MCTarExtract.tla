---------------------------- MODULE MCTarExtract ----------------------------
(* TarExtract for TLC, with blocks of 3 bytes, and the names of headers.     *)
EXTENDS TarExtract, Paths

(* What is unpacked lands below the directory that it is unpacked to: no     *)
(* name that clean_path accepts, put together from a prefix and a name or    *)
(* not, leads out of it, also by way of two links with targets that          *)
(* clean_tar_linkname accepts, however these lead to each other.             *)
LandsInside == files # << >> => Above \notin Places

(* What the proofs about TarExtract ask of the archives holds of these.      *)
ASSUME MCQuiet == Quiet

E(t, n) == [type |-> t, size |-> n, named |-> TRUE, within |-> {"to"}]

(* An entry one directory down.                                              *)
Down(e) == [e EXCEPT !.within = {"to", "lib"}]

(* A file with padding, and one that fills its block.                        *)
Plain == <<E("reg", 4), E("reg", 3)>>

(* A link in the directory of a file that is empty, in front of an entry     *)
(* for a directory; and a link whose directory comes with a later file.      *)
WithLink == <<Down(E("reg", 0)), Down(E("link", 0)), E("other", 0), E("reg", 2)>>
LinkAhead == <<E("reg", 1), Down(E("link", 0)), Down(E("reg", 1))>>

(* Names that clean_tar_name or clean_tar_linkname refuses.                  *)
Refused(e) == [e EXCEPT !.named = FALSE]
BadFile == <<E("reg", 1), Refused(E("reg", 1)), E("reg", 1)>>
BadLink == <<E("reg", 2), Refused(E("link", 0)), E("reg", 1)>>

PlainOnly  == {Plain}
MCArchives == {Plain, WithLink, LinkAhead, BadFile, BadLink}

(* An extended header, whose payload names the file behind it.               *)
Extended == {<<E("other", 2), E("reg", 4), E("link", 0), E("reg", 3)>>}
=============================================================================
