---------------------------- MODULE HttpDownload ----------------------------
(***************************************************************************)
(* The http client stream (tools/stream/source-http.c): the requests and   *)
(* redirects of open_http_downloader, the header lines that get_line takes *)
(* from the buffer, and read_https, which implements module Stream on the  *)
(* body of the last response.                                              *)
(*                                                                         *)
(* A byte is a record of a kind and a value.  A header line is one byte    *)
(* that stands for its text and one that stands for its newline, so that a *)
(* line can arrive in pieces.  TLS carries the same bytes.                 *)
(***************************************************************************)
EXTENDS Integers, Sequences

CONSTANTS
  Urls, Sites, None,
  First,       (* the url that is asked for                                 *)
  Site,        (* scheme, host and port of a url; None if not http(s)       *)
  Web,         (* the responses a url may get                               *)
  Size,        (* bytes in the body of a 200 response                       *)
  Needs,       (* values callers pass for need                              *)
  Chunk,       (* what the buffer grows by: 32K                             *)
  MaxLine,     (* header lines without an end after this many bytes: 512    *)
  MaxRedirects,(* 5                                                         *)
  Max64,       (* INT64_MAX                                                 *)
  Width,       (* 2^64, for size_t                                          *)
  ReqSize,     (* length of a request                                       *)
  FaultSets    (* what may go wrong together: subsets of Faults             *)

Faults == {"connect", "send", "hangup", "alloc"}

Fields == {"status", "nl", "other", "length", "body", "text"}
Bytes == [kind : Fields, value : Int] \cup [kind : {"location"}, value : Urls]
Responses == [code : Int, other : Seq(Bytes), location : Urls \cup {None}, length : Int,
              body : Seq(Bytes)]
ASSUME HttpConstants ==
  /\ First \in Urls /\ Site \in [Urls -> Sites \cup {None}] /\ None \notin Sites
  /\ Web \in [Urls -> SUBSET Responses]
  /\ Size \in Nat /\ Needs \subseteq Nat /\ Chunk \in Nat \ {0}
  /\ MaxLine \in Nat /\ MaxRedirects \in Nat \ {0} /\ ReqSize \in Nat \ {0}
  /\ FaultSets \subseteq SUBSET Faults
  /\ Max64 \in Nat /\ Width \in Nat /\ Size < Max64 /\ Max64 < Width

VARIABLES
  faults,           (* what may go wrong in this run                        *)
  url, redirects,
  host,             (* where the socket goes; None before the first connect *)
  sent,             (* which bytes of the request went out, in order        *)
  wire, hung,       (* bytes on their way here; the peer has closed         *)
  buf, bufsz,       (* the first avail bytes of os->buf, and its size       *)
  consumed, length_remaining,
  need, line_len,   (* of the read_https or get_line under way              *)
  code, content_length, location,
  task,             (* "status", "fields" or "body": what is read now       *)
  pc,
  view, len,        (* what the last read returned to the caller            *)
  pos, failed       (* history: bytes the caller took; a read went to err   *)

conn    == <<faults, host, wire, hung>>
buffer  == <<buf, bufsz, consumed, length_remaining>>
headers == <<code, content_length, location>>
caller  == <<view, len, pos, failed>>
vars == <<url, redirects, sent, conn, buffer, need, line_len, headers, task,
          pc, caller>>

avail == Len(buf)
Empty == [i \in 0..(0 - 1) |-> 0]

Byte(k, v) == [kind |-> k, value |-> v]
Nl == Byte("nl", Size)

(* What the server writes for response r; other is a field the client does   *)
(* not know.                                                                 *)
Written(r) ==
  << Byte("status", r.code), Nl >> \o r.other \o << Nl >>
    \o (IF r.location # None THEN << Byte("location", r.location), Nl >> ELSE << >>)
    \o (IF r.length >= 0 THEN << Byte("length", r.length), Nl >> ELSE << >>)
    \o << Nl >> \o r.body

Body == [i \in 1..Size |-> Byte("body", i - 1)]

(* The answer to a request that makes no sense.                              *)
BadRequest ==
  [code |-> 400, other |-> << Byte("other", 0) >>, location |-> None, length |-> 0,
   body |-> << >>]

Init ==
  /\ faults \in FaultSets
  /\ url = First /\ redirects = 0
  /\ host = None /\ wire = << >> /\ hung = FALSE /\ sent = << >>
  /\ buf = << >> /\ bufsz = 0 /\ consumed = 0 /\ length_remaining = 0
  /\ need = 0 /\ line_len = 0
  /\ code = 0 /\ content_length = -1 /\ location = None
  /\ task = "status" /\ pc = "url"
  /\ view = Empty /\ len = 0 /\ pos = 0 /\ failed = FALSE

-----------------------------------------------------------------------------
(* One turn of open_http_downloader's loop: connect and send the request.    *)

Err ==
  /\ pc' = "err"
  /\ UNCHANGED <<url, sent, conn, buffer, need, line_len, headers, task, caller>>

(* Mutant: turns are not counted.                                            *)
Turns_Same == redirects

Turns == redirects + 1

(* Too many redirects, an unknown scheme, or no connection.                  *)
GiveUp ==
  /\ pc = "url"
  /\ redirects' = Turns
  /\ \/ redirects' = MaxRedirects
     \/ Site[url] = None
     \/ "connect" \in faults /\ Site[url] # host
  /\ Err

CanAsk == Turns # MaxRedirects /\ Site[url] # None

(* The new url is on the host we are connected to.                           *)
Reuse ==
  /\ pc = "url"
  /\ redirects' = Turns
  /\ CanAsk /\ Site[url] = host
  /\ sent' = << >>
  /\ pc' = "send"
  /\ UNCHANGED <<url, conn, buffer, need, line_len, headers, task, caller>>

(* Mutant: what the old connection left in the buffer stays.                 *)
Emptied_Not == UNCHANGED <<buf, consumed>>

Emptied == buf' = << >> /\ consumed' = 0

Connect ==
  /\ pc = "url"
  /\ redirects' = Turns
  /\ CanAsk /\ Site[url] # host
  /\ host' = Site[url] /\ wire' = << >> /\ hung' = FALSE /\ UNCHANGED faults
  /\ Emptied
  /\ sent' = << >>
  /\ pc' = "send"
  /\ UNCHANGED <<url, bufsz, length_remaining, need, line_len, headers, task, caller>>

(* send takes w bytes.  The loop does not move p on, so that what is left is *)
(* counted right and taken from the start of the request again.              *)
Send ==
  /\ pc = "send"
  /\ \E w \in 1..(ReqSize - Len(sent)) :
       /\ w < ReqSize - Len(sent) => "send" \in faults
       /\ sent' = sent \o [i \in 1..w |-> i]
  /\ pc' = IF Len(sent') = ReqSize THEN "line" ELSE "send"
  /\ task' = "status" /\ line_len' = 0
  /\ UNCHANGED <<url, redirects, conn, buffer, need, headers, caller>>

SendFails ==
  /\ pc = "send"
  /\ hung
  /\ Err
  /\ UNCHANGED redirects

-----------------------------------------------------------------------------
(* The other side of the connection.                                         *)

Answer ==
  /\ ~hung /\ Len(sent) = ReqSize
  /\ \E r \in IF sent = [i \in 1..ReqSize |-> i] THEN Web[url] ELSE {BadRequest} :
       wire' = wire \o Written(r)
  /\ sent' = << >>
  /\ UNCHANGED <<url, redirects, faults, host, hung, buffer, need, line_len, headers,
                 task, pc, caller>>

HangUp ==
  /\ "hangup" \in faults
  /\ host # None /\ ~hung
  /\ hung' = TRUE
  /\ \E n \in 0..Len(wire) : wire' = SubSeq(wire, 1, n)
  /\ UNCHANGED <<url, redirects, faults, host, sent, buffer, need, line_len, headers,
                 task, pc, caller>>

-----------------------------------------------------------------------------
(* read_https: the loop that receives until need bytes are in the buffer.    *)

Rest == SubSeq(buf, consumed + 1, avail)

(* Mutant: need is not limited.                                              *)
Goal_Unlimited == need

(* need, limited to what is left of the body.  After an error what is left   *)
(* goes below zero and need wraps around.                                    *)
Goal == IF need > length_remaining THEN length_remaining % Width ELSE need

(* Mutant: consumed is not set back.                                         *)
Front_Kept == consumed

Front == 0

(* The buffer is compressed before the loop.                                 *)
Compress ==
  /\ buf' = Rest /\ consumed' = Front
  /\ pc' = "recv"

(* *plen and what it points to.                                              *)
ReturnFrom(b, c) ==
  /\ len' = Len(b) - c
  /\ view' = [i \in 0..(Len(b) - c - 1) |-> b[c + i + 1].value]
  /\ pc' = "idle"

(* err: get_line sees no bytes and asks again.                               *)
ReadFails ==
  /\ length_remaining' = 0
  /\ IF task = "body"
       THEN pc' = "idle" /\ failed' = TRUE /\ UNCHANGED line_len
       ELSE pc' = "line" /\ line_len' = 0 /\ UNCHANGED failed
  /\ UNCHANGED <<view, len, pos>>

Grown == IF avail = bufsz THEN bufsz + Chunk ELSE bufsz

Recv ==
  /\ pc = "recv"
  /\ bufsz' = Grown
  /\ \E r \in 1..Len(wire) :
       /\ r <= Grown - avail
       /\ buf' = buf \o SubSeq(wire, 1, r)
       /\ wire' = SubSeq(wire, r + 1, Len(wire))
  /\ \/ /\ Len(buf') > length_remaining
        /\ ReadFails
     \/ /\ Len(buf') <= length_remaining /\ Len(buf') < Goal
        /\ UNCHANGED <<length_remaining, line_len, pc, caller>>
     \/ /\ Len(buf') <= length_remaining /\ Len(buf') >= Goal
        /\ IF task = "body" THEN ReturnFrom(buf', 0)
                            ELSE pc' = "line" /\ UNCHANGED <<view, len>>
        /\ UNCHANGED <<length_remaining, line_len, pos, failed>>
  /\ UNCHANGED <<url, redirects, faults, host, sent, hung, consumed, need, headers, task>>

(* recv returns 0 or an error, or realloc fails.                             *)
RecvFails ==
  /\ pc = "recv"
  /\ \/ /\ hung /\ wire = << >>
        /\ bufsz' = Grown
     \/ /\ "alloc" \in faults /\ avail = bufsz
        /\ UNCHANGED bufsz
  /\ ReadFails
  /\ UNCHANGED <<url, redirects, conn, sent, buf, consumed, need, headers, task>>

-----------------------------------------------------------------------------
(* get_line, and what open_http_downloader does with the line.  The window   *)
(* read_https returned is still Rest when it is searched here.               *)

Served == consumed + line_len + 1 <= avail

LineWaits ==
  /\ pc = "line"
  /\ ~Served
  /\ length_remaining' = Max64
  /\ need' = line_len + 1
  /\ Compress
  /\ UNCHANGED <<url, redirects, conn, sent, bufsz, line_len, headers, task, caller>>

Ends(w) == {i \in DOMAIN w : w[i] = Nl}

LineGoesOn ==
  /\ pc = "line" /\ Served /\ Ends(Rest) = {}
  /\ IF Len(Rest) > MaxLine
       THEN Err /\ UNCHANGED redirects
       ELSE /\ line_len' = Len(Rest)
            /\ UNCHANGED <<url, redirects, conn, sent, buffer, need, headers,
                           task, pc, caller>>

(* The window has its first end of line at i.                                *)
LineEnds(i) ==
  /\ pc = "line" /\ Served
  /\ i \in Ends(Rest) /\ \A j \in Ends(Rest) : i <= j

Line(i) == SubSeq(Rest, 1, i - 1)
IsField(l, kind) == Len(l) = 1 /\ l[1].kind = kind

Codes == {0, 200, 302, 404}
NoCode == -1

(* A line that is not a status line may have anything behind a blank.        *)
CodesIn(l) ==
  IF IsField(l, "status") THEN {l[1].value} ELSE Codes \cup {NoCode}

StatusLine(i) ==
  /\ task = "status" /\ LineEnds(i)
  /\ consumed' = consumed + i /\ line_len' = 0 /\ length_remaining' = Max64
  /\ \E c \in CodesIn(Line(i)) :
       \/ /\ c = NoCode \/ c \div 100 > 3
          /\ pc' = "err"
          /\ UNCHANGED <<headers, task>>
       \/ /\ c # NoCode /\ c \div 100 <= 3
          /\ code' = c /\ content_length' = -1 /\ location' = None
          /\ task' = "fields"
          /\ UNCHANGED pc
  /\ UNCHANGED <<url, redirects, conn, sent, buf, bufsz, need, caller>>

Field(i) ==
  /\ task = "fields" /\ LineEnds(i) /\ i > 1
  /\ consumed' = consumed + i /\ line_len' = 0 /\ length_remaining' = Max64
  /\ LET l == Line(i)
     IN  /\ content_length' = IF IsField(l, "length") THEN l[1].value ELSE content_length
         /\ location' = IF IsField(l, "location") THEN l[1].value ELSE location
  /\ UNCHANGED <<url, redirects, conn, sent, buf, bufsz, need, code, task, pc, caller>>

(* The empty line: the switch over the code.                                 *)
EndOfFields(i) ==
  /\ task = "fields" /\ LineEnds(i) /\ i = 1
  /\ consumed' = consumed + i /\ line_len' = 0 /\ need' = 0
  /\ \/ /\ code = 302 /\ location # None
        /\ url' = location
        /\ pc' = "url" /\ length_remaining' = Max64
        /\ UNCHANGED task
     \/ /\ code = 200 /\ content_length >= 0
        /\ length_remaining' = content_length
        /\ task' = "body" /\ pc' = "idle"
        /\ UNCHANGED url
     \/ /\ ~(code = 302 /\ location # None) /\ ~(code = 200 /\ content_length >= 0)
        /\ pc' = "err" /\ length_remaining' = Max64
        /\ UNCHANGED <<url, task>>
  /\ UNCHANGED <<redirects, conn, sent, buf, bufsz, headers, caller>>

-----------------------------------------------------------------------------
(* read_https for the caller.                                                *)

Call(consume, n) ==
  /\ pc = "idle"
  /\ consume \in 0..len
  /\ consumed' = consumed + consume
  /\ length_remaining' = length_remaining - consume
  /\ need' = n
  /\ view' = Empty /\ len' = 0 /\ pos' = pos + consume
  /\ pc' = "entry"
  /\ UNCHANGED <<url, redirects, conn, sent, buf, bufsz, line_len, headers, task, failed>>

(* Mutants: any bytes in the buffer will do; one less will do.               *)
InBuffer_Some == consumed < avail
InBuffer_Less == (consumed + Goal) % Width <= avail + 1

InBuffer == (consumed + Goal) % Width <= avail

Service ==
  /\ pc = "entry" /\ InBuffer
  /\ ReturnFrom(buf, consumed)
  /\ UNCHANGED <<url, redirects, conn, sent, buffer, need, line_len, headers, task, pos, failed>>

Fetch ==
  /\ pc = "entry" /\ ~InBuffer
  /\ Compress
  /\ UNCHANGED <<url, redirects, conn, sent, bufsz, length_remaining, need, line_len,
                 headers, task, caller>>

-----------------------------------------------------------------------------

(* What the program does by itself.                                          *)
Step ==
  \/ GiveUp \/ Reuse \/ Connect \/ Send \/ SendFails
  \/ LineWaits \/ LineGoesOn
  \/ \E i \in 1..avail : StatusLine(i) \/ Field(i) \/ EndOfFields(i)
  \/ Service \/ Fetch \/ Recv \/ RecvFails

Next ==
  \/ Step
  \/ \E consume \in 0..len, n \in Needs : Call(consume, n)
  \/ Answer \/ HangUp

Spec == Init /\ [][Next]_vars

(* The program runs on, and a server that is asked answers.                  *)
FairSpec == Spec /\ WF_vars(Step) /\ WF_vars(Answer)

-----------------------------------------------------------------------------
(* Properties.                                                               *)

(* Every variable of the client has its type, and the window lies inside the *)
(* buffer.                                                                   *)
TypeOK ==
  /\ url \in Urls /\ redirects \in 0..MaxRedirects /\ host \in Sites \cup {None}
  /\ hung \in BOOLEAN /\ failed \in BOOLEAN
  /\ bufsz \in Nat /\ avail <= bufsz /\ consumed \in 0..avail
  /\ length_remaining \in Int /\ length_remaining <= Max64
  /\ need \in Nat /\ line_len \in Nat /\ len \in 0..avail /\ pos \in 0..Size
  /\ location \in Urls \cup {None} /\ content_length \in Int
  /\ task \in {"status", "fields", "body"}
  /\ pc \in {"url", "send", "line", "recv", "idle", "entry", "err"}

(* What servers are taken to do where a proof needs it: the field that the   *)
(* client does not know is a line of its own and none of those it knows, a   *)
(* redirect that stays on its site has no page, a 200 response carries the   *)
(* file whatever length it announces, the length is what strtoll can return, *)
(* and a response fits in memory.                                            *)
WellServed ==
  \A u \in Urls : \A r \in Web[u] \cup {BadRequest} :
    /\ r.other # << >> /\ \A i \in DOMAIN r.other : r.other[i].kind = "other"
    /\ r.code = 302 /\ r.location # None /\ Site[r.location] = Site[u] => r.body = << >>
    /\ r.code = 200 => r.body = Body
    /\ r.length <= Max64
    /\ Len(Written(r)) + Size < Width

(* The connection is read in step with the requests: when the status line of *)
(* a response is read, the next byte is the first of that response.  The     *)
(* code takes for granted that it can reuse the connection at a redirect.    *)
InStep ==
  task = "status" /\ pc = "line" =>
    LET next == Rest \o wire
    IN  next # << >> => next[1].kind = "status"

(* open_http_downloader comes back, with a stream or without: an error while *)
(* the headers are read ends it, as the "error on read" of read_https        *)
(* suggests.                                                                 *)
OpenReturns == <>(pc \in {"idle", "err"})

(* The same as long as no read fails while header lines are read: redirects  *)
(* are followed a limited number of times, overlong lines are refused, and a *)
(* connection that cannot be made or a request that is cut is an error.      *)
RedirectsEnd == faults \cap {"hangup", "alloc"} = {} => OpenReturns

(* read_https comes back to its caller, also after errors.                   *)
ReadReturns == (pc = "entry") ~> (pc = "idle")

(* The response at hand is a body that is as long as its header says.        *)
Honest == task = "body" /\ content_length = Size

S == INSTANCE Stream WITH
       Total  <- Size,
       call   <- IF Honest /\ pc # "idle" THEN "busy" ELSE "idle",
       want   <- IF Honest THEN need ELSE 0,
       view   <- IF Honest THEN view ELSE Empty,
       len    <- IF Honest THEN len ELSE 0,
       pos    <- IF Honest THEN pos ELSE 0,
       failed <- Honest /\ failed

(* Once the headers are read the stream is the body: its windows are the     *)
(* bytes of the body in order, wherever the headers ended in the buffer, and *)
(* a connection that breaks off is an error and never the end of the data.   *)
(* This is for responses that are as long as they say; what read_https does  *)
(* with bytes behind the announced length depends on when they arrive.       *)
ImplementsStream == S!Spec
=============================================================================
