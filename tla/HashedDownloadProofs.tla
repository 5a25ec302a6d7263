------------------------ MODULE HashedDownloadProofs ------------------------
(***************************************************************************)
(* The digest that read_hash makes is that of download.tmp: for any server *)
(* and responses, also ones that lie about their length, any way the bytes *)
(* arrive, and whatever fails.  The invariant HInv ties the window that    *)
(* extract_file writes out to the place in the buffer of the http stream   *)
(* that read_hash still points to when the next read is called.            *)
(*                                                                         *)
(* For servers that are WellServed the client stays in step with the       *)
(* responses, its stream is the body, and an end that extract_file sees    *)
(* without an error is the end of the body.  The invariant AInv follows    *)
(* every byte from the server to the caller: what is on the wire and in    *)
(* the buffer is always a stretch of one response, and the part of it that *)
(* is being read tells where the stretch begins.                           *)
(***************************************************************************)
EXTENDS HashedDownload, SequenceTheorems, TLAPS

USE SMTT(30)

(* The buffer and the connection are sequences of bytes, and the window      *)
(* that was returned last is still in the buffer.                            *)
Shape ==
  /\ buf \in Seq(Bytes) /\ wire \in Seq(Bytes) /\ url \in Urls
  /\ location \in Urls \cup {None}
  /\ consumed \in Nat /\ consumed <= avail /\ len \in Nat

Pointing ==
  /\ pc # "idle" => len = 0
  /\ pc = "recv" => consumed = 0
  /\ pc = "idle" => /\ len <= avail - consumed
                    /\ \A i \in 0..(len - 1) : view[i] = buf[consumed + i + 1].value

Digest ==
  /\ copy = "begin" => hashed = << >> /\ tmp = << >>
  /\ copy \in {"copying", "ended"} => hashed = tmp

HInv == Shape /\ Pointing

LEMMA InitInv == HashInit => HInv /\ Digest
BY HttpConstants DEF HashInit, Init, HInv, Shape, Pointing, Digest, avail

LEMMA ByteOK ==
  /\ \A k \in Fields, v \in Int : Byte(k, v) \in Bytes
  /\ \A v \in Urls : Byte("location", v) \in Bytes
BY Zenon DEF Byte, Bytes

(* What the server writes are bytes.                                         *)
LEMMA WrittenBytes ==
  ASSUME NEW r \in Responses
  PROVE  Written(r) \in Seq(Bytes)
<1>1. /\ r.code \in Int /\ r.other \in Seq(Bytes) /\ r.location \in Urls \cup {None}
      /\ r.length \in Int /\ r.body \in Seq(Bytes)
  BY Zenon DEF Responses
<1>2. Nl \in Bytes /\ Byte("status", r.code) \in Bytes /\ Byte("length", r.length) \in Bytes
  BY <1>1, ByteOK, HttpConstants DEF Nl, Fields
<1>3. r.location # None => Byte("location", r.location) \in Bytes
  BY <1>1, ByteOK, Zenon
<1> DEFINE s1 == << Byte("status", r.code), Nl >>
           s2 == IF r.location # None THEN << Byte("location", r.location), Nl >> ELSE << >>
           s3 == IF r.length >= 0 THEN << Byte("length", r.length), Nl >> ELSE << >>
<1>4. s1 \in Seq(Bytes) /\ s2 \in Seq(Bytes) /\ s3 \in Seq(Bytes) /\ << Nl >> \in Seq(Bytes)
  BY <1>2, <1>3
<1>5. Written(r) = s1 \o r.other \o << Nl >> \o s2 \o s3 \o << Nl >> \o r.body
  BY Zenon DEF Written
<1> HIDE DEF s1, s2, s3
<1>6. s1 \o r.other \o << Nl >> \in Seq(Bytes)
  BY <1>1, <1>4, ConcatProperties, Zenon
<1>7. s1 \o r.other \o << Nl >> \o s2 \o s3 \in Seq(Bytes)
  BY <1>6, <1>4, ConcatProperties, Zenon
<1>8. QED
  BY <1>1, <1>4, <1>5, <1>7, ConcatProperties

LEMMA BadRequestOK == BadRequest \in Responses
<1>1. Byte("other", 0) \in Bytes
  BY ByteOK DEF Fields
<1>2. << Byte("other", 0) >> \in Seq(Bytes) /\ << >> \in Seq(Bytes)
  BY <1>1
<1>3. QED
  BY <1>2 DEF BadRequest, Responses

-----------------------------------------------------------------------------
LEMMA RestBytes ==
  ASSUME Shape
  PROVE  /\ Rest \in Seq(Bytes) /\ Len(Rest) = avail - consumed
         /\ \A i \in 1..(avail - consumed) : Rest[i] = buf[consumed + i]
<1>1. buf \in Seq(Bytes) /\ avail \in Nat /\ avail = Len(buf)
      /\ consumed \in Nat /\ consumed <= avail
  BY DEF Shape, avail
<1>2. Rest = [i \in 1..(avail - consumed) |-> buf[consumed + i]]
  BY <1>1 DEF Rest
<1>3. \A i \in 1..(avail - consumed) : buf[consumed + i] \in Bytes
  BY <1>1
<1>4. QED
  BY <1>1, <1>2, <1>3

(* The steps that leave the buffer and the caller's window alone, and go     *)
(* from one place before the stream is open to another.                      *)
LEMMA Quiet ==
  ASSUME HInv, pc # "idle", pc' \notin {"idle", "recv"},
         UNCHANGED <<url, location, buf, consumed, wire, len>>
  PROVE  HInv'
BY Zenon DEF HInv, Shape, Pointing, avail

LEMMA ServerStep ==
  ASSUME HInv, Answer \/ HangUp
  PROVE  HInv'
<1>0. wire \in Seq(Bytes) /\ url \in Urls
  BY Zenon DEF HInv, Shape
<1>1. wire' \in Seq(Bytes)
  <2>1. CASE Answer
    <3>1. PICK r \in IF sent = [i \in 1..ReqSize |-> i] THEN Web[url] ELSE {BadRequest} :
            wire' = wire \o Written(r)
      BY <2>1, Zenon DEF Answer
    <3>2. r \in Responses
      <4>1. Web[url] \subseteq Responses
        BY <1>0, HttpConstants, Zenon
      <4>2. QED
        BY <4>1, BadRequestOK, Zenon
    <3>3. QED
      BY <1>0, <3>1, <3>2, WrittenBytes, ConcatProperties, Zenon
  <2>2. CASE HangUp
    <3>1. PICK n \in 0..Len(wire) : wire' = SubSeq(wire, 1, n)
      BY <2>2, Zenon DEF HangUp
    <3>2. QED
      BY <1>0, <3>1
  <2>3. QED
    BY <2>1, <2>2, Zenon
<1>2. UNCHANGED <<url, location, buf, consumed, pc, view, len>>
  BY Zenon DEF Answer, HangUp, buffer, headers, caller
<1>3. QED
  BY <1>1, <1>2, Zenon DEF HInv, Shape, Pointing, avail

LEMMA CallStep ==
  ASSUME HInv, NEW c \in 0..len, NEW n, Call(c, n)
  PROVE  HInv'
<1>1. avail \in Nat /\ consumed \in Nat /\ len \in Nat /\ len <= avail - consumed
  BY DEF HInv, Shape, Pointing, Call, avail
<1>2. consumed' \in Nat /\ consumed' <= avail
  BY <1>1 DEF Call
<1>3. UNCHANGED <<url, location, buf, wire>> /\ pc' = "entry" /\ len' = 0
  BY Zenon DEF Call, conn, headers
<1>4. QED
  BY <1>2, <1>3, Zenon DEF HInv, Shape, Pointing, avail

(* Before the headers: nothing but the buffer changes, if anything.          *)
LEMMA OpenStep ==
  ASSUME HInv, GiveUp \/ Reuse \/ Connect \/ Send \/ SendFails
  PROVE  HInv'
<1>1. CASE Connect
  BY <1>1 DEF Connect, Emptied, headers, caller, HInv, Shape, Pointing, avail
<1>2. ASSUME GiveUp \/ Reuse \/ Send \/ SendFails
      PROVE  /\ pc # "idle" /\ pc' \notin {"idle", "recv"}
             /\ UNCHANGED <<url, location, buf, consumed, wire, len>>
  BY <1>2, Zenon DEF GiveUp, Reuse, Send, SendFails, Err, conn, buffer, headers, caller
<1>3. QED
  BY <1>1, <1>2, Quiet, Zenon

(* Compressing the buffer.                                                   *)
LEMMA CompressStep ==
  ASSUME HInv, LineWaits \/ Fetch
  PROVE  HInv'
<1>1. /\ buf' = Rest /\ consumed' = 0 /\ pc' = "recv" /\ pc # "idle"
      /\ UNCHANGED <<url, location, wire, len>>
  BY Zenon DEF LineWaits, Fetch, Compress, Front, conn, headers, caller
<1>2. Rest \in Seq(Bytes) /\ Len(Rest) \in Nat
  BY RestBytes DEF HInv
<1>3. QED
  BY <1>1, <1>2 DEF HInv, Shape, Pointing, avail

(* A line is taken from the window, at most to its end.                      *)
LEMMA LineTaken ==
  ASSUME HInv, NEW i, LineEnds(i), consumed' = consumed + i, UNCHANGED buf
  PROVE  consumed' \in Nat /\ consumed' <= avail'
<1>1. Rest \in Seq(Bytes) /\ Len(Rest) = avail - consumed /\ avail \in Nat
      /\ consumed \in Nat
  BY RestBytes DEF HInv, Shape, avail
<1>2. i \in 1..(avail - consumed)
  BY <1>1 DEF LineEnds, Ends
<1>3. QED
  BY <1>1, <1>2 DEF avail

LEMMA LineStep ==
  ASSUME HInv, NEW i, StatusLine(i) \/ Field(i) \/ EndOfFields(i)
  PROVE  HInv'
<1>0. /\ LineEnds(i) /\ consumed' = consumed + i /\ pc = "line" /\ pc' # "recv"
      /\ UNCHANGED <<buf, wire, len>>
  BY Zenon DEF StatusLine, Field, EndOfFields, LineEnds, conn, caller
<1>1. consumed' \in Nat /\ consumed' <= avail'
  BY <1>0, LineTaken, Zenon
<1>2. len = 0
  BY <1>0, Zenon DEF HInv, Pointing
<1>3. url' \in Urls /\ location' \in Urls \cup {None}
  <2>0. url \in Urls /\ location \in Urls \cup {None}
    BY Zenon DEF HInv, Shape
  <2>1. CASE StatusLine(i)
    BY <2>0, <2>1, Zenon DEF StatusLine, headers
  <2>2. CASE EndOfFields(i)
    BY <2>0, <2>2, Zenon DEF EndOfFields, headers
  <2>3. CASE Field(i)
    <3>1. url' = url
      BY <2>3, Zenon DEF Field
    <3>2. location' = IF IsField(Line(i), "location") THEN Line(i)[1].value ELSE location
      BY <2>3, Zenon DEF Field
    <3>3. ASSUME IsField(Line(i), "location") PROVE Line(i)[1].value \in Urls
      <4>1. Rest \in Seq(Bytes) /\ Len(Rest) \in Nat /\ i \in 1..Len(Rest)
        BY <1>0, RestBytes DEF HInv, LineEnds, Ends
      <4>2. Line(i) \in Seq(Bytes)
        BY <4>1 DEF Line
      <4>3. Line(i)[1] \in Bytes /\ Line(i)[1].kind = "location"
        BY <3>3, <4>2 DEF IsField
      <4>4. QED
        BY <4>3, Zenon DEF Bytes, Fields
    <3>4. QED
      BY <2>0, <3>1, <3>2, <3>3, Zenon
  <2>4. QED
    BY <2>1, <2>2, <2>3, Zenon
<1>4. QED
  BY <1>0, <1>1, <1>2, <1>3 DEF HInv, Shape, Pointing, avail

LEMMA LineGoesOnStep ==
  ASSUME HInv, LineGoesOn
  PROVE  HInv'
<1>1. /\ pc # "idle" /\ pc' \notin {"idle", "recv"}
      /\ UNCHANGED <<url, location, buf, consumed, wire, len>>
  BY Zenon DEF LineGoesOn, Err, conn, buffer, headers, caller
<1>2. QED
  BY <1>1, Quiet, Zenon

(* What a read returns to the caller is where it says.                       *)
LEMMA Returned ==
  ASSUME NEW b \in Seq(Bytes), NEW c \in Nat, c <= Len(b), ReturnFrom(b, c)
  PROVE  /\ pc' = "idle" /\ len' \in Nat /\ len' <= Len(b) - c
         /\ \A i \in 0..(len' - 1) : view'[i] = b[c + i + 1].value
BY DEF ReturnFrom

LEMMA ServiceStep ==
  ASSUME HInv, Service
  PROVE  HInv'
<1>1. buf \in Seq(Bytes) /\ consumed \in Nat /\ consumed <= Len(buf)
  BY Zenon DEF HInv, Shape, avail
<1>2. /\ pc' = "idle" /\ len' \in Nat /\ len' <= Len(buf) - consumed
      /\ \A i \in 0..(len' - 1) : view'[i] = buf[consumed + i + 1].value
  BY <1>1, Returned, Zenon DEF Service
<1>3. UNCHANGED <<url, location, buf, consumed, wire>>
  BY Zenon DEF Service, conn, buffer, headers
<1>4. QED
  BY <1>2, <1>3, Zenon DEF HInv, Shape, Pointing, avail

LEMMA RecvStep ==
  ASSUME HInv, Recv
  PROVE  HInv'
<1>0. /\ buf \in Seq(Bytes) /\ wire \in Seq(Bytes) /\ consumed \in Nat
      /\ consumed <= Len(buf) /\ consumed = 0 /\ len = 0 /\ pc = "recv"
  BY Zenon DEF HInv, Shape, Pointing, Recv, avail
<1>1. PICK r \in 1..Len(wire) : /\ buf' = buf \o SubSeq(wire, 1, r)
                               /\ wire' = SubSeq(wire, r + 1, Len(wire))
  BY Zenon DEF Recv
<1>2. wire' \in Seq(Bytes) /\ SubSeq(wire, 1, r) \in Seq(Bytes)
  BY <1>0, <1>1
<1>3. buf' \in Seq(Bytes) /\ Len(buf') = Len(buf) + Len(SubSeq(wire, 1, r))
  BY <1>0, <1>1, <1>2, ConcatProperties, Zenon
<1>4. consumed' = consumed /\ consumed <= Len(buf') /\ UNCHANGED <<url, location>>
  BY <1>0, <1>2, <1>3 DEF Recv, headers
<1>5. Shape' \/ ~(len' \in Nat)
  BY <1>0, <1>2, <1>3, <1>4, Zenon DEF HInv, Shape, avail
<1>6. CASE len' = 0
  <2>1. Pointing'
    BY <1>0, <1>3, <1>4, <1>6 DEF Pointing, avail
  <2>2. QED
    BY <1>5, <1>6, <2>1, Zenon DEF HInv
<1>7. CASE task = "body" /\ ReturnFrom(buf', 0)
  <2>1. /\ pc' = "idle" /\ len' \in Nat /\ len' <= Len(buf') - 0
        /\ \A i \in 0..(len' - 1) : view'[i] = buf'[0 + i + 1].value
    BY <1>3, <1>7, Returned
  <2>2. QED
    BY <1>0, <1>3, <1>4, <1>5, <2>1, Zenon DEF HInv, Pointing, avail
<1>8. QED
  BY <1>0, <1>6, <1>7, Zenon DEF Recv, ReadFails, caller

LEMMA RecvFailsStep ==
  ASSUME HInv, RecvFails
  PROVE  HInv'
<1>1. /\ UNCHANGED <<url, location, buf, consumed, wire, len, view>>
      /\ pc = "recv" /\ pc' \in {"idle", "line"}
  BY Zenon DEF RecvFails, ReadFails, conn, headers
<1>2. avail \in Nat /\ consumed \in Nat /\ consumed <= avail /\ len = 0
  BY <1>1 DEF HInv, Shape, Pointing, avail
<1>3. QED
  BY <1>1, <1>2 DEF HInv, Shape, Pointing, avail

LEMMA HttpStep == HInv /\ (Step \/ Answer \/ HangUp) => HInv'
BY OpenStep, CompressStep, LineStep, LineGoesOnStep, ServiceStep, RecvStep, RecvFailsStep,
   ServerStep, Zenon DEF Step

(* What read_hash adds is what extract_file has written.                     *)
LEMMA SameBytes ==
  ASSUME HInv, pc = "idle"
  PROVE  Pointed(len) = [i \in 1..len |-> view[i - 1]]
<1>1. len \in Nat /\ consumed \in Nat
  BY Zenon DEF HInv, Shape
<1>2. \A i \in 0..(len - 1) : view[i] = buf[consumed + i + 1].value
  BY Zenon DEF HInv, Pointing
<1>3. \A i \in 1..len : view[i - 1] = buf[consumed + i].value
  <2> SUFFICES ASSUME NEW i \in 1..len PROVE view[i - 1] = buf[consumed + i].value
    BY Zenon
  <2>1. i - 1 \in 0..(len - 1) /\ consumed + (i - 1) + 1 = consumed + i
    BY <1>1
  <2>2. QED
    BY <1>2, <2>1, Zenon
<1>4. QED
  BY <1>3, Zenon DEF Pointed

LEMMA NothingMore == << >> \o Pointed(0) = << >>
<1>1. Pointed(0) = << >>
  BY DEF Pointed
<1>2. QED
  BY <1>1

LEMMA HashStep ==
  HInv /\ Digest /\ [HashNext]_<<vars, file>> => HInv' /\ Digest'
<1> SUFFICES ASSUME HInv, Digest, [HashNext]_<<vars, file>> PROVE HInv' /\ Digest'
  BY Zenon
<1>1. CASE UNCHANGED <<vars, file>>
  BY <1>1, Zenon DEF vars, conn, buffer, headers, caller, file, HInv, Shape, Pointing, Digest, avail
<1>2. CASE (Step \/ Answer \/ HangUp) /\ UNCHANGED file
  BY <1>2, HttpStep, Zenon DEF file, Digest
<1>3. CASE Begin
  <2>1. Call(0, 1) /\ copy = "begin" /\ copy' = "copying" /\ tmp' = tmp
        /\ hashed' = hashed \o Pointed(0)
    BY <1>3, Zenon DEF Begin, read_hash
  <2>2. 0 \in 0..len
    BY DEF HInv, Shape
  <2>3. HInv'
    BY <2>1, <2>2, CallStep, Zenon
  <2>4. hashed' = tmp'
    BY <2>1, NothingMore, Zenon DEF Digest
  <2>5. QED
    BY <2>1, <2>3, <2>4, Zenon DEF Digest
<1>4. CASE extract_file
  <2>0. copy = "copying" /\ pc = "idle" /\ len \in Nat /\ hashed = tmp
    BY <1>4, Zenon DEF extract_file, HInv, Shape, Digest
  <2>1. CASE len > 0 /\ WritesOut(len) /\ read_hash(len, 1) /\ UNCHANGED copy
    <3>1. HInv'
      BY <2>0, <2>1, CallStep DEF read_hash
    <3>2. hashed' = tmp'
      BY <2>0, <2>1, SameBytes, Zenon DEF WritesOut, read_hash
    <3>3. QED
      BY <2>0, <2>1, <3>1, <3>2, Zenon DEF Digest
  <2>2. CASE copy' = "ended" /\ UNCHANGED <<hashed, tmp, vars>>
    BY <2>0, <2>2, Zenon DEF vars, conn, buffer, headers, caller, HInv, Shape, Pointing, Digest,
       avail
  <2>3. CASE copy' = "failed" /\ UNCHANGED <<hashed, vars>>
    BY <2>3, Zenon DEF vars, conn, buffer, headers, caller, HInv, Shape, Pointing, Digest, avail
  <2>4. QED
    BY <1>4, <2>1, <2>2, <2>3, Zenon DEF extract_file
<1>5. ASSUME copy = "other", NEW c \in 0..len, NEW n \in Needs, Call(c, n), UNCHANGED file
      PROVE  HInv' /\ Digest'
  BY <1>5, CallStep, Zenon DEF file, Digest
<1>6. QED
  BY <1>1, <1>2, <1>3, <1>4, <1>5, Zenon DEF HashNext

(* When extract_file has come to the end of the stream, the digest that main *)
(* compares with download.hash is that of the bytes in download.tmp.         *)
THEOREM DigestIsOfFile == HashSpec => []HashIsOfFile
<1>1. HInv /\ Digest => HashIsOfFile
  BY Zenon DEF Digest, HashIsOfFile
<1>2. QED
  BY InitInv, HashStep, <1>1, PTL DEF HashSpec

-----------------------------------------------------------------------------
(* What is on its way from the server or waits in the buffer.                *)
Pending == Rest \o wire

(* P are bytes of W behind the first k.                                      *)
Part(P, W, k) ==
  /\ k \in Nat /\ k + Len(P) <= Len(W)
  /\ \A i \in 1..Len(P) : P[i] = W[k + i]

Answers(u) == Web[u] \cup {BadRequest}

(* Where the lines of response r end: the unknown field, the location, the   *)
(* length and the empty line.                                                *)
OtherEnd(r)    == 3 + Len(r.other)
LocationEnd(r) == IF r.location # None THEN OtherEnd(r) + 2 ELSE OtherEnd(r)
LengthEnd(r)   == IF r.length >= 0 THEN LocationEnd(r) + 2 ELSE LocationEnd(r)
HeadEnd(r)     == LengthEnd(r) + 1
Given(r)       == IF r.length >= 0 THEN r.length ELSE -1

(* The fields have been read up to k, which is where a line begins.          *)
Parsed(r, k, loc, cl) ==
  \/ k \in {2, OtherEnd(r)} /\ loc = None /\ cl = -1
  \/ k = LocationEnd(r) /\ loc = r.location /\ cl = -1
  \/ k = LengthEnd(r) /\ loc = r.location /\ cl = Given(r)

Reading(r, k) ==
  \/ task = "status" /\ k = 0
  \/ task = "fields" /\ code = r.code /\ Parsed(r, k, location, content_length)
  \/ task = "body" /\ r.code = 200 /\ content_length = r.length /\ k = HeadEnd(r) + pos

Answering == {"line", "recv", "idle", "entry"}

(* The pending bytes are those of a response to the request for url, behind  *)
(* what has been read of it.                                                 *)
Tracked ==
  \E r \in Answers(url), k \in Nat : Part(Pending, Written(r), k) /\ Reading(r, k)

Track ==
  /\ pc \in {"url", "send"} /\ Site[url] = host => Len(Pending) = 0
  /\ pc \in {"send"} \cup Answering => host = Site[url]
  /\ pc = "send" => Len(sent) < ReqSize
  /\ Len(sent) = ReqSize => pc \in {"line", "recv"} /\ task = "status" /\ Len(Pending) = 0
  /\ pc \in Answering /\ Len(sent) # ReqSize => Tracked

Typed ==
  /\ redirects \in 0..MaxRedirects /\ host \in Sites \cup {None} /\ sent \in Seq(Nat)
  /\ hung \in BOOLEAN /\ failed \in BOOLEAN
  /\ bufsz \in Nat /\ avail <= bufsz
  /\ length_remaining \in Int /\ length_remaining <= Max64
  /\ need \in Nat /\ line_len \in Nat /\ pos \in Nat /\ content_length \in Int
  /\ task \in {"status", "fields", "body"}
  /\ pc \in {"url", "send", "line", "recv", "idle", "entry", "err"}

Phases ==
  /\ task = "body" => pc \in {"recv", "idle", "entry"}
  /\ pc \in {"idle", "entry"} => task = "body"
  /\ task # "body" => pos = 0 /\ len = 0 /\ view = Empty /\ ~failed
  /\ pc # "idle" => view = Empty
  /\ pc # "err" => redirects < MaxRedirects

Counts ==
  /\ avail + Size < Width
  /\ task = "body" /\ ~failed => length_remaining = content_length - pos
  /\ pc = "idle" /\ Honest /\ ~failed => len >= need \/ pos + len = Size

AInv == HInv /\ Typed /\ Track /\ Phases /\ Counts

Copied ==
  /\ copy = "begin" => pos = 0 /\ tmp = << >>
  /\ copy \in {"copying", "ended"} => task = "body" /\ need = 1
  /\ copy \in {"copying", "ended"} /\ Honest => tmp = [i \in 1..pos |-> i - 1]
  /\ copy = "ended" /\ Honest /\ ~failed => pc = "idle" /\ pos = Size

-----------------------------------------------------------------------------
(* Two sequences of bytes, one behind the other.                             *)
LEMMA Joined ==
  ASSUME NEW s \in Seq(Bytes), NEW t \in Seq(Bytes)
  PROVE  /\ s \o t \in Seq(Bytes) /\ Len(s \o t) = Len(s) + Len(t)
         /\ \A i \in 1..Len(s) : (s \o t)[i] = s[i]
         /\ \A i \in 1..Len(t) : (s \o t)[Len(s) + i] = t[i]
<1>1. s \o t \in Seq(Bytes) /\ Len(s \o t) = Len(s) + Len(t)
  BY ConcatProperties, Zenon
<1>2. \A i \in 1..Len(s) : (s \o t)[i] = s[i]
  BY ConcatProperties
<1>3. \A i \in 1..Len(t) : (s \o t)[Len(s) + i] = t[i]
  BY ConcatProperties
<1> QED
  BY <1>1, <1>2, <1>3, Zenon

(* What Written(r) is, by the places in it.                                  *)
Laid(r, W) ==
  /\ W \in Seq(Bytes) /\ Len(W) = HeadEnd(r) + Len(r.body)
  /\ W[1] = Byte("status", r.code) /\ W[2] = Nl
  /\ \A i \in 1..Len(r.other) : W[2 + i] = r.other[i]
  /\ W[OtherEnd(r)] = Nl
  /\ r.location # None => /\ W[OtherEnd(r) + 1] = Byte("location", r.location)
                          /\ W[OtherEnd(r) + 2] = Nl
  /\ r.length >= 0 => /\ W[LocationEnd(r) + 1] = Byte("length", r.length)
                      /\ W[LocationEnd(r) + 2] = Nl
  /\ W[HeadEnd(r)] = Nl
  /\ \A i \in 1..Len(r.body) : W[HeadEnd(r) + i] = r.body[i]

(* The bytes of a response are where Laid says.                              *)
LEMMA Layout ==
  ASSUME NEW r \in Responses
  PROVE  Laid(r, Written(r))
<1>1. /\ r.code \in Int /\ r.other \in Seq(Bytes) /\ r.location \in Urls \cup {None}
      /\ r.length \in Int /\ r.body \in Seq(Bytes)
  BY Zenon DEF Responses
<1>2. Nl \in Bytes /\ Byte("status", r.code) \in Bytes /\ Byte("length", r.length) \in Bytes
  BY <1>1, ByteOK, HttpConstants DEF Nl, Fields
<1>3. r.location # None => Byte("location", r.location) \in Bytes
  BY <1>1, ByteOK, Zenon
<1> DEFINE s1 == << Byte("status", r.code), Nl >>
           s2 == IF r.location # None THEN << Byte("location", r.location), Nl >> ELSE << >>
           s3 == IF r.length >= 0 THEN << Byte("length", r.length), Nl >> ELSE << >>
           nl == << Nl >>
           t1 == s1 \o r.other
           t2 == t1 \o nl
           t3 == t2 \o s2
           t4 == t3 \o s3
           t5 == t4 \o nl
           n == Len(r.other)
<1>4. /\ s1 \in Seq(Bytes) /\ s2 \in Seq(Bytes) /\ s3 \in Seq(Bytes) /\ nl \in Seq(Bytes)
  BY <1>2, <1>3
<1>5. /\ Len(s1) = 2 /\ s1[1] = Byte("status", r.code) /\ s1[2] = Nl
      /\ Len(nl) = 1 /\ nl[1] = Nl
  BY Zenon
<1>6. /\ Len(s2) = IF r.location # None THEN 2 ELSE 0
      /\ r.location # None => s2[1] = Byte("location", r.location) /\ s2[2] = Nl
  BY Zenon
<1>7. /\ Len(s3) = IF r.length >= 0 THEN 2 ELSE 0
      /\ r.length >= 0 => s3[1] = Byte("length", r.length) /\ s3[2] = Nl
  BY Zenon
<1>8. Written(r) = t5 \o r.body
  BY Zenon DEF Written
<1>n. n \in Nat
  BY <1>1
<1> HIDE DEF s1, s2, s3, nl
<1>t1. /\ t1 \in Seq(Bytes) /\ Len(t1) = 2 + n
       /\ \A i \in 1..2 : t1[i] = s1[i]
       /\ \A i \in 1..n : t1[2 + i] = r.other[i]
  <2>1. /\ s1 \o r.other \in Seq(Bytes) /\ Len(s1 \o r.other) = Len(s1) + Len(r.other)
        /\ \A i \in 1..Len(s1) : (s1 \o r.other)[i] = s1[i]
        /\ \A i \in 1..Len(r.other) : (s1 \o r.other)[Len(s1) + i] = r.other[i]
    BY <1>1, <1>4, Joined, ZenonT(40)
  <2> QED
    BY <2>1, <1>5, Zenon
<1> HIDE DEF t1
<1>t2. /\ t2 \in Seq(Bytes) /\ Len(t2) = (2 + n) + 1
       /\ \A i \in 1..(2 + n) : t2[i] = t1[i]
       /\ \A i \in 1..1 : t2[(2 + n) + i] = nl[i]
  <2>1. /\ t1 \o nl \in Seq(Bytes) /\ Len(t1 \o nl) = Len(t1) + Len(nl)
        /\ \A i \in 1..Len(t1) : (t1 \o nl)[i] = t1[i]
        /\ \A i \in 1..Len(nl) : (t1 \o nl)[Len(t1) + i] = nl[i]
    BY <1>t1, <1>4, Joined, Zenon
  <2> QED
    BY <2>1, <1>t1, <1>5, Zenon
<1> HIDE DEF t2
<1>e2. Len(t2) = OtherEnd(r) /\ OtherEnd(r) \in Nat
  BY <1>t2, <1>n DEF OtherEnd
<1>t3. /\ t3 \in Seq(Bytes) /\ Len(t3) = OtherEnd(r) + Len(s2)
       /\ \A i \in 1..OtherEnd(r) : t3[i] = t2[i]
       /\ \A i \in 1..Len(s2) : t3[OtherEnd(r) + i] = s2[i]
  <2>1. /\ t2 \o s2 \in Seq(Bytes) /\ Len(t2 \o s2) = Len(t2) + Len(s2)
        /\ \A i \in 1..Len(t2) : (t2 \o s2)[i] = t2[i]
        /\ \A i \in 1..Len(s2) : (t2 \o s2)[Len(t2) + i] = s2[i]
    BY <1>t2, <1>4, Joined, Zenon
  <2> QED
    BY <2>1, <1>e2, Zenon
<1> HIDE DEF t3
<1>e3. Len(t3) = LocationEnd(r) /\ LocationEnd(r) \in Nat /\ OtherEnd(r) <= LocationEnd(r)
  BY <1>t3, <1>e2, <1>6 DEF LocationEnd
<1>t4. /\ t4 \in Seq(Bytes) /\ Len(t4) = LocationEnd(r) + Len(s3)
       /\ \A i \in 1..LocationEnd(r) : t4[i] = t3[i]
       /\ \A i \in 1..Len(s3) : t4[LocationEnd(r) + i] = s3[i]
  <2>1. /\ t3 \o s3 \in Seq(Bytes) /\ Len(t3 \o s3) = Len(t3) + Len(s3)
        /\ \A i \in 1..Len(t3) : (t3 \o s3)[i] = t3[i]
        /\ \A i \in 1..Len(s3) : (t3 \o s3)[Len(t3) + i] = s3[i]
    BY <1>t3, <1>4, Joined, Zenon
  <2> QED
    BY <2>1, <1>e3, Zenon
<1> HIDE DEF t4
<1>e4. Len(t4) = LengthEnd(r) /\ LengthEnd(r) \in Nat /\ LocationEnd(r) <= LengthEnd(r)
  BY <1>t4, <1>e3, <1>7 DEF LengthEnd
<1>t5. /\ t5 \in Seq(Bytes) /\ Len(t5) = LengthEnd(r) + 1
       /\ \A i \in 1..LengthEnd(r) : t5[i] = t4[i]
       /\ \A i \in 1..1 : t5[LengthEnd(r) + i] = nl[i]
  <2>1. /\ t4 \o nl \in Seq(Bytes) /\ Len(t4 \o nl) = Len(t4) + Len(nl)
        /\ \A i \in 1..Len(t4) : (t4 \o nl)[i] = t4[i]
        /\ \A i \in 1..Len(nl) : (t4 \o nl)[Len(t4) + i] = nl[i]
    BY <1>t4, <1>4, Joined, Zenon
  <2> QED
    BY <2>1, <1>e4, <1>5, Zenon
<1> HIDE DEF t5
<1> DEFINE W == t5 \o r.body
<1>e5. Len(t5) = HeadEnd(r) /\ HeadEnd(r) \in Nat /\ HeadEnd(r) = LengthEnd(r) + 1
  BY <1>t5, <1>e4 DEF HeadEnd
<1>t6. /\ W \in Seq(Bytes) /\ Len(W) = HeadEnd(r) + Len(r.body)
       /\ \A i \in 1..HeadEnd(r) : W[i] = t5[i]
       /\ \A i \in 1..Len(r.body) : W[HeadEnd(r) + i] = r.body[i]
  <2>1. /\ t5 \o r.body \in Seq(Bytes) /\ Len(t5 \o r.body) = Len(t5) + Len(r.body)
        /\ \A i \in 1..Len(t5) : (t5 \o r.body)[i] = t5[i]
        /\ \A i \in 1..Len(r.body) : (t5 \o r.body)[Len(t5) + i] = r.body[i]
    BY <1>1, <1>t5, Joined, Zenon
  <2> QED
    BY <2>1, <1>e5, Zenon
<1> HIDE DEF W
<1>p4. \A i \in 1..LengthEnd(r) : W[i] = t4[i]
  BY <1>e4, <1>e5, <1>t5, <1>t6
<1>p3. \A i \in 1..LocationEnd(r) : W[i] = t3[i]
  BY <1>e3, <1>e4, <1>t4, <1>p4
<1>p2. \A i \in 1..OtherEnd(r) : W[i] = t2[i]
  BY <1>e2, <1>e3, <1>t3, <1>p3
<1>o. OtherEnd(r) = 3 + n
  BY Zenon DEF OtherEnd
<1>p1. \A i \in 1..(2 + n) : W[i] = t1[i]
  BY <1>n, <1>o, <1>t2, <1>p2
<1>9. W[1] = Byte("status", r.code) /\ W[2] = Nl
  BY <1>n, <1>5, <1>t1, <1>p1
<1>10. \A i \in 1..n : W[2 + i] = r.other[i]
  BY <1>n, <1>t1, <1>p1
<1>11. W[OtherEnd(r)] = Nl
  BY <1>n, <1>o, <1>5, <1>t2, <1>p2
<1>12. r.location # None => /\ W[OtherEnd(r) + 1] = Byte("location", r.location)
                            /\ W[OtherEnd(r) + 2] = Nl
  <2>1. r.location # None => LocationEnd(r) = OtherEnd(r) + 2
    BY Zenon DEF LocationEnd
  <2> QED
    BY <2>1, <1>6, <1>e2, <1>t3, <1>p3
<1>13. r.length >= 0 => /\ W[LocationEnd(r) + 1] = Byte("length", r.length)
                        /\ W[LocationEnd(r) + 2] = Nl
  <2>1. r.length >= 0 => LengthEnd(r) = LocationEnd(r) + 2
    BY Zenon DEF LengthEnd
  <2> QED
    BY <2>1, <1>7, <1>e3, <1>t4, <1>p4
<1>14. W[HeadEnd(r)] = Nl
  BY <1>5, <1>e4, <1>e5, <1>t5, <1>t6
<1>15. Written(r) = W
  BY <1>8, Zenon DEF W
<1> QED
  BY <1>t6, <1>9, <1>10, <1>11, <1>12, <1>13, <1>14, <1>15, Zenon DEF Laid

(* The field the client does not know is a line, and none of those it knows. *)
Worded(r) ==
  r.other # << >> /\ \A i \in DOMAIN r.other : r.other[i].kind = "other"

(* A byte that is no newline.                                                *)
LEMMA NotNl ==
  ASSUME NEW k, NEW v, k # "nl"
  PROVE  Byte(k, v) # Nl /\ Byte(k, v).kind = k /\ Byte(k, v).value = v
BY Zenon DEF Byte, Nl

LEMMA NlKind == Nl.kind = "nl"
BY Zenon DEF Byte, Nl

(* The places in a response are numbers, in order.                           *)
LEMMA Places ==
  ASSUME NEW r \in Responses
  PROVE  /\ OtherEnd(r) = 3 + Len(r.other)
         /\ LocationEnd(r) = IF r.location # None THEN OtherEnd(r) + 2 ELSE OtherEnd(r)
         /\ LengthEnd(r) = IF r.length >= 0 THEN LocationEnd(r) + 2 ELSE LocationEnd(r)
         /\ HeadEnd(r) = LengthEnd(r) + 1
         /\ OtherEnd(r) \in Nat /\ LocationEnd(r) \in Nat /\ LengthEnd(r) \in Nat
         /\ HeadEnd(r) \in Nat
<1>1. OtherEnd(r) = 3 + Len(r.other) /\ OtherEnd(r) \in Nat
  BY DEF Responses, OtherEnd
<1>2. /\ LocationEnd(r) = IF r.location # None THEN OtherEnd(r) + 2 ELSE OtherEnd(r)
      /\ LocationEnd(r) \in Nat
  BY <1>1 DEF LocationEnd
<1>3. /\ LengthEnd(r) = IF r.length >= 0 THEN LocationEnd(r) + 2 ELSE LocationEnd(r)
      /\ LengthEnd(r) \in Nat
  BY <1>2 DEF LengthEnd
<1> QED
  BY <1>1, <1>2, <1>3 DEF HeadEnd

(* A line that is read ends where a line of the response does, and says what *)
(* that line does.                                                           *)
LEMMA NextLine ==
  ASSUME NEW r \in Responses, Worded(r), NEW W, Laid(r, W),
         NEW k, NEW loc, NEW cl, Parsed(r, k, loc, cl),
         NEW i \in Nat \ {0}, W[k + i] = Nl, \A j \in 1..(i - 1) : W[k + j] # Nl,
         NEW loc2, loc2 = IF i = 2 /\ W[k + 1].kind = "location" THEN W[k + 1].value ELSE loc,
         NEW cl2, cl2 = IF i = 2 /\ W[k + 1].kind = "length" THEN W[k + 1].value ELSE cl
  PROVE  /\ i = 1 => k = LengthEnd(r) /\ loc = r.location /\ cl = Given(r)
         /\ i # 1 => Parsed(r, k + i, loc2, cl2)
<1> DEFINE n == Len(r.other)
<1>0. /\ n \in Nat /\ n >= 1 /\ \A j \in 1..n : r.other[j].kind = "other"
      /\ r.length \in Int
  BY DEF Responses, Worded
<1>1. /\ OtherEnd(r) = 3 + n
      /\ LocationEnd(r) = IF r.location # None THEN OtherEnd(r) + 2 ELSE OtherEnd(r)
      /\ LengthEnd(r) = IF r.length >= 0 THEN LocationEnd(r) + 2 ELSE LocationEnd(r)
      /\ HeadEnd(r) = LengthEnd(r) + 1
      /\ OtherEnd(r) \in Nat /\ LocationEnd(r) \in Nat /\ LengthEnd(r) \in Nat
  BY Places, Zenon
<1> HIDE DEF n
<1>2. CASE k = 2 /\ loc = None /\ cl = -1
  <2>1. \A j \in 1..n : W[2 + j].kind = "other" /\ W[2 + j] # Nl
    <3> SUFFICES ASSUME NEW j \in 1..n PROVE W[2 + j].kind = "other" /\ W[2 + j] # Nl
      BY Zenon
    <3>1. W[2 + j] = r.other[j]
      BY Zenon DEF Laid, n
    <3> QED
      BY <1>0, <3>1, NlKind, Zenon
  <2>2. W[2 + (n + 1)] = Nl
    <3>1. 2 + (n + 1) = OtherEnd(r)
      BY <1>0, <1>1
    <3> QED
      BY <3>1, Zenon DEF Laid
  <2>3. i = n + 1
    <3>1. ~(i \in 1..n)
      BY <1>2, <2>1, Zenon
    <3>2. ~(n + 1 \in 1..(i - 1))
      BY <1>2, <2>2, Zenon
    <3> QED
      BY <1>0, <3>1, <3>2
  <2>4. W[k + 1].kind = "other"
    BY <1>0, <1>2, <2>1
  <2>5. loc2 = loc /\ cl2 = cl
    BY <2>4, Zenon
  <2>6. k + i = OtherEnd(r) /\ i # 1
    BY <1>0, <1>1, <1>2, <2>3
  <2> QED
    BY <1>2, <2>5, <2>6, Zenon DEF Parsed
<1>3. CASE k = LengthEnd(r) /\ loc = r.location /\ cl = Given(r)
  <2>1. W[k + 1] = Nl
    BY <1>1, <1>3, Zenon DEF Laid
  <2>2. i = 1
    <3>1. ~(1 \in 1..(i - 1))
      BY <2>1, Zenon
    <3> QED
      BY <3>1
  <2> QED
    BY <1>3, <2>2, Zenon
<1>4. CASE k = LocationEnd(r) /\ loc = r.location /\ cl = -1
  <2>1. CASE r.length < 0
    <3>1. k = LengthEnd(r) /\ cl = Given(r)
      BY <1>0, <1>1, <1>4, <2>1 DEF Given
    <3> QED
      BY <1>3, <1>4, <3>1, Zenon
  <2>2. CASE r.length >= 0
    <3>1. W[k + 1] = Byte("length", r.length) /\ W[k + 2] = Nl
      BY <1>4, <2>2, Zenon DEF Laid
    <3>2. W[k + 1] # Nl /\ W[k + 1].kind = "length" /\ W[k + 1].value = r.length
      BY <3>1, NotNl
    <3>3. i = 2
      <4>1. ~(2 \in 1..(i - 1))
        BY <3>1, Zenon
      <4>2. i # 1
        BY <3>2, Zenon
      <4> QED
        BY <4>1, <4>2
    <3>4. loc2 = loc /\ cl2 = r.length
      BY <3>2, <3>3, Zenon
    <3>5. k + i = LengthEnd(r) /\ cl2 = Given(r)
      BY <1>1, <1>4, <2>2, <3>3, <3>4, Zenon DEF Given
    <3> QED
      BY <1>4, <3>3, <3>4, <3>5 DEF Parsed
  <2> QED
    BY <1>0, <2>1, <2>2
<1>5. CASE k = OtherEnd(r) /\ loc = None /\ cl = -1
  <2>1. CASE r.location = None
    BY <1>1, <1>4, <1>5, <2>1, Zenon
  <2>2. CASE r.location # None
    <3>1. W[k + 1] = Byte("location", r.location) /\ W[k + 2] = Nl
      BY <1>5, <2>2, Zenon DEF Laid
    <3>2. W[k + 1] # Nl /\ W[k + 1].kind = "location" /\ W[k + 1].value = r.location
      BY <3>1, NotNl
    <3>3. i = 2
      <4>1. ~(2 \in 1..(i - 1))
        BY <3>1, Zenon
      <4>2. i # 1
        BY <3>2, Zenon
      <4> QED
        BY <4>1, <4>2
    <3>4. loc2 = r.location /\ cl2 = cl
      BY <3>2, <3>3, Zenon
    <3>5. k + i = LocationEnd(r)
      BY <1>1, <1>5, <2>2, <3>3, Zenon
    <3> QED
      BY <1>5, <3>3, <3>4, <3>5 DEF Parsed
  <2> QED
    BY <2>1, <2>2, Zenon
<1> QED
  BY <1>2, <1>3, <1>4, <1>5, Zenon DEF Parsed

-----------------------------------------------------------------------------
(* P are the bytes of b behind the first c, and then those of w.             *)
Follow(P, b, c, w) ==
  /\ P \in Seq(Bytes) /\ Len(P) = (Len(b) - c) + Len(w) /\ Len(P) \in Nat
  /\ Len(b) \in Nat /\ c \in Nat /\ c <= Len(b) /\ Len(w) \in Nat
  /\ \A i \in 1..(Len(b) - c) : P[i] = b[c + i]
  /\ \A i \in 1..Len(w) : P[(Len(b) - c) + i] = w[i]

(* What is left of a buffer and then the wire.                               *)
LEMMA Follows ==
  ASSUME NEW b \in Seq(Bytes), NEW c \in Nat, c <= Len(b), NEW w \in Seq(Bytes)
  PROVE  Follow(SubSeq(b, c + 1, Len(b)) \o w, b, c, w)
<1> DEFINE R == SubSeq(b, c + 1, Len(b))
           n == Len(b) - c
<1>1. R = [i \in 1..n |-> b[c + i]]
  OBVIOUS
<1>2. \A i \in 1..n : b[c + i] \in Bytes
  OBVIOUS
<1> HIDE DEF R
<1>3. /\ R \in Seq(Bytes) /\ Len(R) = n
      /\ \A i \in 1..n : R[i] = b[c + i]
  BY <1>1, <1>2
<1>4. /\ R \o w \in Seq(Bytes) /\ Len(R \o w) = Len(R) + Len(w)
      /\ \A i \in 1..Len(R) : (R \o w)[i] = R[i]
      /\ \A i \in 1..Len(w) : (R \o w)[Len(R) + i] = w[i]
  BY <1>3, Joined, Zenon
<1>5. Len(R \o w) \in Nat /\ Len(b) \in Nat /\ Len(w) \in Nat
  BY <1>4
<1>6. Follow(R \o w, b, c, w)
  BY <1>3, <1>4, <1>5, Zenon DEF Follow
<1> QED
  BY <1>6, Zenon DEF R

(* The pending bytes, in the state before a step and in the one after it.    *)
LEMMA PendingBytes == Shape => Follow(Pending, buf, consumed, wire)
BY Follows, Zenon DEF Shape, Pending, Rest, avail

LEMMA PendingBytesAfter == Shape' => Follow(Pending', buf', consumed', wire')
BY Follows, Zenon DEF Shape, Pending, Rest, avail

(* The first c pending bytes are taken, and perhaps the last ones lost.      *)
Shift(c) ==
  /\ Len(Pending') + c <= Len(Pending)
  /\ \A i \in 1..Len(Pending') : Pending'[i] = Pending[c + i]

(* A stretch of a response of which c bytes are taken is one c bytes further *)
(* on.                                                                       *)
LEMMA PartShift ==
  ASSUME Shape, Shape', NEW c \in Nat, Shift(c), NEW W \in Seq(Bytes), NEW k, Part(Pending, W, k)
  PROVE  Part(Pending', W, k + c)
<1>1. Len(Pending) \in Nat /\ Len(Pending') \in Nat /\ Len(W) \in Nat
  BY PendingBytes, PendingBytesAfter DEF Follow
<1> DEFINE n == Len(Pending')
           m == Len(Pending)
<1>2. /\ k \in Nat /\ k + m <= Len(W) /\ n + c <= m
      /\ \A i \in 1..m : Pending[i] = W[k + i]
      /\ \A i \in 1..n : Pending'[i] = Pending[c + i]
  BY Zenon DEF Part, Shift
<1> HIDE DEF n, m
<1>3. k + c \in Nat /\ (k + c) + n <= Len(W)
  BY <1>1, <1>2 DEF n, m
<1>4. ASSUME NEW i \in 1..n PROVE Pending'[i] = W[(k + c) + i]
  <2>1. c + i \in 1..m /\ k + (c + i) = (k + c) + i
    BY <1>1, <1>2 DEF n, m
  <2>2. Pending'[i] = Pending[c + i]
    BY <1>2, Zenon
  <2>3. Pending[c + i] = W[k + (c + i)]
    BY <1>2, <2>1, Zenon
  <2> QED
    BY <2>1, <2>2, <2>3, Zenon
<1> QED
  BY <1>3, <1>4, Zenon DEF Part, n

(* Taking bytes from the window.                                             *)
LEMMA ShiftTaken ==
  ASSUME NEW b, NEW w, NEW P, NEW c, Follow(P, b, c, w), NEW Q, NEW d \in Nat, Follow(Q, b, c + d, w)
  PROVE  Len(Q) + d = Len(P) /\ \A i \in 1..Len(Q) : Q[i] = P[d + i]
<1> DEFINE n == Len(b) - c
           m == Len(b) - (c + d)
<1>1. /\ Len(P) = n + Len(w) /\ Len(b) \in Nat /\ c \in Nat /\ c <= Len(b) /\ Len(w) \in Nat
      /\ \A i \in 1..n : P[i] = b[c + i]
      /\ \A i \in 1..Len(w) : P[n + i] = w[i]
  BY Zenon DEF Follow
<1>2. /\ Len(Q) = m + Len(w) /\ c + d <= Len(b)
      /\ \A i \in 1..m : Q[i] = b[(c + d) + i]
      /\ \A i \in 1..Len(w) : Q[m + i] = w[i]
  BY Zenon DEF Follow
<1>3. n = m + d /\ n \in Nat /\ m \in Nat
  BY <1>1, <1>2
<1>4. Len(Q) + d = Len(P)
  BY <1>1, <1>2, <1>3
<1>5. ASSUME NEW i \in 1..Len(Q) PROVE Q[i] = P[d + i]
  <2>0. i \in Nat /\ 1 <= i /\ i <= m + Len(w)
    BY <1>1, <1>2, <1>3
  <2>1. CASE i <= m
    <3>1. i \in 1..m /\ d + i \in 1..n /\ c + (d + i) = (c + d) + i
      BY <1>1, <1>3, <2>0, <2>1
    <3> HIDE DEF n, m
    <3> QED
      BY <1>1, <1>2, <3>1, Zenon
  <2>2. CASE ~(i <= m)
    <3> DEFINE j == i - m
    <3>1. j \in 1..Len(w) /\ i = m + j /\ d + i = n + j
      BY <1>1, <1>3, <2>0, <2>2
    <3> HIDE DEF n, m, j
    <3> QED
      BY <1>1, <1>2, <3>1, Zenon
  <2> QED
    BY <2>1, <2>2, Zenon
<1> QED
  BY <1>4, <1>5, Zenon

(* The first n bytes of w have moved to the end of b.                        *)
Moved(b, w, b2, w2, n) ==
  /\ n \in 0..Len(w) /\ Len(b2) = Len(b) + n /\ Len(w2) = Len(w) - n
  /\ \A i \in 1..Len(b) : b2[i] = b[i]
  /\ \A i \in 1..n : b2[Len(b) + i] = w[i]
  /\ \A i \in 1..(Len(w) - n) : w2[i] = w[n + i]

(* Bytes that move from the wire to the buffer stay what they are.           *)
LEMMA SameReceived ==
  ASSUME NEW b, NEW w, NEW P, Follow(P, b, 0, w), NEW Q, NEW b2, NEW w2, Follow(Q, b2, 0, w2),
         NEW n, Moved(b, w, b2, w2, n)
  PROVE  Len(Q) = Len(P) /\ \A i \in 1..Len(Q) : Q[i] = P[i]
<1>0. /\ n \in 0..Len(w) /\ Len(b2) = Len(b) + n /\ Len(w2) = Len(w) - n
      /\ \A i \in 1..Len(b) : b2[i] = b[i]
      /\ \A i \in 1..n : b2[Len(b) + i] = w[i]
      /\ \A i \in 1..(Len(w) - n) : w2[i] = w[n + i]
  BY Zenon DEF Moved
<1>1. /\ Len(P) = Len(b) + Len(w) /\ Len(b) \in Nat /\ Len(w) \in Nat
      /\ \A i \in 1..Len(b) : P[i] = b[i]
      /\ \A i \in 1..Len(w) : P[Len(b) + i] = w[i]
  BY DEF Follow
<1>2. /\ Len(Q) = Len(b2) + Len(w2) /\ Len(b2) \in Nat /\ Len(w2) \in Nat
      /\ \A i \in 1..Len(b2) : Q[i] = b2[i]
      /\ \A i \in 1..Len(w2) : Q[Len(b2) + i] = w2[i]
  BY DEF Follow
<1>3. ASSUME NEW i \in 1..Len(Q) PROVE Q[i] = P[i]
  <2>0. i \in Nat /\ 1 <= i /\ i <= Len(b) + Len(w)
    BY <1>0, <1>1, <1>2
  <2>1. CASE i <= Len(b)
    <3>1. i \in 1..Len(b) /\ i \in 1..Len(b2)
      BY <1>0, <1>1, <1>2, <2>0, <2>1
    <3> QED
      BY <1>0, <1>1, <1>2, <3>1, Zenon
  <2>2. CASE i > Len(b) /\ i <= Len(b) + n
    <3> DEFINE j == i - Len(b)
    <3>1. j \in 1..n /\ j \in 1..Len(w) /\ i \in 1..Len(b2) /\ i = Len(b) + j
      BY <1>0, <1>1, <1>2, <2>0, <2>2
    <3> HIDE DEF j
    <3> QED
      BY <1>0, <1>1, <1>2, <3>1, Zenon
  <2>3. CASE i > Len(b) + n
    <3> DEFINE j == i - (Len(b) + n)
    <3>1. /\ j \in 1..(Len(w) - n) /\ j \in 1..Len(w2) /\ i = Len(b2) + j
          /\ n + j \in 1..Len(w) /\ i = Len(b) + (n + j)
      BY <1>0, <1>1, <1>2, <2>0, <2>3
    <3> HIDE DEF j
    <3>2. Q[i] = w2[j] /\ w2[j] = w[n + j]
      BY <1>0, <1>2, <3>1, Zenon
    <3>3. P[i] = w[n + j]
      BY <1>1, <3>1, Zenon
    <3> QED
      BY <3>2, <3>3, Zenon
  <2> QED
    BY <1>0, <1>1, <2>0, <2>1, <2>2, <2>3
<1>4. Len(Q) = Len(P)
  BY <1>0, <1>1, <1>2
<1> QED
  BY <1>3, <1>4, Zenon

-----------------------------------------------------------------------------
(* What is known of every response to a request for u.                       *)
Good(u, r) ==
  /\ r \in Responses /\ Worded(r) /\ Laid(r, Written(r)) /\ Written(r) \in Seq(Bytes)
  /\ r.code = 302 /\ r.location # None /\ Site[r.location] = Site[u] => r.body = << >>
  /\ r.code = 200 => r.body = Body
  /\ r.length <= Max64
  /\ Len(Written(r)) + Size < Width

(* Every response a well-served url may get, and the answer to a bad         *)
(* request.                                                                  *)
LEMMA AnswersGood ==
  ASSUME WellServed, NEW u \in Urls, NEW r \in Answers(u)
  PROVE  Good(u, r)
<1>1. r \in Responses
  <2>1. Web[u] \subseteq Responses
    BY HttpConstants, Zenon
  <2> QED
    BY <2>1, BadRequestOK, Zenon DEF Answers
<1>2. Laid(r, Written(r)) /\ Written(r) \in Seq(Bytes)
  BY <1>1, Layout, WrittenBytes, Zenon
<1>3. /\ Worded(r)
      /\ r.code = 302 /\ r.location # None /\ Site[r.location] = Site[u] => r.body = << >>
      /\ r.code = 200 => r.body = Body
      /\ r.length <= Max64
      /\ Len(Written(r)) + Size < Width
  BY Zenon DEF WellServed, Answers, Worded
<1> QED
  BY <1>1, <1>2, <1>3, Zenon DEF Good

(* A step that takes c of the pending bytes for the caller, or none, and     *)
(* leaves alone what is known of the response.                               *)
LEMMA Carry ==
  ASSUME WellServed, HInv, HInv', Track, NEW c \in Nat, Shift(c), pos' = pos + c, pos \in Nat,
         c = 0 \/ task = "body", pc \in Answering, pc' \in Answering,
         UNCHANGED <<url, host, sent, task, code, location, content_length>>,
         task = "status" => pc' \in {"line", "recv"}
  PROVE  Track'
<1>0. Shape /\ Shape' /\ url \in Urls
  BY Zenon DEF HInv, Shape
<1>1. ASSUME Len(sent) # ReqSize PROVE Tracked'
  <2>1. PICK r \in Answers(url), k \in Nat : Part(Pending, Written(r), k) /\ Reading(r, k)
    BY <1>1, Zenon DEF Track, Tracked
  <2>2. Written(r) \in Seq(Bytes) /\ HeadEnd(r) \in Nat
    BY <1>0, AnswersGood, Places, Zenon DEF Good
  <2>3. Part(Pending', Written(r), k + c)
    BY <1>0, <2>1, <2>2, PartShift, Zenon
  <2>4. Reading(r, k + c)'
    <3>1. task # "body" => c = 0 /\ k + c = k
      OBVIOUS
    <3>2. task = "body" => k = HeadEnd(r) + pos
      BY <2>1, Zenon DEF Reading
    <3>3. task = "body" => k + c = HeadEnd(r) + pos'
      BY <2>2, <3>2
    <3> QED
      BY <2>1, <3>1, <3>3, Zenon DEF Reading
  <2>5. k + c \in Nat
    OBVIOUS
  <2> QED
    BY <2>1, <2>3, <2>4, <2>5, Zenon DEF Tracked, Answers
<1>2. Len(Pending) = 0 => Len(Pending') = 0
  BY <1>0, PendingBytes, PendingBytesAfter DEF Shift, Follow
<1> QED
  BY <1>1, <1>2, Zenon DEF Track, Answering

-----------------------------------------------------------------------------
(* The constants that are numbers.                                           *)
LEMMA Numbers ==
  /\ Size \in Nat /\ Max64 \in Nat /\ Width \in Nat /\ Size < Max64 /\ Max64 < Width
  /\ Chunk \in Nat \ {0} /\ ReqSize \in Nat \ {0} /\ Needs \subseteq Nat
  /\ MaxRedirects \in Nat \ {0}
BY HttpConstants, Zenon

(* The state that open_http_downloader starts in.                            *)
LEMMA InitAInv == Init => AInv
<1> SUFFICES ASSUME Init PROVE AInv
  BY Zenon
<1>1. HInv
  BY HttpConstants DEF Init, HInv, Shape, Pointing, avail
<1>2. Typed
  <2>1. /\ redirects = 0 /\ host = None /\ sent = << >> /\ bufsz = 0 /\ length_remaining = 0
        /\ need = 0 /\ line_len = 0 /\ pos = 0 /\ content_length = -1 /\ Len(buf) = 0
    BY Zenon DEF Init
  <2>2. sent \in Seq(Nat) /\ host \in Sites \cup {None}
    BY <2>1
  <2>3. hung \in BOOLEAN /\ failed \in BOOLEAN /\ task = "status" /\ pc = "url"
    BY Zenon DEF Init
  <2> QED
    BY <2>1, <2>2, <2>3, HttpConstants DEF Typed, avail
<1>3. Len(Pending) = 0
  <2>1. Follow(Pending, buf, consumed, wire) /\ Len(buf) = 0 /\ Len(wire) = 0 /\ consumed = 0
    BY <1>1, PendingBytes, Zenon DEF HInv, Init
  <2> QED
    BY <2>1 DEF Follow
<1>4. Track
  BY <1>3, HttpConstants, Zenon DEF Init, Track, Answering
<1>5. Phases /\ Counts
  BY HttpConstants DEF Init, Phases, Counts, avail, Honest
<1> QED
  BY <1>1, <1>2, <1>4, <1>5, Zenon DEF AInv

(* A step to err.                                                            *)
LEMMA ErrInv ==
  ASSUME AInv, HInv', Err, redirects' \in 0..MaxRedirects, Len(sent) # ReqSize, task # "body"
  PROVE  AInv'
<1>1. Typed'
  BY Zenon DEF AInv, Typed, Err, conn, buffer, headers, caller, avail
<1>2. Track'
  BY Zenon DEF Err, Track, Answering
<1>3. Phases' /\ Counts'
  BY Zenon DEF AInv, Phases, Counts, Err, conn, buffer, headers, caller, avail, Honest
<1> QED
  BY <1>1, <1>2, <1>3, Zenon DEF AInv

(* Redirects, connections and requests: a connection that is used again has  *)
(* nothing pending.                                                          *)
LEMMA OpenInv ==
  ASSUME AInv, HInv', GiveUp \/ Reuse \/ Connect \/ Send \/ SendFails
  PROVE  AInv'
<1>0. /\ Shape' /\ sent \in Seq(Nat) /\ Len(sent) \in Nat /\ url \in Urls
      /\ redirects \in Nat /\ pc \in {"url", "send"} /\ task # "body"
      /\ redirects < MaxRedirects
  BY HttpConstants DEF AInv, HInv, Typed, Shape, Phases, GiveUp, Reuse, Connect, Send,
     SendFails
<1>1. CASE GiveUp
  <2>1. Err /\ redirects' = redirects + 1 /\ Len(sent) # ReqSize
    BY <1>1, Zenon DEF GiveUp, Turns, AInv, Track
  <2> QED
    BY <1>0, <2>1, ErrInv, HttpConstants
<1>2. CASE SendFails
  <2>1. Err /\ redirects' = redirects /\ Len(sent) < ReqSize
    BY <1>2, Zenon DEF SendFails, AInv, Track
  <2> QED
    BY <1>0, <2>1, ErrInv, HttpConstants
<1>3. CASE Reuse \/ Connect
  <2>1. /\ redirects' = redirects + 1 /\ redirects' # MaxRedirects
        /\ sent' = << >> /\ pc' = "send" /\ host' = Site[url] /\ url' = url
        /\ UNCHANGED <<bufsz, length_remaining, need, line_len, headers, task, caller>>
        /\ hung' \in BOOLEAN
    BY <1>3, Zenon DEF Reuse, Connect, CanAsk, Turns, conn, buffer, AInv, Typed
  <2>2. avail' <= bufsz
    BY <1>0, <1>3 DEF Reuse, Connect, Emptied, conn, buffer, AInv, Typed, avail
  <2>3. Typed'
    BY <1>0, <2>1, <2>2, HttpConstants DEF AInv, Typed, headers, caller
  <2>4. Len(Pending') = 0
    <3>1. CASE Reuse
      <4>1. /\ Len(Pending) = 0 /\ UNCHANGED <<buf, wire>> /\ consumed' = consumed
        BY <3>1, Zenon DEF AInv, Track, Reuse, conn, buffer
      <4> QED
        BY <1>0, <4>1, PendingBytes, PendingBytesAfter, Zenon DEF Follow, AInv, HInv
    <3>2. CASE Connect
      <4>1. buf' = << >> /\ wire' = << >> /\ consumed' = 0
        BY <3>2, Zenon DEF Connect, Emptied
      <4> QED
        BY <1>0, <4>1, PendingBytesAfter DEF Follow
    <3> QED
      BY <1>3, <3>1, <3>2, Zenon
  <2>5. Track'
    BY <2>1, <2>4, HttpConstants DEF Track, Answering
  <2>6. Phases'
    BY <1>0, <2>1, HttpConstants DEF AInv, Phases, headers, caller
  <2>7. Counts'
    <3>1. avail' <= avail
      BY <1>0, <1>3 DEF Reuse, Connect, Emptied, buffer, AInv, HInv, Shape, avail
    <3>2. avail \in Nat /\ avail' \in Nat
      BY <1>0 DEF AInv, HInv, Shape, avail
    <3>3. avail' + Size < Width
      <4>1. avail + Size < Width
        BY Zenon DEF AInv, Counts
      <4> QED
        BY <3>1, <3>2, <4>1, Numbers DEF avail
    <3> QED
      BY <1>0, <2>1, <3>3, Zenon DEF Counts
  <2> QED
    BY <2>3, <2>5, <2>6, <2>7, Zenon DEF AInv
<1>4. CASE Send
  <2>1. PICK w \in 1..(ReqSize - Len(sent)) : sent' = sent \o [i \in 1..w |-> i]
    BY <1>4, Zenon DEF Send
  <2>2. /\ pc = "send" /\ pc' = IF Len(sent') = ReqSize THEN "line" ELSE "send"
        /\ task' = "status" /\ line_len' = 0
        /\ UNCHANGED <<url, redirects, conn, buffer, need, headers, caller>>
    BY <1>4, Zenon DEF Send
  <2>3. sent' \in Seq(Nat) /\ Len(sent') \in Nat /\ Len(sent') <= ReqSize
    <3>1. [i \in 1..w |-> i] \in Seq(Nat) /\ Len([i \in 1..w |-> i]) = w
      BY <1>0, HttpConstants
    <3>2. sent' \in Seq(Nat) /\ Len(sent') = Len(sent) + w
      <4>1. \A u, v \in Seq(Nat) : u \o v \in Seq(Nat) /\ Len(u \o v) = Len(u) + Len(v)
        BY ConcatProperties, Zenon
      <4>2. sent \in Seq(Nat)
        BY <1>0, Zenon
      <4> QED
        BY <2>1, <3>1, <4>1, <4>2, Zenon
    <3> QED
      BY <1>0, <3>2, HttpConstants
  <2>4. Typed'
    BY <2>2, <2>3, Zenon DEF AInv, Typed, conn, buffer, headers, caller, avail
  <2>5. Len(Pending) = 0 /\ host = Site[url]
    BY <2>2, Zenon DEF AInv, Track
  <2>6. Len(Pending') = 0
    BY <1>0, <2>2, <2>5, PendingBytes, PendingBytesAfter, Zenon DEF Follow, AInv, HInv, conn, buffer
  <2>7. Track'
    BY <2>2, <2>3, <2>5, <2>6, HttpConstants DEF Track, Answering, conn
  <2>8. Phases' /\ Counts'
    BY <1>0, <2>2, Zenon DEF AInv, Phases, Counts, Honest, buffer, headers, caller, avail
  <2> QED
    BY <2>4, <2>7, <2>8, Zenon DEF AInv
<1> QED
  BY <1>1, <1>2, <1>3, <1>4, Zenon

-----------------------------------------------------------------------------
(* Once the headers are read, the pending bytes are those of the body that   *)
(* the caller has not taken yet.                                             *)
LEMMA BodyAt ==
  ASSUME WellServed, AInv, task = "body"
  PROVE  /\ pos \in Nat /\ Len(Pending) \in Nat /\ pos + Len(Pending) <= Size
         /\ \A i \in 1..Len(Pending) : Pending[i].value = pos + i - 1
<1>0. Shape /\ url \in Urls /\ pos \in Nat /\ pc \in Answering /\ Len(sent) # ReqSize
  BY Zenon DEF AInv, HInv, Shape, Typed, Phases, Track, Answering
<1>1. PICK r \in Answers(url), k \in Nat : Part(Pending, Written(r), k) /\ Reading(r, k)
  BY <1>0, Zenon DEF AInv, Track, Tracked
<1>2. Good(url, r)
  BY <1>0, AnswersGood, Zenon
<1>3. r.code = 200 /\ k = HeadEnd(r) + pos
  BY <1>1, Zenon DEF Reading
<1>4. r \in Responses /\ Laid(r, Written(r)) /\ r.body = Body
  BY <1>2, <1>3, Zenon DEF Good
<1>5. Len(Body) = Size /\ \A i \in 1..Size : Body[i].value = i - 1
  BY Numbers DEF Body, Byte
<1> DEFINE W == Written(r)
           n == Len(Pending)
           h == HeadEnd(r)
<1>6. Len(W) = h + Size /\ \A i \in 1..Size : W[h + i] = Body[i]
  BY <1>4, <1>5, Zenon DEF Laid
<1>7. h \in Nat /\ n \in Nat
  <2>1. n \in Nat
    BY <1>0, PendingBytes, Zenon DEF Follow
  <2> QED
    BY <2>1, <1>4, Places, Zenon
<1>8. k + n <= Len(W) /\ \A i \in 1..n : Pending[i] = W[k + i]
  BY <1>1, Zenon DEF Part
<1> HIDE DEF W, n, h
<1>9. pos + n <= Size
  BY <1>0, <1>3, <1>6, <1>7, <1>8, Numbers DEF h
<1>10. ASSUME NEW i \in 1..n PROVE Pending[i].value = pos + i - 1
  <2>1. pos + i \in 1..Size /\ k + i = h + (pos + i) /\ (pos + i) - 1 = pos + i - 1
    BY <1>0, <1>3, <1>7, <1>9, Numbers DEF h
  <2>2. Pending[i] = Body[pos + i]
    BY <1>6, <1>8, <2>1, Zenon
  <2> QED
    BY <1>5, <2>1, <2>2, Zenon
<1> QED
  BY <1>0, <1>7, <1>9, <1>10, Zenon DEF n

(* A size_t that does not wrap around.                                       *)
LEMMA ModSmall ==
  ASSUME NEW x \in Nat, NEW w \in Nat, x < w
  PROVE  (x % w) = x
OBVIOUS

(* What read_https waits for.                                                *)
LEMMA GoalIs ==
  ASSUME WellServed, AInv, Honest, ~failed
  PROVE  /\ Goal \in Nat /\ Goal <= Size /\ Goal <= need
         /\ Goal < need => Goal = Size - pos
         /\ length_remaining = Size - pos
<1>1. /\ pos \in Nat /\ pos <= Size /\ length_remaining = Size - pos /\ need \in Nat
  <2>1. task = "body" /\ content_length = Size
    BY Zenon DEF Honest
  <2>2. pos \in Nat /\ Len(Pending) \in Nat /\ pos + Len(Pending) <= Size
    BY <2>1, BodyAt, Zenon
  <2> QED
    BY <2>1, <2>2, Numbers DEF AInv, Counts, Typed
<1>2. length_remaining \in Nat /\ length_remaining < Width
  BY <1>1, Numbers
<1>3. (length_remaining % Width) = length_remaining
  BY <1>2, ModSmall, Numbers, Zenon
<1>4. Goal = IF need > length_remaining THEN length_remaining ELSE need
  BY <1>3, Zenon DEF Goal
<1> QED
  BY <1>1, <1>4, Numbers

(* A read that comes back with n bytes has enough of them, or all there are. *)
LEMMA Enough ==
  ASSUME WellServed, AInv, Honest, ~failed, NEW n \in Nat, n >= Goal, pos + n <= Size
  PROVE  n >= need \/ pos + n = Size
<1>1. pos \in Nat /\ need \in Nat
  BY Zenon DEF AInv, Typed
<1> QED
  BY <1>1, GoalIs, Numbers

-----------------------------------------------------------------------------
(* The steps that leave the pending bytes as they are.                       *)
LEMMA SameShift ==
  ASSUME Shape, Shape', UNCHANGED <<buf, wire, consumed>>
  PROVE  Shift(0)
<1>1. Follow(Pending, buf, consumed, wire) /\ Follow(Pending', buf, consumed + 0, wire)
  <2>1. Follow(Pending', buf, consumed, wire) /\ consumed \in Nat
    BY PendingBytesAfter, Zenon DEF Shape
  <2>2. consumed + 0 = consumed
    BY <2>1
  <2> QED
    BY <2>1, <2>2, PendingBytes, Zenon
<1>2. Len(Pending') + 0 = Len(Pending) /\ \A i \in 1..Len(Pending') : Pending'[i] = Pending[0 + i]
  BY <1>1, ShiftTaken, 0 \in Nat
<1>3. Len(Pending) \in Nat
  BY <1>1, Zenon DEF Follow
<1> QED
  BY <1>2, <1>3 DEF Shift

(* Compressing the buffer takes nothing.                                     *)
LEMMA CompressShift ==
  ASSUME Shape, Shape', buf' = Rest, consumed' = 0, UNCHANGED wire
  PROVE  Shift(0) /\ Len(buf') <= Len(buf)
<1>1. /\ Rest \in Seq(Bytes) /\ Len(Rest) = Len(buf) - consumed
      /\ \A i \in 1..(Len(buf) - consumed) : Rest[i] = buf[consumed + i]
  BY RestBytes, Zenon DEF avail
<1>2. Follow(Pending, buf, consumed, wire) /\ Follow(Pending', Rest, 0, wire)
  BY PendingBytes, PendingBytesAfter, Zenon
<1> DEFINE n == Len(buf) - consumed
<1>3. /\ Len(Pending) = n + Len(wire) /\ n \in Nat /\ Len(wire) \in Nat
      /\ \A i \in 1..n : Pending[i] = buf[consumed + i]
      /\ \A i \in 1..Len(wire) : Pending[n + i] = wire[i]
      /\ consumed \in Nat /\ Len(buf) \in Nat
  BY <1>2 DEF Follow
<1>4. /\ Len(Pending') = n + Len(wire)
      /\ \A i \in 1..n : Pending'[i] = Rest[i]
      /\ \A i \in 1..Len(wire) : Pending'[n + i] = wire[i]
  BY <1>1, <1>2, <1>3 DEF Follow
<1>5. ASSUME NEW i \in 1..Len(Pending') PROVE Pending'[i] = Pending[0 + i]
  <2>0. i \in Nat /\ 1 <= i /\ i <= n + Len(wire) /\ 0 + i = i
    BY <1>3, <1>4
  <2>1. CASE i <= n
    <3>1. i \in 1..n
      BY <1>3, <2>0, <2>1
    <3> HIDE DEF n
    <3>2. Pending'[i] = Rest[i] /\ Pending[i] = buf[consumed + i]
      BY <1>3, <1>4, <3>1, Zenon
    <3> QED
      BY <1>1, <2>0, <3>1, <3>2, Zenon DEF n
  <2>2. CASE ~(i <= n)
    <3> DEFINE j == i - n
    <3>1. j \in 1..Len(wire) /\ i = n + j
      BY <1>3, <2>0, <2>2
    <3> HIDE DEF n, j
    <3> QED
      BY <1>3, <1>4, <2>0, <3>1, Zenon
  <2> QED
    BY <2>1, <2>2, Zenon
<1>6. Len(Pending') + 0 <= Len(Pending) /\ Len(Rest) <= Len(buf)
  BY <1>1, <1>3, <1>4
<1> QED
  BY <1>5, <1>6, Zenon DEF Shift

(* recv takes nothing either.                                                *)
LEMMA RecvShift ==
  ASSUME Shape, Shape', consumed = 0, consumed' = 0, NEW r \in 1..Len(wire),
         buf' = buf \o SubSeq(wire, 1, r), wire' = SubSeq(wire, r + 1, Len(wire))
  PROVE  Shift(0) /\ Len(buf') = Len(buf) + r /\ Len(buf') <= Len(Pending)
<1>0. buf \in Seq(Bytes) /\ wire \in Seq(Bytes) /\ Len(wire) \in Nat /\ Len(buf) \in Nat
  BY DEF Shape
<1> DEFINE s == SubSeq(wire, 1, r)
           t == SubSeq(wire, r + 1, Len(wire))
<1>1. s \in Seq(Bytes) /\ Len(s) = r /\ \A i \in 1..r : s[i] = wire[i]
  BY <1>0
<1>2. Len(t) = Len(wire) - r /\ \A i \in 1..(Len(wire) - r) : t[i] = wire[r + i]
  BY <1>0
<1> HIDE DEF s, t
<1>3. /\ Len(buf \o s) = Len(buf) + Len(s)
      /\ \A i \in 1..Len(buf) : (buf \o s)[i] = buf[i]
      /\ \A i \in 1..Len(s) : (buf \o s)[Len(buf) + i] = s[i]
  BY <1>0, <1>1, Joined, Zenon
<1>4. buf' = buf \o s /\ wire' = t
  BY Zenon DEF s, t
<1>5. r \in 0..Len(wire) /\ Len(buf') = Len(buf) + r /\ Len(wire') = Len(wire) - r
  BY <1>0, <1>1, <1>2, <1>3, <1>4
<1>6. Moved(buf, wire, buf', wire', r)
  <2>1. \A i \in 1..Len(buf) : buf'[i] = buf[i]
    BY <1>3, <1>4, Zenon
  <2>2. \A i \in 1..r : buf'[Len(buf) + i] = wire[i]
    BY <1>1, <1>3, <1>4, Zenon
  <2>3. \A i \in 1..(Len(wire) - r) : wire'[i] = wire[r + i]
    BY <1>2, <1>4, Zenon
  <2> QED
    BY <1>5, <2>1, <2>2, <2>3, Zenon DEF Moved
<1>7. Follow(Pending, buf, 0, wire) /\ Follow(Pending', buf', 0, wire')
  BY PendingBytes, PendingBytesAfter, Zenon
<1>8. Len(Pending') = Len(Pending) /\ \A i \in 1..Len(Pending') : Pending'[i] = Pending[i]
  BY <1>6, <1>7, SameReceived
<1>9. Len(Pending) \in Nat /\ Len(Pending) = Len(buf) + Len(wire)
  BY <1>0, <1>7 DEF Follow
<1>10. \A i \in 1..Len(Pending') : Pending'[i] = Pending[0 + i]
  BY <1>8, <1>9
<1>11. Len(Pending') + 0 <= Len(Pending) /\ Len(buf') <= Len(Pending)
  BY <1>0, <1>5, <1>8, <1>9
<1> QED
  BY <1>5, <1>10, <1>11, Zenon DEF Shift

-----------------------------------------------------------------------------
(* The buffer is compressed, for a header line or for the caller.            *)
LEMMA CompressInv ==
  ASSUME WellServed, AInv, HInv', LineWaits \/ Fetch
  PROVE  AInv'
<1>0. Shape /\ Shape' /\ pos \in Nat
  BY Zenon DEF AInv, HInv, Typed
<1>1. /\ buf' = Rest /\ consumed' = 0 /\ pc' = "recv" /\ pc \in {"line", "entry"}
      /\ UNCHANGED <<url, redirects, conn, sent, bufsz, line_len, headers, task, caller>>
  BY Zenon DEF LineWaits, Fetch, Compress, Front
<1>2. /\ need' \in Nat /\ length_remaining' \in Int /\ length_remaining' <= Max64
      /\ task = "body" => length_remaining' = length_remaining /\ pc = "entry"
  BY Numbers DEF LineWaits, Fetch, AInv, Typed, Phases
<1>3. Shift(0) /\ Len(buf') <= Len(buf) /\ Len(buf') \in Nat /\ Len(buf) \in Nat
  <2>1. wire' = wire
    BY <1>1, Zenon DEF conn
  <2>2. Len(buf') \in Nat /\ Len(buf) \in Nat
    BY <1>0 DEF Shape
  <2> QED
    BY <1>0, <1>1, <2>1, <2>2, CompressShift, Zenon
<1>4. Typed'
  BY <1>1, <1>2, <1>3 DEF AInv, Typed, conn, headers, caller, avail
<1>5. Track'
  <2>1. UNCHANGED <<url, host, sent, task, code, location, content_length>> /\ pos' = pos + 0
    BY <1>0, <1>1 DEF conn, headers, caller
  <2> QED
    BY <1>0, <1>1, <1>3, <2>1, Carry, 0 \in Nat, Zenon DEF AInv, Answering
<1>6. Phases'
  BY <1>1, Zenon DEF AInv, Phases, caller
<1>7. Counts'
  BY <1>1, <1>2, <1>3, Numbers DEF AInv, Counts, Honest, headers, caller, avail
<1> QED
  BY <1>4, <1>5, <1>6, <1>7, Zenon DEF AInv

(* A header line that has not ended yet.                                     *)
LEMMA GoesOnInv ==
  ASSUME WellServed, AInv, HInv', LineGoesOn
  PROVE  AInv'
<1>0. Shape /\ Shape' /\ pos \in Nat /\ pc = "line" /\ task # "body"
  BY Zenon DEF AInv, HInv, Typed, Phases, LineGoesOn
<1>1. Len(Rest) \in Nat /\ Len(sent) # ReqSize
  <2>1. Len(Rest) \in Nat
    BY <1>0, RestBytes
  <2>2. consumed + line_len + 1 <= Len(buf) /\ line_len \in Nat
    BY Zenon DEF LineGoesOn, Served, avail, AInv, Typed
  <2>3. Len(Pending) # 0
    BY <1>0, <2>2, PendingBytes DEF Follow
  <2> QED
    BY <2>1, <2>3, Zenon DEF AInv, Track
<1>2. CASE Err /\ UNCHANGED redirects
  BY <1>0, <1>1, <1>2, ErrInv, Zenon DEF AInv, Typed
<1>3. CASE /\ line_len' = Len(Rest)
           /\ UNCHANGED <<url, redirects, conn, sent, buffer, need, headers, task, pc, caller>>
  <2>1. Typed'
    BY <1>1, <1>3, Zenon DEF AInv, Typed, conn, buffer, headers, caller, avail
  <2>2. Shift(0)
    BY <1>0, <1>3, SameShift, Zenon DEF conn, buffer
  <2>3. UNCHANGED <<url, host, sent, task, code, location, content_length>> /\ pos' = pos + 0
    BY <1>0, <1>3 DEF conn, headers, caller
  <2>4. Track'
    BY <1>0, <1>3, <2>2, <2>3, Carry, 0 \in Nat, Zenon DEF AInv, Answering
  <2>5. Phases' /\ Counts'
    BY <1>3, Zenon DEF AInv, Phases, Counts, Honest, buffer, headers, caller, avail
  <2> QED
    BY <2>1, <2>4, <2>5, Zenon DEF AInv
<1> QED
  BY <1>2, <1>3, Zenon DEF LineGoesOn

(* The peer closes the connection: the bytes that were not sent are lost     *)
(* from the end.                                                             *)
LEMMA HangUpInv ==
  ASSUME WellServed, AInv, HInv', HangUp
  PROVE  AInv'
<1>0. Shape /\ Shape' /\ pos \in Nat /\ wire \in Seq(Bytes)
  BY Zenon DEF AInv, HInv, Shape, Typed
<1>1. PICK n \in 0..Len(wire) : wire' = SubSeq(wire, 1, n)
  BY Zenon DEF HangUp
<1>2. /\ hung' = TRUE
      /\ UNCHANGED <<url, redirects, host, sent, buffer, need, line_len, headers, task, pc, caller>>
  BY Zenon DEF HangUp
<1>3. Len(wire) \in Nat /\ Len(wire') = n /\ \A i \in 1..n : wire'[i] = wire[i]
  BY <1>0, <1>1
<1>4. Shift(0)
  <2>1. Follow(Pending, buf, consumed, wire) /\ Follow(Pending', buf, consumed, wire')
    BY <1>0, <1>2, PendingBytes, PendingBytesAfter, Zenon DEF buffer
  <2> DEFINE m == Len(buf) - consumed
  <2>2. /\ Len(Pending) = m + Len(wire) /\ Len(Pending') = m + n /\ m \in Nat
        /\ \A i \in 1..m : Pending[i] = buf[consumed + i]
        /\ \A i \in 1..m : Pending'[i] = buf[consumed + i]
        /\ \A i \in 1..Len(wire) : Pending[m + i] = wire[i]
        /\ \A i \in 1..n : Pending'[m + i] = wire'[i]
    BY <1>3, <2>1 DEF Follow
  <2> HIDE DEF m
  <2>3. ASSUME NEW i \in 1..Len(Pending') PROVE Pending'[i] = Pending[0 + i]
    <3>0. i \in Nat /\ 1 <= i /\ i <= m + n /\ 0 + i = i
      BY <1>3, <2>2
    <3>1. CASE i <= m
      <4>1. i \in 1..m
        BY <2>2, <3>0, <3>1
      <4> QED
        BY <2>2, <3>0, <4>1, Zenon
    <3>2. CASE ~(i <= m)
      <4> DEFINE j == i - m
      <4>1. j \in 1..n /\ j \in 1..Len(wire) /\ i = m + j
        BY <1>3, <2>2, <3>0, <3>2
      <4> HIDE DEF j
      <4> QED
        BY <1>3, <2>2, <3>0, <4>1, ZenonT(40)
    <3> QED
      BY <3>1, <3>2, Zenon
  <2>4. Len(Pending') + 0 <= Len(Pending)
    BY <1>3, <2>2
  <2> QED
    BY <2>3, <2>4, Zenon DEF Shift
<1>5. Typed'
  BY <1>2, Zenon DEF AInv, Typed, buffer, headers, caller, avail
<1>6. Track'
  <2>1. CASE pc \in Answering
    <3>1. UNCHANGED <<url, host, sent, task, code, location, content_length>> /\ pos' = pos + 0
      BY <1>0, <1>2 DEF headers, caller
    <3>2. task = "status" => pc' \in {"line", "recv"}
      BY <1>2, <2>1, Zenon DEF AInv, Phases, Answering
    <3> QED
      BY <1>0, <1>2, <1>4, <2>1, <3>1, <3>2, Carry, 0 \in Nat, Zenon DEF AInv
  <2>2. CASE pc \notin Answering
    <3>1. Len(Pending) = 0 => Len(Pending') = 0
      BY <1>0, <1>4, PendingBytes, PendingBytesAfter DEF Shift, Follow
    <3> QED
      BY <1>2, <2>2, <3>1, Zenon DEF AInv, Track
  <2> QED
    BY <2>1, <2>2, Zenon
<1>7. Phases' /\ Counts'
  BY <1>2, Zenon DEF AInv, Phases, Counts, Honest, buffer, headers, caller, avail
<1> QED
  BY <1>5, <1>6, <1>7, Zenon DEF AInv

LEMMA Within ==
  ASSUME NEW p \in Nat, NEW l \in Nat, NEW m \in Nat, NEW s \in Nat, l <= m, p + m <= s
  PROVE  p + l <= s
OBVIOUS

(* The caller reads on.                                                      *)
LEMMA CallInv ==
  ASSUME WellServed, AInv, HInv', NEW c \in 0..len, NEW n \in Nat, Call(c, n)
  PROVE  AInv'
<1>0. Shape /\ Shape' /\ pos \in Nat /\ len \in Nat /\ c \in Nat
  BY DEF AInv, HInv, Shape, Typed
<1>1. /\ pc = "idle" /\ pc' = "entry" /\ consumed' = consumed + c /\ need' = n
      /\ length_remaining' = length_remaining - c /\ pos' = pos + c /\ len' = 0 /\ view' = Empty
      /\ UNCHANGED <<url, redirects, conn, sent, buf, bufsz, line_len, headers, task, failed>>
  BY Zenon DEF Call
<1>2. task = "body"
  BY <1>1, Zenon DEF AInv, Phases
<1>3. Shift(c)
  <2>1. Follow(Pending, buf, consumed, wire) /\ Follow(Pending', buf, consumed + c, wire)
    BY <1>0, <1>1, PendingBytes, PendingBytesAfter, Zenon DEF conn
  <2>2. /\ Len(Pending') + c = Len(Pending)
        /\ \A i \in 1..Len(Pending') : Pending'[i] = Pending[c + i]
    BY <1>0, <2>1, ShiftTaken
  <2>3. Len(Pending) \in Nat
    BY <2>1, Zenon DEF Follow
  <2> QED
    BY <2>2, <2>3 DEF Shift
<1>4. Typed'
  <2>1. length_remaining' \in Int /\ length_remaining' <= Max64 /\ pos' \in Nat
    BY <1>0, <1>1, Numbers DEF AInv, Typed
  <2> QED
    BY <1>1, <2>1, Zenon DEF AInv, Typed, conn, headers, avail
<1>5. Track'
  <2>1. UNCHANGED <<url, host, sent, task, code, location, content_length>>
    BY <1>1, Zenon DEF conn, headers
  <2> QED
    BY <1>0, <1>1, <1>2, <1>3, <2>1, Carry, Zenon DEF AInv, Answering
<1>6. Phases'
  BY <1>1, <1>2, Zenon DEF AInv, Phases
<1>7. Counts'
  BY <1>0, <1>1, <1>2 DEF AInv, Counts, Typed, headers, avail
<1> QED
  BY <1>4, <1>5, <1>6, <1>7, Zenon DEF AInv

(* A read that the buffer can serve.                                         *)
LEMMA ServiceInv ==
  ASSUME WellServed, AInv, HInv', Service
  PROVE  AInv'
<1>0. Shape /\ Shape' /\ pos \in Nat
  BY Zenon DEF AInv, HInv, Typed
<1>1. /\ pc = "entry" /\ pc' = "idle" /\ InBuffer /\ len' = Len(buf) - consumed
      /\ UNCHANGED <<url, redirects, conn, sent, buffer, need, line_len, headers, task, pos, failed>>
  BY Zenon DEF Service, ReturnFrom
<1>2. task = "body"
  BY <1>1, Zenon DEF AInv, Phases
<1>3. Typed'
  BY <1>1, Zenon DEF AInv, Typed, conn, buffer, headers, avail
<1>4. Track'
  <2>1. UNCHANGED <<url, host, sent, task, code, location, content_length>> /\ pos' = pos + 0
    BY <1>0, <1>1 DEF conn, headers
  <2>2. Shift(0)
    BY <1>0, <1>1, SameShift, Zenon DEF conn, buffer
  <2> QED
    BY <1>0, <1>1, <1>2, <2>1, <2>2, Carry, 0 \in Nat, Zenon DEF AInv, Answering
<1>5. Phases'
  BY <1>1, <1>2, Zenon DEF AInv, Phases
<1>6. Counts'
  <2>1. ASSUME Honest, ~failed PROVE len' >= need \/ pos + len' = Size
    <3>1. /\ Len(buf) \in Nat /\ consumed \in Nat /\ consumed <= Len(buf)
          /\ len' <= Len(Pending) /\ Len(Pending) \in Nat /\ len' \in Nat
      BY <1>0, <1>1, PendingBytes DEF Follow
    <3>2. Goal \in Nat /\ Goal <= Size
      BY <2>1, GoalIs, Zenon
    <3>3. ((consumed + Goal) % Width) <= Len(buf)
      BY <1>1, Zenon DEF InBuffer, avail
    <3>4. consumed + Goal \in Nat /\ consumed + Goal < Width
      BY <3>1, <3>2, Numbers DEF AInv, Counts, avail
    <3>5. ((consumed + Goal) % Width) = consumed + Goal
      BY <3>4, ModSmall, Numbers, Zenon
    <3>6. len' >= Goal
      BY <1>1, <3>1, <3>2, <3>3, <3>5
    <3>7. pos + len' <= Size
      <4>1. pos + Len(Pending) <= Size
        BY <1>2, BodyAt, Zenon
      <4> QED
        BY <1>0, <3>1, <4>1, Within, Numbers, Zenon
    <3> QED
      BY <2>1, <3>1, <3>6, <3>7, Enough, Zenon
  <2>2. /\ avail' + Size < Width
        /\ task' = "body" /\ ~failed' => length_remaining' = content_length' - pos'
    BY <1>1, Zenon DEF AInv, Counts, buffer, headers, avail
  <2> QED
    BY <1>1, <2>1, <2>2, Zenon DEF Counts, Honest, headers
<1> QED
  BY <1>3, <1>4, <1>5, <1>6, Zenon DEF AInv

(* A read that fails.                                                        *)
LEMMA RecvFailsInv ==
  ASSUME WellServed, AInv, HInv', RecvFails
  PROVE  AInv'
<1>0. Shape /\ Shape' /\ pos \in Nat /\ bufsz \in Nat /\ Len(buf) <= bufsz /\ Len(buf) \in Nat
  BY DEF AInv, HInv, Shape, Typed, avail
<1>1. /\ pc = "recv" /\ ReadFails
      /\ UNCHANGED <<url, redirects, conn, sent, buf, consumed, need, headers, task>>
  BY Zenon DEF RecvFails
<1>2. bufsz' \in Nat /\ Len(buf) <= bufsz'
  BY <1>0, Numbers DEF RecvFails, Grown
<1>3. /\ length_remaining' = 0 /\ UNCHANGED <<view, len, pos>>
      /\ task = "body" => pc' = "idle" /\ failed' = TRUE /\ line_len' = line_len
      /\ task # "body" => pc' = "line" /\ line_len' = 0 /\ failed' = failed
  BY <1>1, Zenon DEF ReadFails
<1>4. Typed'
  <2>1. length_remaining' \in Int /\ length_remaining' <= Max64
    BY <1>3, Numbers
  <2>2. pc' \in {"line", "idle"} /\ line_len' \in Nat /\ failed' \in BOOLEAN
    BY <1>3, 0 \in Nat, Zenon DEF AInv, Typed
  <2> QED
    BY <1>1, <1>2, <1>3, <2>1, <2>2, Zenon DEF AInv, Typed, conn, headers, avail
<1>5. Track'
  <2>1. UNCHANGED <<url, host, sent, task, code, location, content_length>> /\ pos' = pos + 0
    BY <1>0, <1>1, <1>3 DEF conn, headers
  <2>2. Shift(0)
    BY <1>0, <1>1, SameShift, Zenon DEF conn
  <2> QED
    BY <1>0, <1>1, <1>3, <2>1, <2>2, Carry, 0 \in Nat, Zenon DEF AInv, Answering
<1>6. Phases'
  BY <1>1, <1>3 DEF AInv, Phases
<1>7. Counts'
  BY <1>1, <1>3, Zenon DEF AInv, Counts, Honest, avail
<1> QED
  BY <1>4, <1>5, <1>6, <1>7, Zenon DEF AInv

(* Bytes arrive.                                                             *)
LEMMA RecvInv ==
  ASSUME WellServed, AInv, HInv', Recv
  PROVE  AInv'
<1>0. /\ Shape /\ Shape' /\ pos \in Nat /\ bufsz \in Nat /\ Len(buf) <= bufsz /\ Len(buf) \in Nat
      /\ Len(buf') \in Nat
  BY DEF AInv, HInv, Shape, Typed, avail
<1>1. PICK r \in 1..Len(wire) : /\ r <= Grown - avail
                                /\ buf' = buf \o SubSeq(wire, 1, r)
                                /\ wire' = SubSeq(wire, r + 1, Len(wire))
  BY Zenon DEF Recv
<1>2. /\ pc = "recv" /\ bufsz' = Grown
      /\ UNCHANGED <<url, redirects, faults, host, sent, hung, consumed, need, headers, task>>
  BY Zenon DEF Recv
<1>3. consumed = 0 /\ consumed' = 0 /\ len = 0
  BY <1>2, Zenon DEF AInv, HInv, Pointing
<1>4. Shift(0) /\ Len(buf') = Len(buf) + r /\ Len(buf') <= Len(Pending)
  BY <1>0, <1>1, <1>3, RecvShift, Zenon
<1>5. bufsz' \in Nat /\ Len(buf') <= bufsz'
  BY <1>0, <1>1, <1>2, <1>4, Numbers DEF Grown, avail
<1>6. pos' = pos
  BY Zenon DEF Recv, ReadFails, caller
<1>7. Track' \/ ~(pc' \in Answering /\ (task = "status" => pc' \in {"line", "recv"}))
  <2>1. UNCHANGED <<url, host, sent, task, code, location, content_length>> /\ pos' = pos + 0
    BY <1>0, <1>2, <1>6 DEF headers
  <2> QED
    BY <1>0, <1>2, <1>4, <2>1, Carry, 0 \in Nat, Zenon DEF AInv, Answering
<1>8. avail' + Size < Width
  <2>1. CASE Len(sent) = ReqSize
    <3>1. Len(Pending) = 0
      BY <2>1, Zenon DEF AInv, Track
    <3> QED
      BY <1>0, <1>1, <1>4, <3>1
  <2>2. CASE Len(sent) # ReqSize
    <3>1. PICK q \in Answers(url), k \in Nat : Part(Pending, Written(q), k)
      BY <1>2, <2>2, Zenon DEF AInv, Track, Tracked, Answering
    <3>2. Good(url, q)
      BY <1>0, AnswersGood, Zenon DEF Shape
    <3>3. Len(Written(q)) + Size < Width /\ Written(q) \in Seq(Bytes)
      BY <3>2, Zenon DEF Good
    <3>4. k + Len(Pending) <= Len(Written(q)) /\ Len(Pending) \in Nat
      BY <1>0, <3>1, PendingBytes, Zenon DEF Part, Follow
    <3> QED
      BY <1>0, <1>4, <3>3, <3>4, Numbers DEF avail
  <2> QED
    BY <2>1, <2>2, Zenon
<1>9. CASE ReadFails
  <2>1. /\ length_remaining' = 0 /\ UNCHANGED <<view, len, pos>>
        /\ task = "body" => pc' = "idle" /\ failed' = TRUE /\ line_len' = line_len
        /\ task # "body" => pc' = "line" /\ line_len' = 0 /\ failed' = failed
    BY <1>9, Zenon DEF ReadFails
  <2>2. Typed'
    <3>1. length_remaining' \in Int /\ length_remaining' <= Max64
      BY <2>1, Numbers
    <3>2. pc' \in {"line", "idle"} /\ line_len' \in Nat /\ failed' \in BOOLEAN
      BY <2>1, 0 \in Nat, Zenon DEF AInv, Typed
    <3> QED
      BY <1>2, <1>5, <2>1, <3>1, <3>2, Zenon DEF AInv, Typed, headers, avail
  <2>3. Track'
    BY <1>7, <2>1, Zenon DEF Answering, AInv, Typed
  <2>4. Phases'
    BY <1>2, <2>1 DEF AInv, Phases
  <2>5. Counts'
    BY <1>2, <1>8, <2>1, Zenon DEF AInv, Counts, Honest
  <2> QED
    BY <2>2, <2>3, <2>4, <2>5, Zenon DEF AInv
<1>10. CASE UNCHANGED <<length_remaining, line_len, pc, caller>>
  <2>1. Typed'
    BY <1>2, <1>5, <1>10, Zenon DEF AInv, Typed, headers, caller, avail
  <2>2. Track'
    BY <1>2, <1>7, <1>10, Zenon DEF Answering
  <2>3. Phases'
    BY <1>2, <1>10, Zenon DEF AInv, Phases, caller
  <2>4. Counts'
    BY <1>2, <1>8, <1>10, ZenonT(40) DEF AInv, Counts, Honest, headers, caller
  <2> QED
    BY <2>1, <2>2, <2>3, <2>4, Zenon DEF AInv
<1>11. CASE /\ Len(buf') >= Goal
            /\ IF task = "body" THEN ReturnFrom(buf', 0) ELSE pc' = "line" /\ UNCHANGED <<view, len>>
            /\ UNCHANGED <<length_remaining, line_len, pos, failed>>
  <2>1. /\ task = "body" => pc' = "idle" /\ len' = Len(buf')
        /\ task # "body" => pc' = "line" /\ UNCHANGED <<view, len>>
    BY <1>0, <1>11 DEF ReturnFrom
  <2>2. Typed'
    BY <1>2, <1>5, <1>11, <2>1, Zenon DEF AInv, Typed, headers, avail
  <2>3. Track'
    BY <1>7, <2>1, Zenon DEF Answering, AInv, Typed
  <2>4. Phases'
    BY <1>2, <1>11, <2>1, Zenon DEF AInv, Phases
  <2>5. ASSUME Honest, ~failed PROVE len' >= need \/ pos + len' = Size
    <3>1. task = "body" /\ len' = Len(buf')
      BY <2>1, <2>5, Zenon DEF Honest
    <3>2. pos + Len(Pending) <= Size /\ Len(Pending) \in Nat
      BY <3>1, BodyAt, Zenon
    <3>3. pos + len' <= Size /\ len' \in Nat
      BY <1>0, <1>4, <3>1, <3>2, Numbers
    <3> QED
      BY <1>11, <2>5, <3>1, <3>3, Enough, Zenon
  <2>6. Counts'
    BY <1>2, <1>8, <1>11, <2>1, <2>5, Zenon DEF AInv, Counts, Honest, headers
  <2> QED
    BY <2>2, <2>3, <2>4, <2>6, Zenon DEF AInv
<1> QED
  BY <1>9, <1>10, <1>11, Zenon DEF Recv

(* The server answers a request that has been sent completely.               *)
LEMMA AnswerInv ==
  ASSUME WellServed, AInv, HInv', Answer
  PROVE  AInv'
<1>0. /\ Shape /\ Shape' /\ url \in Urls /\ wire \in Seq(Bytes) /\ Len(sent) = ReqSize
      /\ pc \in {"line", "recv"} /\ task = "status" /\ Len(Pending) = 0 /\ host = Site[url]
  BY Zenon DEF AInv, HInv, Shape, Answer, Track, Answering
<1>1. PICK r \in Answers(url) : wire' = wire \o Written(r)
  BY Zenon DEF Answer, Answers
<1>2. /\ sent' = << >>
      /\ UNCHANGED <<url, redirects, host, hung, buffer, need, line_len, headers, task, pc, caller>>
  BY Zenon DEF Answer
<1>3. Good(url, r) /\ Written(r) \in Seq(Bytes)
  <2>1. Good(url, r)
    BY <1>0, AnswersGood, Zenon
  <2> QED
    BY <2>1, Zenon DEF Good
<1>4. Part(Pending', Written(r), 0)
  <2>1. /\ Follow(Pending, buf, consumed, wire) /\ Follow(Pending', buf, consumed, wire')
    BY <1>0, <1>2, PendingBytes, PendingBytesAfter, Zenon DEF buffer
  <2>2. Len(buf) - consumed = 0 /\ Len(wire) = 0
    BY <1>0, <2>1 DEF Follow
  <2>3. wire' = Written(r)
    <3>1. wire = << >>
      BY <1>0, <2>2
    <3> QED
      BY <1>1, <1>3, <3>1
  <2>4. Len(Pending') = Len(wire') /\ \A i \in 1..Len(wire') : Pending'[i] = wire'[i]
    <3>1. /\ Len(Pending') = (Len(buf) - consumed) + Len(wire') /\ Len(wire') \in Nat
          /\ \A i \in 1..Len(wire') : Pending'[(Len(buf) - consumed) + i] = wire'[i]
      BY <2>1, Zenon DEF Follow
    <3>2. \A i \in 1..Len(wire') : (Len(buf) - consumed) + i = i
      BY <2>2, <3>1
    <3> QED
      BY <2>2, <3>1, <3>2
  <2> QED
    BY <1>3, <2>3, <2>4 DEF Part
<1>5. Typed'
  BY <1>2 DEF AInv, Typed, buffer, headers, caller, avail
<1>6. Track'
  <2>1. Reading(r, 0)'
    BY <1>0, <1>2, Zenon DEF Reading
  <2>2. Tracked'
    BY <1>1, <1>2, <1>4, <2>1, 0 \in Nat, Zenon DEF Tracked, Answers
  <2>3. Len(sent') = 0
    BY <1>2, Zenon
  <2> QED
    BY <1>0, <1>2, <2>2, <2>3, Numbers, Zenon DEF Track, Answering
<1>7. Phases' /\ Counts'
  BY <1>2, Zenon DEF AInv, Phases, Counts, Honest, buffer, headers, caller, avail
<1> QED
  BY <1>5, <1>6, <1>7, Zenon DEF AInv

(* The line that ends at i is one of response r, behind its first k bytes.   *)
LineOf(r, k, i) ==
  /\ Good(url, r) /\ Part(Pending, Written(r), k) /\ Reading(r, k)
  /\ Written(r)[k + i] = Nl /\ \A j \in 1..(i - 1) : Written(r)[k + j] # Nl
  /\ Len(Line(i)) = i - 1
  /\ i # 1 => Line(i)[1] = Written(r)[k + 1]

(* The line that get_line finds is one of the response that is pending.      *)
LEMMA LineAt ==
  ASSUME WellServed, AInv, NEW i, LineEnds(i)
  PROVE  /\ pc = "line" /\ task # "body" /\ Len(sent) # ReqSize /\ i \in Nat \ {0}
         /\ \E r \in Answers(url), k \in Nat : LineOf(r, k, i)
<1>0. Shape /\ url \in Urls /\ pc = "line" /\ task # "body"
  BY Zenon DEF AInv, HInv, Shape, LineEnds, Phases
<1>1. /\ Rest \in Seq(Bytes) /\ Len(Rest) = Len(buf) - consumed
      /\ \A j \in 1..(Len(buf) - consumed) : Rest[j] = buf[consumed + j]
  BY <1>0, RestBytes, Zenon DEF avail
<1>2. Follow(Pending, buf, consumed, wire)
  BY <1>0, PendingBytes, Zenon
<1> DEFINE n == Len(buf) - consumed
<1>3. /\ n \in Nat /\ n <= Len(Pending) /\ \A j \in 1..n : Pending[j] = Rest[j]
  <2>1. n \in Nat /\ n <= Len(Pending)
    BY <1>2 DEF Follow
  <2>2. \A j \in 1..n : Pending[j] = buf[consumed + j]
    BY <1>2, Zenon DEF Follow
  <2> QED
    BY <1>1, <2>1, <2>2, Zenon
<1>4. i \in 1..n /\ Rest[i] = Nl /\ \A j \in 1..n : Rest[j] = Nl => i <= j
  BY <1>1 DEF LineEnds, Ends
<1> HIDE DEF n
<1>5. Len(sent) # ReqSize /\ i \in Nat \ {0}
  BY <1>3, <1>4 DEF AInv, Track
<1>6. PICK r \in Answers(url), k \in Nat : Part(Pending, Written(r), k) /\ Reading(r, k)
  BY <1>0, <1>5, Zenon DEF AInv, Track, Answering, Tracked
<1>7. Good(url, r)
  BY <1>0, AnswersGood, Zenon
<1>8. \A j \in 1..n : Rest[j] = Written(r)[k + j]
  <2>1. Len(Pending) \in Nat /\ \A j \in 1..Len(Pending) : Pending[j] = Written(r)[k + j]
    BY <1>2, <1>6, Zenon DEF Part, Follow
  <2> QED
    BY <1>3, <2>1
<1>9. /\ Written(r)[k + i] = Nl /\ \A j \in 1..(i - 1) : Written(r)[k + j] # Nl
  <2>1. ASSUME NEW j \in 1..(i - 1) PROVE Written(r)[k + j] # Nl
    <3>1. j \in 1..n /\ ~(i <= j)
      BY <1>3, <1>4
    <3> QED
      BY <1>4, <1>8, <3>1, Zenon
  <2> QED
    BY <1>4, <1>8, <2>1, Zenon
<1>10. Len(Line(i)) = i - 1 /\ (i # 1 => Line(i)[1] = Written(r)[k + 1])
  <2>1. Line(i) = [j \in 1..(i - 1) |-> Rest[j]]
    <3>1. i - 1 \in Nat /\ i - 1 <= Len(Rest)
      BY <1>1, <1>3, <1>4 DEF n
    <3> QED
      BY <1>1, <3>1 DEF Line
  <2>2. i - 1 \in Nat /\ 1 \in 1..n /\ (i # 1 => 1 \in 1..(i - 1))
    BY <1>3, <1>4
  <2>3. Len(Line(i)) = i - 1 /\ (i # 1 => Line(i)[1] = Rest[1])
    BY <2>1, <2>2
  <2> QED
    BY <1>8, <2>2, <2>3, Zenon
<1> QED
  BY <1>0, <1>5, <1>6, <1>7, <1>9, <1>10, Zenon DEF LineOf

(* When it has been taken, the rest of the response is pending.              *)
LEMMA LineGone ==
  ASSUME Shape, Shape', NEW i \in Nat \ {0}, consumed' = consumed + i, UNCHANGED <<buf, wire>>,
         NEW r, NEW k, LineOf(r, k, i)
  PROVE  Part(Pending', Written(r), k + i)
<1>1. Follow(Pending, buf, consumed, wire) /\ Follow(Pending', buf, consumed + i, wire)
  BY PendingBytes, PendingBytesAfter, Zenon
<1>2. Len(Pending') + i = Len(Pending) /\ \A j \in 1..Len(Pending') : Pending'[j] = Pending[i + j]
  BY <1>1, ShiftTaken
<1>3. Shift(i)
  BY <1>1, <1>2 DEF Shift, Follow
<1>4. Written(r) \in Seq(Bytes) /\ Part(Pending, Written(r), k)
  BY Zenon DEF LineOf, Good
<1> QED
  BY <1>3, <1>4, PartShift, Zenon

(* The first line of a response.                                             *)
LEMMA StatusLineInv ==
  ASSUME WellServed, AInv, HInv', NEW i, StatusLine(i)
  PROVE  AInv'
<1>0. Shape /\ Shape' /\ task = "status" /\ LineEnds(i) /\ host = Site[url] /\ pos = 0
  BY Zenon DEF AInv, HInv, StatusLine, LineEnds, Track, Answering, Phases
<1>1. pc = "line" /\ Len(sent) # ReqSize /\ i \in Nat \ {0}
  BY <1>0, LineAt, Zenon
<1>2. PICK r \in Answers(url), k \in Nat : LineOf(r, k, i)
  BY <1>0, LineAt, ZenonT(40)
<1>3. k = 0 /\ i = 2 /\ Line(i)[1] = Byte("status", r.code) /\ Len(Line(i)) = 1
  <2>1. /\ Laid(r, Written(r)) /\ Reading(r, k)
        /\ Written(r)[k + i] = Nl /\ \A j \in 1..(i - 1) : Written(r)[k + j] # Nl
        /\ Len(Line(i)) = i - 1
        /\ i # 1 => Line(i)[1] = Written(r)[k + 1]
    BY <1>2, Zenon DEF LineOf, Good
  <2>2. k = 0
    BY <1>0, <2>1, Zenon DEF Reading
  <2>3. Written(r)[1] = Byte("status", r.code) /\ Written(r)[2] = Nl
    BY <2>1, Zenon DEF Laid
  <2>4. Byte("status", r.code) # Nl
    BY NotNl, ZenonT(40)
  <2>5. i # 1
    BY <2>1, <2>2, <2>3, <2>4
  <2>6. ~(i > 2)
    <3>1. ASSUME i > 2 PROVE FALSE
      <4>1. 2 \in 1..(i - 1) /\ k + 2 = 2
        BY <1>1, <2>2, <3>1
      <4> QED
        BY <2>1, <2>3, <4>1, Zenon
    <3> QED
      BY <3>1, Zenon
  <2>7. i = 2 /\ k + 1 = 1
    BY <1>1, <2>2, <2>5, <2>6
  <2> QED
    BY <2>1, <2>2, <2>3, <2>7
<1>4. CodesIn(Line(i)) = {r.code}
  <2>1. Line(i)[1].kind = "status" /\ Line(i)[1].value = r.code
    BY <1>3, NotNl
  <2> QED
    BY <1>3, <2>1, Zenon DEF CodesIn, IsField
<1>5. /\ consumed' = consumed + i /\ line_len' = 0 /\ length_remaining' = Max64
      /\ UNCHANGED <<url, redirects, conn, sent, buf, bufsz, need, caller>>
      /\ \/ pc' = "err" /\ UNCHANGED <<headers, task>>
         \/ /\ code' = r.code /\ content_length' = -1 /\ location' = None
            /\ task' = "fields" /\ UNCHANGED pc
  BY <1>4, Zenon DEF StatusLine
<1>6. Typed'
  <2>1. content_length' \in Int /\ task' \in {"status", "fields"} /\ pc' \in {"err", "line"}
    BY <1>0, <1>1, <1>5 DEF headers, AInv, Typed
  <2> QED
    BY <1>5, <2>1, Numbers DEF AInv, Typed, conn, caller, avail
<1>7. Track'
  <2>1. CASE pc' = "err"
    BY <1>1, <1>5, <2>1, Zenon DEF Track, Answering
  <2>2. CASE /\ code' = r.code /\ content_length' = -1 /\ location' = None
             /\ task' = "fields" /\ UNCHANGED pc
    <3>1. Part(Pending', Written(r), k + i)
      BY <1>0, <1>1, <1>2, <1>5, LineGone, Zenon DEF conn
    <3>2. Reading(r, k + i)'
      <4>1. k + i = 2
        BY <1>3
      <4> QED
        BY <2>2, <4>1, Zenon DEF Reading, Parsed
    <3>3. Tracked'
      BY <1>1, <1>2, <1>5, <3>1, <3>2, Zenon DEF Tracked, Answers, Part
    <3> QED
      BY <1>0, <1>1, <1>5, <2>2, <3>3, Zenon DEF Track, Answering, conn
  <2> QED
    BY <1>5, <2>1, <2>2, Zenon
<1>8. Phases'
  BY <1>0, <1>1, <1>5, Zenon DEF AInv, Phases, caller
<1>9. Counts'
  BY <1>0, <1>1, <1>5, Zenon DEF AInv, Counts, avail
<1> QED
  BY <1>6, <1>7, <1>8, <1>9, Zenon DEF AInv

(* A header field.                                                           *)
LEMMA FieldInv ==
  ASSUME WellServed, AInv, HInv', NEW i, Field(i)
  PROVE  AInv'
<1>0. /\ Shape /\ Shape' /\ task = "fields" /\ LineEnds(i) /\ i > 1 /\ host = Site[url]
      /\ url \in Urls
  BY Zenon DEF AInv, HInv, Shape, Field, LineEnds, Track, Answering
<1>1. pc = "line" /\ Len(sent) # ReqSize /\ i \in Nat \ {0}
  BY <1>0, LineAt, Zenon
<1>2. PICK r \in Answers(url), k \in Nat : LineOf(r, k, i)
  BY <1>0, LineAt, Zenon
<1>3. /\ consumed' = consumed + i /\ line_len' = 0 /\ length_remaining' = Max64
      /\ UNCHANGED <<url, redirects, conn, sent, buf, bufsz, need, code, task, pc, caller>>
      /\ content_length' = IF IsField(Line(i), "length") THEN Line(i)[1].value ELSE content_length
      /\ location' = IF IsField(Line(i), "location") THEN Line(i)[1].value ELSE location
  BY Zenon DEF Field
<1>4. /\ r \in Responses /\ Worded(r) /\ Laid(r, Written(r)) /\ Reading(r, k)
      /\ Written(r)[k + i] = Nl /\ \A j \in 1..(i - 1) : Written(r)[k + j] # Nl
      /\ Len(Line(i)) = i - 1
      /\ i # 1 => Line(i)[1] = Written(r)[k + 1]
  BY <1>2, Zenon DEF LineOf, Good
<1>5. code = r.code /\ Parsed(r, k, location, content_length)
  BY <1>0, <1>4, ZenonT(40) DEF Reading
<1>6. \A kind : IsField(Line(i), kind) <=> i = 2 /\ Written(r)[k + 1].kind = kind
  BY <1>0, <1>1, <1>4 DEF IsField
<1>7. /\ location' = IF i = 2 /\ Written(r)[k + 1].kind = "location"
                       THEN Written(r)[k + 1].value ELSE location
      /\ content_length' = IF i = 2 /\ Written(r)[k + 1].kind = "length"
                             THEN Written(r)[k + 1].value ELSE content_length
  <2>1. i = 2 => i # 1
    OBVIOUS
  <2> QED
    BY <1>3, <1>4, <1>6, <2>1, ZenonT(40)
<1>8. Parsed(r, k + i, location', content_length')
  <2>1. i # 1
    BY <1>0
  <2>2. i # 1 => Parsed(r, k + i, location', content_length')
    BY <1>1, <1>4, <1>5, <1>7, NextLine, ZenonT(40)
  <2> QED
    BY <2>1, <2>2, Zenon
<1>9. Typed'
  <2>1. content_length' \in Int
    <3>1. r.length \in Int
      BY <1>4, Zenon DEF Responses
    <3> QED
      BY <1>8, <3>1 DEF Parsed, Given
  <2> QED
    BY <1>0, <1>1, <1>3, <2>1, Numbers DEF AInv, Typed, conn, caller, avail
<1>10. Track'
  <2>1. Part(Pending', Written(r), k + i)
    BY <1>0, <1>1, <1>2, <1>3, LineGone, Zenon DEF conn
  <2>2. Reading(r, k + i)'
    BY <1>0, <1>3, <1>5, <1>8, Zenon DEF Reading
  <2>3. Tracked'
    BY <1>1, <1>2, <1>3, <2>1, <2>2, Zenon DEF Tracked, Answers, Part
  <2> QED
    BY <1>0, <1>1, <1>3, <2>3, Zenon DEF Track, Answering, conn
<1>11. Phases'
  BY <1>0, <1>1, <1>3, Zenon DEF AInv, Phases, caller
<1>12. Counts'
  BY <1>0, <1>1, <1>3, Zenon DEF AInv, Counts, avail
<1> QED
  BY <1>9, <1>10, <1>11, <1>12, Zenon DEF AInv

(* The end of the header: a redirect, a body, or an error.                   *)
LEMMA EndOfFieldsInv ==
  ASSUME WellServed, AInv, HInv', NEW i, EndOfFields(i)
  PROVE  AInv'
<1>0. /\ Shape /\ Shape' /\ task = "fields" /\ LineEnds(i) /\ i = 1 /\ host = Site[url]
      /\ url \in Urls /\ pos = 0 /\ len = 0 /\ ~failed
  BY Zenon DEF AInv, HInv, Shape, EndOfFields, LineEnds, Track, Answering, Phases
<1>1. pc = "line" /\ Len(sent) # ReqSize /\ i \in Nat \ {0}
  BY <1>0, LineAt, Zenon
<1>2. PICK r \in Answers(url), k \in Nat : LineOf(r, k, i)
  BY <1>0, LineAt, Zenon
<1>3. /\ consumed' = consumed + i /\ line_len' = 0 /\ need' = 0
      /\ UNCHANGED <<redirects, conn, sent, buf, bufsz, headers, caller>>
  BY Zenon DEF EndOfFields
<1>4. /\ r \in Responses /\ Worded(r) /\ Laid(r, Written(r)) /\ Reading(r, k)
      /\ Written(r)[k + i] = Nl /\ \A j \in 1..(i - 1) : Written(r)[k + j] # Nl
      /\ Good(url, r)
  BY <1>2, Zenon DEF LineOf, Good
<1>5. code = r.code /\ Parsed(r, k, location, content_length)
  BY <1>0, <1>4, Zenon DEF Reading
<1>6. k = LengthEnd(r) /\ location = r.location /\ content_length = Given(r)
  <2>1. \E loc2 : loc2 = IF i = 2 /\ Written(r)[k + 1].kind = "location"
                           THEN Written(r)[k + 1].value ELSE location
    BY Zenon
  <2>2. \E cl2 : cl2 = IF i = 2 /\ Written(r)[k + 1].kind = "length"
                         THEN Written(r)[k + 1].value ELSE content_length
    BY Zenon
  <2> QED
    BY <1>0, <1>1, <1>4, <1>5, <2>1, <2>2, NextLine, ZenonT(40)
<1>7. Part(Pending', Written(r), k + i)
  BY <1>0, <1>1, <1>2, <1>3, LineGone, Zenon DEF conn
<1>8. k + i = HeadEnd(r) /\ HeadEnd(r) \in Nat
  BY <1>0, <1>4, <1>6, Places, Zenon
<1>9. avail' = avail /\ avail' + Size < Width
  BY <1>3, Zenon DEF AInv, Counts, avail
<1>10. CASE /\ code = 302 /\ location # None
            /\ url' = location
            /\ pc' = "url" /\ length_remaining' = Max64
            /\ UNCHANGED task
  <2>1. Typed'
    BY <1>3, <1>10, Numbers DEF AInv, Typed, conn, headers, caller, avail
  <2>2. Site[url'] = host => Len(Pending') = 0
    <3>1. ASSUME Site[url'] = host PROVE Len(r.body) = 0
      <4>1. r.body = << >>
        BY <1>0, <1>4, <1>5, <1>6, <1>10, <3>1, ZenonT(40) DEF Good
      <4> QED
        BY <4>1
    <3>2. Len(Written(r)) = HeadEnd(r) + Len(r.body)
      BY <1>4, Zenon DEF Laid
    <3>3. k + i + Len(Pending') <= Len(Written(r))
      BY <1>7, Zenon DEF Part
    <3>4. Len(Pending') \in Nat
      BY <1>0, PendingBytesAfter, Zenon DEF Follow
    <3>5. HeadEnd(r) + Len(Pending') <= HeadEnd(r) + Len(r.body)
      BY <1>8, <3>2, <3>3
    <3> QED
      BY <1>8, <3>1, <3>4, <3>5
  <2>3. Track'
    BY <1>1, <1>3, <1>10, <2>2, Zenon DEF Track, Answering, conn
  <2>4. Phases'
    BY <1>0, <1>1, <1>3, <1>10, Zenon DEF AInv, Phases, caller
  <2>5. Counts'
    BY <1>0, <1>9, <1>10, Zenon DEF Counts
  <2> QED
    BY <2>1, <2>3, <2>4, <2>5, Zenon DEF AInv
<1>11. CASE /\ code = 200 /\ content_length >= 0
            /\ length_remaining' = content_length
            /\ task' = "body" /\ pc' = "idle"
            /\ UNCHANGED url
  <2>0. content_length = r.length /\ r.length \in Int /\ r.length <= Max64
    <3>1. r.length \in Int /\ r.length <= Max64
      BY <1>4 DEF Good, Responses
    <3>2. Given(r) >= 0
      BY <1>6, <1>11
    <3>3. Given(r) = r.length
      BY <3>1, <3>2 DEF Given
    <3> QED
      BY <1>6, <3>1, <3>3
  <2>1. Typed'
    BY <1>3, <1>11, <2>0, Numbers, Zenon DEF AInv, Typed, conn, headers, caller, avail
  <2>2. Reading(r, k + i)'
    BY <1>0, <1>3, <1>5, <1>8, <1>11, <2>0 DEF Reading, headers, caller
  <2>3. Tracked'
    BY <1>7, <1>11, <2>2, Zenon DEF Tracked, Answers, Part
  <2>4. Track'
    BY <1>0, <1>1, <1>3, <1>11, <2>3, Zenon DEF Track, Answering, conn
  <2>5. Phases'
    BY <1>0, <1>1, <1>3, <1>11, Zenon DEF AInv, Phases, caller
  <2>6. Counts'
    BY <1>0, <1>3, <1>9, <1>11, <2>0 DEF Counts, headers, caller
  <2> QED
    BY <2>1, <2>4, <2>5, <2>6, Zenon DEF AInv
<1>12. CASE pc' = "err" /\ length_remaining' = Max64 /\ UNCHANGED <<url, task>>
  <2>1. Typed'
    BY <1>3, <1>12, Numbers DEF AInv, Typed, conn, headers, caller, avail
  <2>2. Track'
    BY <1>1, <1>3, <1>12, Zenon DEF Track, Answering
  <2>3. Phases'
    BY <1>0, <1>1, <1>3, <1>12, Zenon DEF AInv, Phases, caller
  <2>4. Counts'
    BY <1>0, <1>9, <1>12, Zenon DEF Counts
  <2> QED
    BY <2>1, <2>2, <2>3, <2>4, Zenon DEF AInv
<1> QED
  BY <1>10, <1>11, <1>12, Zenon DEF EndOfFields

-----------------------------------------------------------------------------
(* Every step of the client and of the server keeps the invariant.           *)
LEMMA HttpInv ==
  ASSUME WellServed, AInv, Step \/ Answer \/ HangUp
  PROVE  AInv'
<1>0. HInv'
  BY HttpStep, Zenon DEF AInv
<1>1. CASE GiveUp \/ Reuse \/ Connect \/ Send \/ SendFails
  BY <1>0, <1>1, OpenInv, Zenon
<1>2. CASE LineWaits \/ Fetch
  BY <1>0, <1>2, CompressInv, Zenon
<1>3. CASE LineGoesOn
  BY <1>0, <1>3, GoesOnInv, Zenon
<1>4. ASSUME NEW i, StatusLine(i) \/ Field(i) \/ EndOfFields(i) PROVE AInv'
  BY <1>0, <1>4, StatusLineInv, FieldInv, EndOfFieldsInv, ZenonT(40)
<1>5. CASE Service
  BY <1>0, <1>5, ServiceInv, Zenon
<1>6. CASE Recv
  BY <1>0, <1>6, RecvInv, Zenon
<1>7. CASE RecvFails
  BY <1>0, <1>7, RecvFailsInv, Zenon
<1>8. CASE Answer
  BY <1>0, <1>8, AnswerInv, Zenon
<1>9. CASE HangUp
  BY <1>0, <1>9, HangUpInv, Zenon
<1> QED
  BY <1>1, <1>2, <1>3, <1>4, <1>5, <1>6, <1>7, <1>8, <1>9, Zenon DEF Step

LEMMA HttpCallInv ==
  ASSUME WellServed, AInv, NEW c \in 0..len, NEW n \in Nat, Call(c, n)
  PROVE  AInv'
BY CallStep, CallInv, Zenon DEF AInv

LEMMA HttpSame ==
  ASSUME AInv, UNCHANGED vars
  PROVE  AInv'
<1>1. UNCHANGED <<faults, host, wire, hung, buf, bufsz, consumed, length_remaining, code,
                  content_length, location, view, len, pos, failed>>
      /\ UNCHANGED <<url, redirects, sent, need, line_len, task, pc>>
  BY Zenon DEF vars, conn, buffer, headers, caller
<1>2. HInv' /\ Typed' /\ Phases'
  BY <1>1, ZenonT(40) DEF AInv, HInv, Shape, Pointing, Typed, Phases, avail
<1>3. Pending' = Pending
  BY <1>1, Zenon DEF Pending, Rest, avail
<1>4. Tracked' <=> Tracked
  BY <1>1, <1>3, ZenonT(40) DEF Tracked, Answers, Reading
<1>5. Track' /\ Counts'
  BY <1>1, <1>3, <1>4, Zenon DEF AInv, Track, Counts, Honest, avail
<1> QED
  BY <1>2, <1>5, Zenon DEF AInv

(* A step of HashNext is one of the stream or leaves it alone.               *)
LEMMA HashSteps ==
  ASSUME HInv, [HashNext]_<<vars, file>>
  PROVE  \/ Step \/ Answer \/ HangUp
         \/ \E c \in 0..len, n \in Needs : Call(c, n)
         \/ UNCHANGED vars
<1>0. len \in Nat /\ 0 \in 0..len /\ len \in 0..len
  BY DEF HInv, Shape
<1>1. CASE Begin
  BY <1>0, <1>1, HashConstants, Zenon DEF Begin, read_hash
<1>2. CASE extract_file
  BY <1>0, <1>2, HashConstants, Zenon DEF extract_file, read_hash
<1> QED
  BY <1>1, <1>2, Zenon DEF HashNext

(* So does every step of HashNext.                                           *)
LEMMA AStep ==
  ASSUME WellServed, AInv, [HashNext]_<<vars, file>>
  PROVE  AInv'
<1>1. ASSUME NEW c \in 0..len, NEW n \in Needs, Call(c, n) PROVE AInv'
  BY <1>1, HttpCallInv, Numbers, Zenon
<1> QED
  BY <1>1, HashSteps, HttpInv, HttpSame, Zenon DEF AInv

(* The window that read_https returned, or is about to return, holds the     *)
(* bytes of the body that come next.                                         *)
LEMMA WindowIs ==
  ASSUME WellServed, AInv, task = "body"
  PROVE  /\ len \in Nat /\ pos \in Nat
         /\ pc = "idle" => /\ pos + len <= Size
                           /\ \A i \in 0..(len - 1) : view[i] = pos + i
<1>0. Shape /\ pos \in Nat /\ len \in Nat
  BY Zenon DEF AInv, HInv, Shape, Typed
<1>1. ASSUME pc = "idle"
      PROVE  pos + len <= Size /\ \A i \in 0..(len - 1) : view[i] = pos + i
  <2>1. /\ len <= Len(buf) - consumed
        /\ \A i \in 0..(len - 1) : view[i] = buf[consumed + i + 1].value
    BY <1>1, Zenon DEF AInv, HInv, Pointing, avail
  <2>2. Follow(Pending, buf, consumed, wire)
    BY <1>0, PendingBytes, Zenon
  <2>3. /\ Len(Pending) \in Nat /\ pos + Len(Pending) <= Size
        /\ \A i \in 1..Len(Pending) : Pending[i].value = pos + i - 1
    BY BodyAt, Zenon
  <2>4. len <= Len(Pending)
    BY <1>0, <2>1, <2>2 DEF Follow
  <2>5. ASSUME NEW i \in 0..(len - 1) PROVE view[i] = pos + i
    <3>1. /\ i + 1 \in 1..(Len(buf) - consumed) /\ i + 1 \in 1..Len(Pending)
          /\ consumed + (i + 1) = consumed + i + 1 /\ pos + (i + 1) - 1 = pos + i
      BY <1>0, <2>1, <2>2, <2>4 DEF Follow
    <3>2. Pending[i + 1] = buf[consumed + (i + 1)]
      BY <2>2, <3>1, Zenon DEF Follow
    <3>3. Pending[i + 1].value = pos + (i + 1) - 1
      BY <2>3, <3>1, Zenon
    <3> QED
      BY <2>1, <3>1, <3>2, <3>3, Zenon
  <2>6. pos + len <= Size
    BY <1>0, <2>3, <2>4, Within, Numbers, Zenon
  <2> QED
    BY <2>5, <2>6, Zenon
<1> QED
  BY <1>0, <1>1, Zenon

(* What a step of the stream itself leaves alone while the body is read.     *)
LEMMA BodySteps ==
  ASSUME AInv, Step \/ Answer \/ HangUp
  PROVE  /\ UNCHANGED pos
         /\ task = "body" => /\ UNCHANGED <<task, need, content_length>>
                             /\ failed => failed'
                             /\ pc = "idle" => UNCHANGED <<pc, failed, view, len>>
         /\ task # "body" => UNCHANGED <<view, len, failed>>
<1>1. CASE GiveUp \/ Reuse \/ Connect \/ Send \/ SendFails \/ LineWaits \/ LineGoesOn
  <2>1. pc \notin {"recv", "idle", "entry"}
    BY <1>1, Zenon DEF GiveUp, Reuse, Connect, Send, SendFails, LineWaits, LineGoesOn
  <2>2. UNCHANGED caller
    BY <1>1, Zenon DEF GiveUp, Reuse, Connect, Send, SendFails, LineWaits, LineGoesOn, Err
  <2> QED
    BY <2>1, <2>2, Zenon DEF AInv, Phases, caller
<1>2. ASSUME NEW i, StatusLine(i) \/ Field(i) \/ EndOfFields(i)
      PROVE  pc = "line" /\ UNCHANGED caller
  BY <1>2, Zenon DEF StatusLine, Field, EndOfFields, LineEnds
<1>3. CASE \E i \in 1..avail : StatusLine(i) \/ Field(i) \/ EndOfFields(i)
  <2>1. pc = "line" /\ UNCHANGED caller
    BY <1>2, <1>3, Zenon
  <2> QED
    BY <2>1, Zenon DEF AInv, Phases, caller
<1>4. CASE Service \/ Fetch
  BY <1>4 DEF Service, Fetch, ReturnFrom, Compress, AInv, Phases, headers, caller
<1>5. CASE Recv
  <2>1. /\ pc = "recv" /\ UNCHANGED <<task, need, headers, pos>>
        /\ failed => failed'
        /\ task # "body" => UNCHANGED <<view, len, failed>>
    BY <1>5 DEF Recv, ReadFails, caller
  <2> QED
    BY <2>1, ZenonT(40) DEF headers
<1>6. CASE RecvFails
  <2>1. /\ pc = "recv" /\ UNCHANGED <<task, need, headers, pos>>
        /\ failed => failed'
        /\ task # "body" => UNCHANGED <<view, len, failed>>
    BY <1>6, ZenonT(40) DEF RecvFails, ReadFails
  <2> QED
    BY <2>1, ZenonT(40) DEF headers
<1>7. CASE Answer \/ HangUp
  BY <1>7 DEF Answer, HangUp, headers, caller
<1> QED
  BY <1>1, <1>3, <1>4, <1>5, <1>6, <1>7, Zenon DEF Step

(* What extract_file has written is what its caller has consumed of the      *)
(* body.                                                                     *)
LEMMA CopiedStep ==
  ASSUME WellServed, AInv, Copied, [HashNext]_<<vars, file>>
  PROVE  Copied'
<1>0. pos \in Nat /\ len \in Nat
  BY Zenon DEF AInv, HInv, Shape, Typed
<1>1. CASE UNCHANGED <<vars, file>>
  BY <1>1, Zenon DEF Copied, Honest, vars, headers, caller, file
<1>2. CASE (Step \/ Answer \/ HangUp) /\ UNCHANGED file
  <2>1. UNCHANGED <<copy, tmp, pos>>
    BY <1>2, BodySteps, Zenon DEF file
  <2>2. ASSUME copy \in {"copying", "ended"}
        PROVE  /\ task = "body" /\ UNCHANGED <<task, need, content_length>>
               /\ failed => failed'
               /\ pc = "idle" => UNCHANGED <<pc, failed>>
    BY <1>2, <2>2, BodySteps, Zenon DEF Copied
  <2>3. copy' \in {"copying", "ended"} /\ Honest' => Honest
    BY <2>1, <2>2, Zenon DEF Honest
  <2> QED
    BY <2>1, <2>2, <2>3, Zenon DEF Copied
<1>3. CASE Begin
  <2>1. /\ copy' = "copying" /\ pos' = 0 /\ need' = 1 /\ tmp' = << >> /\ task' = "body"
    BY <1>3 DEF Begin, read_hash, Call, Copied, AInv, Phases
  <2>2. [i \in 1..0 |-> i - 1] = << >>
    OBVIOUS
  <2> QED
    BY <2>1, <2>2, ZenonT(40) DEF Copied
<1>4. CASE copy = "copying" /\ pc = "idle" /\ len > 0 /\ WritesOut(len) /\ read_hash(len, 1)
           /\ UNCHANGED copy
  <2>1. /\ pos' = pos + len /\ need' = 1 /\ UNCHANGED <<task, content_length>> /\ task = "body"
        /\ tmp' = tmp \o [i \in 1..len |-> view[i - 1]]
    BY <1>4, Zenon DEF WritesOut, read_hash, Call, headers, Copied
  <2>2. ASSUME Honest PROVE tmp' = [i \in 1..(pos + len) |-> i - 1]
    <3>1. tmp = [i \in 1..pos |-> i - 1]
      BY <1>4, <2>2, Zenon DEF Copied
    <3>2. \A i \in 0..(len - 1) : view[i] = pos + i
      BY <1>4, <2>1, WindowIs, Zenon
    <3>3. [i \in 1..len |-> view[i - 1]] = [i \in 1..len |-> pos + i - 1]
      BY <1>0, <3>2
    <3>4. [i \in 1..pos |-> i - 1] \o [i \in 1..len |-> pos + i - 1]
            = [i \in 1..(pos + len) |-> i - 1]
      BY <1>0
    <3> QED
      BY <2>1, <3>1, <3>3, <3>4, Zenon
  <2>3. Honest' <=> Honest
    BY <2>1, Zenon DEF Honest
  <2> QED
    BY <1>4, <2>1, <2>2, <2>3, Zenon DEF Copied
<1>5. CASE copy = "copying" /\ pc = "idle" /\ len = 0 /\ copy' = "ended" /\ UNCHANGED <<hashed, tmp, vars>>
  <2>1. UNCHANGED <<tmp, pos, need, task, content_length, failed, pc>>
    BY <1>5, Zenon DEF vars, headers, caller
  <2>2. Honest /\ ~failed => pos = Size
    BY <1>0, <1>5 DEF AInv, Counts, Copied
  <2> QED
    BY <1>5, <2>1, <2>2, Zenon DEF Copied, Honest
<1>6. CASE copy' = "failed"
  BY <1>6, Zenon DEF Copied
<1>7. CASE extract_file
  BY <1>4, <1>5, <1>6, <1>7, Zenon DEF extract_file
<1>8. CASE copy = "other" /\ UNCHANGED file
  BY <1>8, Zenon DEF Copied, file
<1> QED
  BY <1>1, <1>2, <1>3, <1>7, <1>8, Zenon DEF HashNext

LEMMA AllStep ==
  ASSUME WellServed
  PROVE  AInv /\ Copied /\ [HashNext]_<<vars, file>> => AInv' /\ Copied'
BY AStep, CopiedStep, Zenon

LEMMA AllInit == HashInit => AInv /\ Copied
<1> SUFFICES ASSUME HashInit PROVE AInv /\ Copied
  BY Zenon
<1>1. AInv
  BY InitAInv, Zenon DEF HashInit
<1> QED
  BY <1>1, Zenon DEF HashInit, Init, Copied

(* The variables of the http client have their types, and the window that    *)
(* read_https returns lies inside its buffer, for every well-served web and  *)
(* whatever fails.                                                           *)
THEOREM HttpTypes ==
  ASSUME WellServed
  PROVE  HashSpec => []TypeOK
<1>1. AInv => TypeOK
  <2> SUFFICES ASSUME AInv PROVE TypeOK
    BY Zenon
  <2>1. /\ url \in Urls /\ location \in Urls \cup {None} /\ consumed \in Nat /\ len \in Nat
        /\ Len(buf) \in Nat /\ consumed <= avail
        /\ len <= Len(buf)
    BY DEF AInv, HInv, Shape, Pointing, avail
  <2>2. pos \in 0..Size
    <3>1. CASE task = "body"
      BY <3>1, BodyAt, Numbers
    <3>2. CASE task # "body"
      BY <3>2, Numbers DEF AInv, Phases
    <3> QED
      BY <3>1, <3>2, Zenon
  <2>3. consumed \in 0..avail /\ len \in 0..avail
    BY <2>1 DEF avail
  <2> QED
    BY <2>1, <2>2, <2>3, Zenon DEF AInv, Typed, TypeOK
<1> QED
  BY AllInit, AllStep, <1>1, PTL DEF HashSpec

(* open_http_downloader reads the responses in step with its requests: when  *)
(* it expects a status line, the next byte is the first of the response to   *)
(* the request it sent last, over redirects, reused connections and requests *)
(* that send took in pieces.                                                 *)
THEOREM HttpInStep ==
  ASSUME WellServed
  PROVE  HashSpec => []InStep
<1>1. AInv => InStep
  <2> SUFFICES ASSUME AInv, task = "status", pc = "line", Pending # << >>
               PROVE  Pending[1].kind = "status"
    BY Zenon DEF InStep, Pending
  <2>1. Shape /\ url \in Urls
    BY Zenon DEF AInv, HInv, Shape
  <2>2. Pending \in Seq(Bytes) /\ Len(Pending) \in Nat
    BY <2>1, PendingBytes, Zenon DEF Follow
  <2>3. Len(Pending) # 0
    BY <2>2
  <2>4. PICK r \in Answers(url), k \in Nat : Part(Pending, Written(r), k) /\ Reading(r, k)
    BY <2>3, Zenon DEF AInv, Track, Tracked, Answering
  <2>5. k = 0
    BY <2>4, Zenon DEF Reading
  <2>6. Pending[1] = Written(r)[1]
    BY <2>2, <2>3, <2>4, <2>5 DEF Part
  <2>7. Written(r)[1] = Byte("status", r.code)
    <3>1. Good(url, r)
      BY <2>1, AnswersGood, Zenon
    <3> QED
      BY <3>1, Zenon DEF Good, Laid
  <2>8. Byte("status", r.code).kind = "status"
    BY Zenon DEF Byte
  <2> QED
    BY <2>6, <2>7, <2>8, ZenonT(40)
<1> QED
  BY AllInit, AllStep, <1>1, PTL DEF HashSpec

(* When extract_file takes a read of no bytes for the end, download.tmp is   *)
(* the whole body, unless a read has failed or the body is not as long as    *)
(* its header says.                                                          *)
THEOREM WholeAtTheEnd ==
  ASSUME WellServed
  PROVE  HashSpec => []EndIsWhole
<1>1. AInv /\ Copied => EndIsWhole
  <2> SUFFICES ASSUME AInv, Copied, copy = "ended", Honest, ~failed
               PROVE  tmp = [i \in 1..Size |-> Body[i].value]
    BY Zenon DEF EndIsWhole
  <2>1. tmp = [i \in 1..Size |-> i - 1]
    BY Zenon DEF Copied
  <2>2. \A i \in 1..Size : Body[i].value = i - 1
    BY Zenon DEF Body, Byte
  <2> QED
    BY <2>1, <2>2, Zenon
<1> QED
  BY AllInit, AllStep, <1>1, PTL DEF HashSpec

-----------------------------------------------------------------------------
(* An empty window.                                                          *)
LEMMA NoWindow == S!Window(0, 0) = Empty /\ \A p \in Nat : S!Window(p, 0) = Empty
BY DEF S!Window, Empty

(* Nothing happens to the stream while its caller sees no change.            *)
LEMMA Unseen ==
  ASSUME Honest' <=> Honest, UNCHANGED <<pos, view, len, need, failed>>, pc' = "idle" <=> pc = "idle"
  PROVE  UNCHANGED S!svars
BY Zenon DEF S!svars

(* Nor before there is a body of the length the header gave.                 *)
LEMMA UnseenHeaders ==
  ASSUME ~Honest, ~Honest'
  PROVE  UNCHANGED S!svars
BY Zenon DEF S!svars, Empty

(* A call of read_https is a call of the stream.                             *)
LEMMA CallRefines ==
  ASSUME AInv, NEW c \in 0..len, NEW n \in Needs, Call(c, n)
  PROVE  [S!Next]_(S!svars)
<1>1. Honest' <=> Honest
  BY Zenon DEF Call, Honest, headers
<1>2. CASE Honest
  <2>1. S!Call(c, n)
    BY <1>1, <1>2, NoWindow, Zenon DEF Call, S!Call
  <2> QED
    BY <1>2, <2>1, Zenon DEF S!Next
<1>3. CASE ~Honest
  BY <1>1, <1>3, UnseenHeaders, Zenon
<1> QED
  BY <1>2, <1>3, Zenon

(* What a caller that asked for need bytes is given.                         *)
Delivers == failed \/ len' >= need \/ pos + len' = Size

LEMMA Fits ==
  ASSUME NEW p \in Nat, NEW l \in Nat, NEW s \in Nat, p + l <= s
  PROVE  l \in 0..s
OBVIOUS

LEMMA Indexes ==
  ASSUME NEW l \in Nat, NEW i \in 0..(l - 1)
  PROVE  i \in Nat /\ i + 1 <= l
OBVIOUS

(* read_https returns from the buffer.                                       *)
LEMMA ReturnRefines ==
  ASSUME WellServed, AInv, Shape', Honest, Honest', pc # "idle", Shift(0),
         ReturnFrom(buf', consumed'), UNCHANGED <<pos, need, failed>>,
         Delivers
  PROVE  [S!Next]_(S!svars)
<1>0. Shape /\ pos \in Nat
  BY Zenon DEF AInv, HInv, Typed
<1>1. Follow(Pending', buf', consumed', wire') /\ Len(Pending) \in Nat
  BY <1>0, PendingBytes, PendingBytesAfter, Zenon DEF Follow
<1>2. /\ len' = Len(buf') - consumed' /\ pc' = "idle"
      /\ view' = [i \in 0..(len' - 1) |-> buf'[consumed' + i + 1].value]
  BY Zenon DEF ReturnFrom
<1>3. /\ len' \in Nat /\ len' <= Len(Pending') /\ Len(Pending') <= Len(Pending)
      /\ Len(Pending') \in Nat
  <2>1. /\ Len(Pending') = (Len(buf') - consumed') + Len(wire') /\ Len(Pending') \in Nat
        /\ Len(buf') \in Nat /\ consumed' \in Nat /\ consumed' <= Len(buf') /\ Len(wire') \in Nat
    BY <1>1, Zenon DEF Follow
  <2>2. Len(Pending') + 0 <= Len(Pending)
    BY Zenon DEF Shift
  <2> QED
    BY <1>1, <1>2, <2>1, <2>2
<1>4. /\ pos + Len(Pending) <= Size
      /\ \A i \in 1..Len(Pending) : Pending[i].value = pos + i - 1
  BY BodyAt, Zenon DEF Honest
<1>5. ASSUME NEW i \in 0..(len' - 1) PROVE buf'[consumed' + i + 1].value = pos + i
  <2>1. /\ i + 1 \in 1..(Len(buf') - consumed') /\ i + 1 \in 1..Len(Pending)
        /\ i + 1 \in 1..Len(Pending') /\ 0 + (i + 1) = i + 1
        /\ consumed' + (i + 1) = consumed' + i + 1 /\ pos + (i + 1) - 1 = pos + i
    <3>1. consumed' \in Nat /\ Len(buf') \in Nat /\ i \in Nat /\ i + 1 <= len'
      <4>1. consumed' \in Nat /\ Len(buf') \in Nat
        BY <1>1, Zenon DEF Follow
      <4> QED
        BY <1>3, <1>5, <4>1, Indexes, Zenon
    <3>2. i + 1 \in Nat /\ i + 1 <= Len(Pending') /\ i + 1 <= Len(Pending)
      BY <1>1, <1>3, <3>1
    <3> QED
      BY <1>0, <1>1, <1>2, <1>3, <3>1, <3>2
  <2>2. Pending'[i + 1] = buf'[consumed' + (i + 1)]
    BY <1>1, <2>1, Zenon DEF Follow
  <2>3. Pending'[i + 1] = Pending[0 + (i + 1)]
    BY <2>1, Zenon DEF Shift
  <2>4. Pending[i + 1].value = pos + (i + 1) - 1
    BY <1>4, <2>1, Zenon
  <2> QED
    BY <2>1, <2>2, <2>3, <2>4, ZenonT(40)
<1>6. view' = S!Window(pos, len')
  BY <1>0, <1>2, <1>3, <1>5, Zenon DEF S!Window
<1>7. pos + len' <= Size
  <2>1. len' <= Len(Pending)
    BY <1>1, <1>3
  <2> QED
    BY <1>0, <1>1, <1>3, <1>4, <2>1, Within, Numbers, ZenonT(40)
<1>8. S!Return(len')
  BY <1>2, <1>6, <1>7, Zenon DEF S!Return, Delivers
<1>9. len' \in 0..Size
  <2>1. len' \in Nat
    BY <1>3, Zenon
  <2> QED
    BY <1>0, <1>7, <2>1, Fits, Numbers, Zenon
<1> QED
  BY <1>8, <1>9, Zenon DEF S!Next

(* A read that fails is a failure of the stream: it returns no bytes.        *)
LEMMA FailRefines ==
  ASSUME WellServed, AInv, Honest, Honest', pc # "idle", ReadFails, UNCHANGED need
  PROVE  [S!Next]_(S!svars)
<1>1. /\ pc' = "idle" /\ failed' = TRUE /\ UNCHANGED <<view, len, pos>> /\ len = 0 /\ view = Empty
      /\ pos \in Nat
  BY Zenon DEF ReadFails, Honest, AInv, HInv, Pointing, Phases, Typed
<1>2. pos + 0 <= Size
  BY BodyAt, Numbers DEF Honest
<1>3. S!Fail(0)
  BY <1>1, <1>2, NoWindow, Zenon DEF S!Fail
<1> QED
  BY <1>3, Numbers DEF S!Next

(* Steps of the client and the server while an honest body is read.          *)
LEMMA BodyRefines ==
  ASSUME WellServed, AInv, HInv', Honest, Step \/ Answer \/ HangUp
  PROVE  [S!Next]_(S!svars)
<1>0. /\ Shape /\ Shape' /\ task = "body" /\ pc \in {"recv", "idle", "entry"}
      /\ UNCHANGED <<pos, need>> /\ Honest'
  BY BodySteps, Zenon DEF AInv, HInv, Phases, Honest
<1>1. CASE Answer \/ HangUp
  BY <1>0, <1>1, Unseen, Zenon DEF Answer, HangUp, caller
<1>2. CASE Service
  <2>1. /\ pc = "entry" /\ ReturnFrom(buf', consumed') /\ UNCHANGED failed /\ pc' = "idle"
        /\ UNCHANGED <<buf, wire, consumed, content_length, task>>
    BY <1>2, Zenon DEF Service, ReturnFrom, buffer, conn, headers
  <2>2. Shift(0)
    BY <1>0, <2>1, SameShift, Zenon
  <2>3. Delivers
    BY <1>0, <1>2, <2>1, ServiceInv, Zenon DEF AInv, Counts, Delivers
  <2> QED
    BY <1>0, <2>1, <2>2, <2>3, ReturnRefines, Zenon
<1>3. CASE Fetch
  BY <1>0, <1>3, Unseen, Zenon DEF Fetch, Compress, caller
<1>4. CASE Recv
  <2>1. PICK r \in 1..Len(wire) : /\ buf' = buf \o SubSeq(wire, 1, r)
                                  /\ wire' = SubSeq(wire, r + 1, Len(wire))
    BY <1>4, Zenon DEF Recv
  <2>2. pc = "recv" /\ UNCHANGED consumed /\ consumed = 0
    BY <1>4, Zenon DEF Recv, AInv, HInv, Pointing
  <2>3. Shift(0)
    BY <1>0, <2>1, <2>2, RecvShift, Zenon
  <2>4. CASE ReadFails
    BY <1>0, <2>2, <2>4, FailRefines, Zenon
  <2>5. CASE UNCHANGED <<length_remaining, line_len, pc, caller>>
    BY <1>0, <2>5, Unseen, Zenon DEF caller
  <2>6. CASE ReturnFrom(buf', 0) /\ UNCHANGED failed
    <3>1. pc' = "idle" /\ consumed' = 0
      BY <2>2, <2>6, Zenon DEF ReturnFrom
    <3>2. Delivers
      BY <1>0, <1>4, <2>6, <3>1, RecvInv, Zenon DEF AInv, Counts, Delivers
    <3> QED
      BY <1>0, <2>2, <2>3, <2>6, <3>1, <3>2, ReturnRefines, Zenon
  <2> QED
    BY <1>0, <1>4, <2>4, <2>5, <2>6, Zenon DEF Recv
<1>5. CASE RecvFails
  BY <1>0, <1>5, FailRefines, Zenon DEF RecvFails
<1> QED
  <2>1. ~(pc \in {"url", "send", "line"})
    BY <1>0, Zenon
  <2>2. ~(GiveUp \/ Reuse \/ Connect \/ Send \/ SendFails \/ LineWaits \/ LineGoesOn)
    BY <2>1, Zenon DEF GiveUp, Reuse, Connect, Send, SendFails, LineWaits, LineGoesOn
  <2>3. ASSUME NEW i PROVE ~(StatusLine(i) \/ Field(i) \/ EndOfFields(i))
    BY <2>1, Zenon DEF StatusLine, Field, EndOfFields, LineEnds
  <2> QED
    BY <1>1, <1>2, <1>3, <1>4, <1>5, <2>2, <2>3, Zenon DEF Step

(* Steps before that; the last one opens the stream.                         *)
LEMMA HeadersRefine ==
  ASSUME AInv, ~Honest, Step \/ Answer \/ HangUp
  PROVE  [S!Next]_(S!svars)
<1>1. CASE ~Honest'
  BY <1>1, UnseenHeaders, Zenon
<1>2. CASE Honest'
  <2>1. task # "body"
    BY <1>2, BodySteps, Zenon DEF Honest
  <2>2. ~(GiveUp \/ Reuse \/ Connect \/ Send \/ SendFails \/ LineWaits \/ LineGoesOn)
    BY <1>2, <2>1, Zenon DEF GiveUp, Reuse, Connect, Send, SendFails, LineWaits, LineGoesOn, Err,
       Honest
  <2>3. ~(Service \/ Fetch \/ Recv \/ RecvFails \/ Answer \/ HangUp)
    BY <1>2, <2>1, Zenon DEF Service, Fetch, Recv, RecvFails, Answer, HangUp, Honest
  <2>4. PICK i \in 1..avail : StatusLine(i) \/ Field(i) \/ EndOfFields(i)
    BY <2>2, <2>3, Zenon DEF Step
  <2>5. EndOfFields(i)
    BY <1>2, <2>1, <2>4, Zenon DEF StatusLine, Field, Honest
  <2>6. need' = 0 /\ pc' = "idle" /\ UNCHANGED caller
    BY <1>2, <2>1, <2>5, Zenon DEF EndOfFields, Honest
  <2>7. pos' = 0 /\ len' = 0 /\ view' = Empty /\ ~failed'
    BY <2>1, <2>6, Zenon DEF AInv, Phases, caller
  <2> QED
    BY <1>2, <2>6, <2>7, Zenon DEF S!svars, Empty
<1> QED
  BY <1>1, <1>2, Zenon

(* Every step is one of the stream, or the caller sees nothing of it.        *)
LEMMA StreamStep ==
  ASSUME WellServed, AInv, [HashNext]_<<vars, file>>
  PROVE  [S!Next]_(S!svars)
<1>1. HInv' /\ HInv
  BY AStep, Zenon DEF AInv
<1>2. ASSUME NEW c \in 0..len, NEW n \in Needs, Call(c, n) PROVE [S!Next]_(S!svars)
  BY <1>2, CallRefines, Zenon
<1>3. CASE Step \/ Answer \/ HangUp
  BY <1>1, <1>3, BodyRefines, HeadersRefine, Zenon
<1>4. CASE UNCHANGED vars
  <2>1. UNCHANGED <<pos, view, len, need, failed, pc, task, content_length>>
    BY <1>4, Zenon DEF vars, headers, caller
  <2> QED
    BY <2>1, Unseen, Zenon DEF Honest
<1> QED
  BY <1>1, <1>2, <1>3, <1>4, HashSteps, Zenon

(* read_https on a body that is as long as its header says implements module *)
(* Stream: what callers of struct stream rely on.                            *)
THEOREM HttpImplementsStream ==
  ASSUME WellServed
  PROVE  HashSpec => ImplementsStream
<1>1. HashInit => S!Init
  <2> SUFFICES ASSUME HashInit PROVE S!Init
    BY Zenon
  <2>1. ~Honest
    BY Zenon DEF HashInit, Init, Honest
  <2> QED
    BY <2>1, NoWindow, Zenon DEF S!Init
<1>2. AInv /\ [HashNext]_<<vars, file>> => [S!Next]_(S!svars)
  BY StreamStep, Zenon
<1> QED
  BY <1>1, <1>2, AllInit, AllStep, PTL DEF HashSpec, ImplementsStream, S!Spec
=============================================================================
