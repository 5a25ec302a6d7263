------------------------- MODULE DecodeStreamProofs -------------------------
(***************************************************************************)
(* read_xz and read_zlib implement the stream contract for any data, any   *)
(* way its prefixes decode, any windows of the source, any requests and    *)
(* any buffer increment, whatever fails.                                   *)
(*                                                                         *)
(* The invariant says which decoded bytes the buffer holds: those from     *)
(* dropped on, in order, none beyond the end of the data; that the decoder *)
(* has finished only at that end unless it failed; and that a decoder told *)
(* to finish does not get to where more would be read.                     *)
(***************************************************************************)
EXTENDS DecodeStream, SequenceTheorems, TLAPS

USE SMTT(30)

(* A buffer o that holds the decoded bytes from offset d on.                 *)
Good(o, d) ==
  /\ o \in Seq(Nat) /\ d \in Nat
  /\ d + Len(o) <= Total
  /\ \A i \in 1..Len(o) : o[i] = d + i - 1

Bounds ==
  /\ finished => failed \/ dropped + Len(out) = Total
  /\ len <= Len(out) - consumed
  /\ pc # "idle" => len = 0 /\ view = Empty
  /\ pc \in {"turn", "refill"} => consumed = 0 /\ ~finished
  /\ pc = "refill" => ~flush

IInv == TypeOK /\ out_size \in Nat /\ Good(out, dropped) /\ Bounds

LEMMA InitIInv == Init => IInv
<1> SUFFICES ASSUME Init PROVE IInv
  BY Zenon
<1>1. out \in Seq(Nat) /\ Len(out) = 0
  BY DEF Init
<1>2. kind \in Kinds /\ yields \in Yields[kind] /\ faults \in FaultSets
  BY Zenon DEF Init
<1>3. source \in 0..Encoded
  BY DecodeConstants DEF Init
<1>4. {flush, finished, failed} \subseteq BOOLEAN
  BY Zenon DEF Init
<1>5. spos \in 0..source /\ in_size \in 0..(source - spos) /\ in_pos \in 0..in_size
  BY <1>3, DecodeConstants DEF Init
<1>6. TypeOK
  BY <1>1, <1>2, <1>3, <1>4, <1>5 DEF Init, TypeOK
<1>7. QED
  BY <1>1, <1>6, DecodeConstants DEF Init, IInv, Good, Bounds

(* The memmove keeps the buffer good.                                        *)
LEMMA RestGood ==
  ASSUME NEW o, NEW d, Good(o, d), NEW c \in 0..Len(o)
  PROVE  /\ Good(SubSeq(o, c + 1, Len(o)), d + c)
         /\ Len(SubSeq(o, c + 1, Len(o))) = Len(o) - c
<1>1. o \in Seq(Nat) /\ d \in Nat /\ Len(o) \in Nat /\ c \in Nat /\ c <= Len(o)
  BY DEF Good
<1> DEFINE r == SubSeq(o, c + 1, Len(o))
<1>2. r \in Seq(Nat) /\ Len(r) = Len(o) - c /\ \A i \in 1..Len(r) : r[i] = o[c + i]
  <2>1. c + 1 \in 1..(Len(o) + 1) /\ Len(o) \in c..Len(o)
    BY <1>1
  <2>2. r = [i \in 1..(Len(o) - c) |-> o[c + i]]
    BY <1>1 DEF r
  <2>3. \A i \in 1..(Len(o) - c) : o[c + i] \in Nat
    BY <1>1
  <2>4. QED
    BY <1>1, <2>2, <2>3
<1>3. \A i \in 1..Len(r) : r[i] = (d + c) + i - 1
  BY <1>1, <1>2 DEF Good
<1>4. d + c \in Nat /\ (d + c) + Len(r) <= Total
  <2>1. d + Len(o) <= Total
    BY Zenon DEF Good
  <2> HIDE DEF r
  <2>2. QED
    BY <1>1, <1>2, <2>1, DecodeConstants
<1>5. QED
  BY <1>2, <1>3, <1>4, Zenon DEF Good

(* What a turn of the decoder adds is what comes next.                       *)
LEMMA MoreGood ==
  ASSUME NEW o, NEW d, Good(o, d), NEW n \in Nat, d + Len(o) + n <= Total
  PROVE  /\ Good(o \o [i \in 1..n |-> d + Len(o) + i - 1], d)
         /\ Len(o \o [i \in 1..n |-> d + Len(o) + i - 1]) = Len(o) + n
<1> DEFINE p == [i \in 1..n |-> d + Len(o) + i - 1]
           r == o \o p
<1>1. o \in Seq(Nat) /\ d \in Nat /\ Len(o) \in Nat
  BY DEF Good
<1>2. p \in Seq(Nat) /\ Len(p) = n
  BY <1>1
<1>3. r \in Seq(Nat) /\ Len(r) = Len(o) + n
  BY <1>1, <1>2, ConcatProperties
<1>4. \A i \in 1..Len(r) : r[i] = IF i <= Len(o) THEN o[i] ELSE p[i - Len(o)]
  BY <1>1, <1>2, ConcatProperties
<1>5. \A i \in 1..Len(r) : r[i] = d + i - 1
  <2> SUFFICES ASSUME NEW i \in 1..Len(r) PROVE r[i] = d + i - 1
    BY Zenon
  <2>1. CASE i <= Len(o)
    BY <2>1, <1>1, <1>3, <1>4 DEF Good
  <2>2. CASE ~(i <= Len(o))
    <3>1. i - Len(o) \in 1..n
      BY <2>2, <1>1, <1>3
    <3>2. p[i - Len(o)] = d + Len(o) + (i - Len(o)) - 1
      BY <3>1, Zenon
    <3>3. r[i] = p[i - Len(o)]
      BY <2>2, <1>4, Zenon
    <3>4. QED
      BY <3>2, <3>3, <1>1, <1>3
  <2>3. QED
    BY <2>1, <2>2, Zenon
<1>6. QED
  BY <1>1, <1>3, <1>5 DEF Good

(* What a read returns from a good buffer is a window of the contract.       *)
LEMMA ReturnsWindow ==
  ASSUME NEW b, NEW d, Good(b, d), NEW c \in 0..Len(b), ReturnFrom(b, c)
  PROVE  /\ len' = Len(b) - c /\ len' \in 0..Total
         /\ view' = S!Window(d + c, len')
         /\ pc' = "idle"
         /\ d + c + len' = d + Len(b)
<1>1. b \in Seq(Nat) /\ d \in Nat /\ Len(b) \in Nat /\ Total \in Nat
  BY DecodeConstants DEF Good
<1>2. len' = Len(b) - c /\ pc' = "idle"
  BY Zenon DEF ReturnFrom
<1>3. \A i \in 0..(Len(b) - c - 1) : b[c + i + 1] = (d + c) + i
  BY <1>1 DEF Good
<1>4. view' = S!Window(d + c, len')
  BY <1>2, <1>3, Zenon DEF ReturnFrom, S!Window
<1>5. QED
  BY <1>1, <1>2, <1>4 DEF Good

-----------------------------------------------------------------------------
(* What a step of the loop leaves: a good buffer from the same offset on,    *)
(* and a read that goes on or returns all of it.                             *)
Turned ==
  /\ Good(out', dropped) /\ dropped' = dropped
  /\ consumed = 0 /\ consumed' = 0
  /\ need' = need /\ need \in Nat

LEMMA TurnedReturns ==
  ASSUME Turned, ReturnFrom(out', 0)
  PROVE  /\ len' = Len(out') /\ len' \in 0..Total
         /\ view' = S!Window(dropped, len')
         /\ pc' = "idle"
         /\ dropped + len' <= Total
<1>1. Len(out') \in Nat /\ dropped \in Nat /\ dropped + Len(out') <= Total
  BY DEF Turned, Good
<1>2. 0 \in 0..Len(out') /\ Len(out') - 0 = Len(out') /\ dropped + 0 = dropped
  BY <1>1
<1>3. /\ len' = Len(out') - 0 /\ len' \in 0..Total
      /\ view' = S!Window(dropped + 0, len') /\ pc' = "idle"
  BY <1>2, ReturnsWindow, Zenon DEF Turned
<1>4. QED
  BY <1>1, <1>2, <1>3, Zenon

(* A turn that returns is the contract's Return, or its Fail.                *)
LEMMA TurnRefines ==
  ASSUME Turned, pc \in {"turn", "refill"}, ReturnFrom(out', 0),
         \/ failed' = failed /\ (Len(out') >= need \/ dropped + Len(out') = Total)
         \/ failed' = TRUE
  PROVE  S!Next
<1>1. /\ len' = Len(out') /\ len' \in 0..Total
      /\ view' = S!Window(dropped, len') /\ pc' = "idle"
      /\ dropped + len' <= Total
  BY TurnedReturns, Zenon
<1>2. dropped + consumed = dropped /\ dropped' + consumed' = dropped /\ dropped \in Nat
  BY DEF Turned, Good
<1>3. CASE failed' = failed /\ (Len(out') >= need \/ dropped + Len(out') = Total)
  <2>1. S!Return(len')
    BY <1>1, <1>2, <1>3, Zenon DEF S!Return, Turned
  <2>2. QED
    BY <1>1, <2>1, Zenon DEF S!Next
<1>4. CASE failed' = TRUE
  <2>1. S!Fail(len')
    BY <1>1, <1>2, <1>4, Zenon DEF S!Fail, Turned
  <2>2. QED
    BY <1>1, <2>1, Zenon DEF S!Next
<1>5. QED
  BY <1>3, <1>4, Zenon

(* The err exit is the contract's Fail, with no bytes.                       *)
LEMMA ErrorRefines ==
  ASSUME Good(out, dropped), Turned, pc \in {"turn", "refill"}, Error
  PROVE  S!Next
<1>1. dropped + consumed = dropped /\ dropped' + consumed' = dropped /\ dropped \in Nat
      /\ dropped + 0 <= Total
  BY DecodeConstants DEF Turned, Good
<1>2. Empty = S!Window(dropped, 0)
  BY <1>1 DEF Empty, S!Window
<1>3. S!Fail(0)
  BY <1>1, <1>2, Zenon DEF Error, S!Fail, Turned
<1>4. QED
  BY <1>3, DecodeConstants DEF S!Next

-----------------------------------------------------------------------------
(* The part of the type that the buffer and the read under way do not touch. *)
StaticOK == kind \in Kinds /\ yields \in Yields[kind] /\ faults \in FaultSets
InputOK ==
  /\ source \in 0..Encoded /\ spos \in 0..source
  /\ in_size \in 0..(source - spos) /\ in_pos \in 0..in_size

LEMMA Facts ==
  ASSUME IInv
  PROVE  /\ StaticOK /\ InputOK /\ Good(out, dropped)
         /\ {flush, finished, failed} \subseteq BOOLEAN
         /\ out_size \in Nat /\ Len(out) \in Nat /\ Len(out) <= out_size
         /\ consumed \in 0..Len(out) /\ need \in Nat /\ len \in Nat
         /\ len <= Len(out) - consumed
         /\ Total \in Nat /\ Encoded \in Nat /\ Chunk \in Nat \ {0}
BY DecodeConstants DEF IInv, TypeOK, StaticOK, InputOK, Good, Bounds

(* A step of the loop that leaves a good buffer keeps the invariant.         *)
LEMMA TurnedIInv ==
  ASSUME StaticOK', InputOK', Turned, {flush', finished', failed'} \subseteq BOOLEAN,
         out_size' \in Nat, Len(out') <= out_size',
         pc' \in {"idle", "turn", "refill"}, len' \in Nat, len' <= Len(out'),
         pc' # "idle" => len' = 0 /\ view' = Empty /\ ~finished',
         pc' = "refill" => ~flush',
         finished' => failed' \/ dropped + Len(out') = Total
  PROVE  IInv'
<1>1. out' \in Seq(Nat) /\ Len(out') \in Nat /\ dropped' \in Nat
  BY DEF Turned, Good
<1>2. consumed' \in 0..Len(out') /\ len' <= Len(out') - consumed'
  BY <1>1 DEF Turned
<1>3. TypeOK'
  BY <1>1, <1>2, Zenon DEF TypeOK, StaticOK, InputOK, Turned
<1>4. Bounds'
  BY <1>2, Zenon DEF Bounds, Turned
<1>5. QED
  BY <1>3, <1>4, Zenon DEF IInv, Turned

(* One turn of the decoder: its bytes come next and fit.                     *)
LEMMA DecodeTurns ==
  ASSUME IInv, pc = "turn", NEW k \in 0..(in_size - in_pos), NEW n \in 0..(Grown - Len(out)),
         Owed(k, n) >= 0, in_pos' = in_pos + k, out' = out \o Produced(n),
         out_size' = Grown, UNCHANGED <<static, spos, in_size, flush, consumed, dropped, need>>
  PROVE  /\ Turned /\ StaticOK' /\ InputOK'
         /\ Len(out') = Len(out) + n /\ Len(out') <= out_size' /\ out_size' \in Nat
<1>0. /\ StaticOK /\ InputOK /\ Good(out, dropped)
      /\ out_size \in Nat /\ Len(out) \in Nat /\ Len(out) <= out_size
      /\ Total \in Nat /\ Encoded \in Nat /\ Chunk \in Nat \ {0}
  BY Facts, Zenon
<1>1. StaticOK' /\ InputOK'
  <2>1. StaticOK'
    BY <1>0, Zenon DEF static, StaticOK
  <2>2. source' = source /\ spos' = spos /\ in_size' = in_size
    BY Zenon DEF static
  <2>3. in_pos' \in 0..in_size
    BY <1>0 DEF InputOK
  <2>4. QED
    BY <1>0, <2>1, <2>2, <2>3, Zenon DEF InputOK
<1>2. Grown \in Nat /\ Len(out) <= Grown /\ n \in Nat /\ Len(out) + n <= Grown
  BY <1>0 DEF Grown
<1>3. yields[Taken + k] \in Nat /\ yields[Taken + k] <= Total
  <2>1. Taken + k \in 0..Encoded
    BY <1>0 DEF InputOK, Taken
  <2>2. yields \in [0..Encoded -> 0..Total]
    BY <1>0, DecodeConstants, Zenon DEF StaticOK
  <2>3. QED
    BY <2>1, <2>2, <1>0
<1>4. dropped \in Nat /\ Emitted = dropped + Len(out)
  BY <1>0, Zenon DEF Good, Emitted
<1>5. dropped + Len(out) + n <= Total
  <2>1. yields[Taken + k] - (Emitted + n) >= 0
    BY Zenon DEF Owed
  <2>2. QED
    BY <1>0, <1>2, <1>3, <1>4, <2>1
<1>6. Produced(n) = [i \in 1..n |-> dropped + Len(out) + i - 1]
  BY <1>4, Zenon DEF Produced
<1>7. Good(out', dropped) /\ Len(out') = Len(out) + n
  BY <1>0, <1>2, <1>5, <1>6, MoreGood
<1>8. consumed = 0 /\ consumed' = 0
  BY Zenon DEF IInv, Bounds
<1>9. QED
  BY <1>1, <1>2, <1>7, <1>8, Facts, Zenon DEF Turned

(* Going on, or back to the caller with enough.                              *)
LEMMA LoopOnTurns ==
  ASSUME IInv, pc \in {"turn", "refill"}, Turned, LoopOn, StaticOK', InputOK',
         {flush', finished', failed'} \subseteq BOOLEAN, failed' = failed,
         finished' = finished, out_size' \in Nat, Len(out') <= out_size'
  PROVE  IInv' /\ [S!Next]_(S!svars)
<1>0. ~finished /\ len = 0 /\ view = Empty /\ consumed = 0
  BY Zenon DEF IInv, Bounds
<1>1. Len(out') \in Nat /\ dropped \in Nat
  BY DEF Turned, Good
<1>2. CASE ~Enough /\ pc' = "turn" /\ UNCHANGED result
  <2>1. len' = 0 /\ view' = Empty
    BY <1>0, <1>2, Zenon DEF result
  <2>2. IInv'
    BY <1>0, <1>1, <1>2, <2>1, TurnedIInv
  <2>3. UNCHANGED S!svars
    BY <1>0, <1>2, <2>1, Zenon DEF S!svars, Turned
  <2>4. QED
    BY <2>2, <2>3, Zenon
<1>3. CASE Enough /\ ReturnFrom(out', 0)
  <2>1. len' = Len(out') /\ pc' = "idle"
    BY <1>3, TurnedReturns, Zenon
  <2>2. IInv'
    BY <1>0, <1>1, <2>1, TurnedIInv
  <2>3. Len(out') >= need
    BY <1>3, Zenon DEF Enough
  <2>4. S!Next
    BY <1>3, <2>3, TurnRefines, Zenon
  <2>5. QED
    BY <2>2, <2>4, Zenon
<1>4. QED
  BY <1>2, <1>3, Zenon DEF LoopOn

(* The err exit.                                                             *)
LEMMA ErrorTurns ==
  ASSUME IInv, pc \in {"turn", "refill"}, Turned, Error, StaticOK', InputOK',
         flush' \in BOOLEAN, out_size' \in Nat, Len(out') <= out_size'
  PROVE  IInv' /\ [S!Next]_(S!svars)
<1>1. Len(out') \in Nat
  BY DEF Turned, Good
<1>2. /\ finished' \in BOOLEAN /\ failed' = TRUE
      /\ len' = 0 /\ view' = Empty /\ pc' = "idle"
  BY Zenon DEF Error
<1>3. {flush', finished', failed'} \subseteq BOOLEAN
  BY <1>2, Zenon
<1>4. IInv'
  BY <1>1, <1>2, <1>3, TurnedIInv
<1>5. S!Next
  BY Facts, ErrorRefines, Zenon
<1>6. QED
  BY <1>4, <1>5, Zenon

LEMMA CallStep ==
  ASSUME IInv, NEW c \in 0..len, NEW n \in Needs, Call(c, n)
  PROVE  IInv' /\ [S!Next]_(S!svars)
<1>0. /\ Good(out, dropped) /\ Len(out) \in Nat /\ len \in Nat /\ dropped \in Nat
      /\ consumed \in 0..Len(out) /\ len <= Len(out) - consumed /\ n \in Nat
  BY Facts, DecodeConstants, Zenon DEF Good
<1>1. consumed' = consumed + c /\ consumed' \in 0..Len(out) /\ 0 <= Len(out) - consumed'
  BY <1>0 DEF Call
<1>2. TypeOK'
  BY <1>0, <1>1, Zenon DEF IInv, TypeOK, Call, static, input
<1>3. Bounds'
  BY <1>1, Zenon DEF IInv, Bounds, Call
<1>4. IInv'
  BY <1>0, <1>2, <1>3, Zenon DEF IInv, Call
<1>5. Empty = S!Window(0, 0)
  BY DEF Empty, S!Window
<1>6. dropped' + consumed' = dropped + consumed + c
  BY <1>0, <1>1 DEF Call
<1>7. S!Call(c, n)
  BY <1>5, <1>6, Zenon DEF Call, S!Call
<1>8. QED
  BY <1>4, <1>7, Zenon DEF S!Next

LEMMA ServiceStep ==
  ASSUME IInv, Service
  PROVE  IInv' /\ [S!Next]_(S!svars)
<1>0. /\ Good(out, dropped) /\ Len(out) \in Nat /\ dropped \in Nat /\ need \in Nat
      /\ consumed \in 0..Len(out) /\ Total \in Nat
  BY Facts, Zenon DEF Good
<1>1. /\ len' = Len(out) - consumed /\ len' \in 0..Total
      /\ view' = S!Window(dropped + consumed, len') /\ pc' = "idle"
      /\ dropped + consumed + len' = dropped + Len(out)
  BY <1>0, ReturnsWindow, ZenonT(40) DEF Service
<1>2. len' \in Nat /\ len' <= Len(out) - consumed
  BY <1>0, <1>1
<1>3. TypeOK'
  BY <1>1, <1>2, Zenon DEF IInv, TypeOK, Service, static, input, output
<1>4. Bounds'
  BY <1>1, <1>2, Zenon DEF IInv, Bounds, Service, output
<1>5. IInv'
  BY <1>3, <1>4, Zenon DEF IInv, Service, output
<1>6. dropped + Len(out) <= Total
  BY <1>0, Zenon DEF Good
<1>7. len' >= need \/ dropped + Len(out) = Total \/ failed
  BY <1>0, <1>1 DEF Service, IInv, Bounds
<1>8. S!Return(len')
  BY <1>1, <1>6, <1>7, Zenon DEF Service, output, S!Return
<1>9. QED
  BY <1>1, <1>5, <1>8, Zenon DEF S!Next

LEMMA CompressStep ==
  ASSUME IInv, Compress
  PROVE  IInv' /\ [S!Next]_(S!svars)
<1>0. /\ Good(out, dropped) /\ Len(out) \in Nat /\ dropped \in Nat
      /\ consumed \in 0..Len(out) /\ out_size \in Nat /\ Len(out) <= out_size
      /\ len = 0 /\ view = Empty /\ ~finished
  BY Facts, Zenon DEF Good, IInv, Bounds, Compress
<1>1. Good(out', dropped') /\ Len(out') = Len(out) - consumed
  BY <1>0, RestGood, Zenon DEF Compress, Rest
<1>2. out' \in Seq(Nat) /\ dropped' \in Nat
  BY <1>1, Zenon DEF Good
<1>3. consumed' = 0 /\ Len(out') \in Nat /\ 0 <= Len(out') /\ Len(out') <= out_size
      /\ 0 \in 0..Len(out') /\ Len(out') - 0 = Len(out')
  BY <1>0, <1>1 DEF Compress
<1>4. TypeOK'
  BY <1>2, <1>3, Zenon DEF IInv, TypeOK, Compress, static, input, result
<1>5. Bounds'
  BY <1>0, <1>3, Zenon DEF Bounds, Compress, result
<1>6. IInv'
  BY <1>0, <1>1, <1>4, <1>5, Zenon DEF IInv, Compress
<1>7. dropped' + consumed' = dropped + consumed
  BY <1>0 DEF Compress
<1>8. UNCHANGED S!svars
  BY <1>7, Zenon DEF S!svars, Compress, result
<1>9. QED
  BY <1>6, <1>8, Zenon

LEMMA DecodeStep ==
  ASSUME IInv, Decode
  PROVE  IInv' /\ [S!Next]_(S!svars)
<1>1. PICK k \in 0..(in_size - in_pos), n \in 0..(Grown - Len(out)) :
        /\ Decodes(k, n) /\ in_pos' = in_pos + k /\ out' = out \o Produced(n)
        /\ \E answer \in Answers(k, n) :
             \/ /\ answer = "end" /\ finished' = TRUE
                /\ ReturnFrom(out', 0) /\ UNCHANGED failed
             \/ answer = "error" /\ Error
             \/ /\ answer = "ok"
                /\ IF n > 0 THEN LoopOn ELSE pc' = "refill" /\ UNCHANGED result
                /\ UNCHANGED <<finished, failed>>
  BY Zenon DEF Decode
<1>2. /\ pc = "turn" /\ out_size' = Grown
      /\ UNCHANGED <<static, spos, in_size, flush, consumed, dropped, need>>
  BY Zenon DEF Decode
<1>3. /\ Turned /\ StaticOK' /\ InputOK'
      /\ Len(out') = Len(out) + n /\ Len(out') <= out_size' /\ out_size' \in Nat
  <2>1. Owed(k, n) >= 0
    BY <1>1, Zenon DEF Decodes
  <2>2. QED
    BY <1>1, <1>2, <2>1, DecodeTurns
<1>4. /\ {flush, finished, failed} \subseteq BOOLEAN /\ flush' \in BOOLEAN
      /\ ~finished /\ len = 0 /\ view = Empty
  BY <1>2, Facts, Zenon DEF IInv, Bounds
<1>5. Len(out') \in Nat /\ dropped \in Nat
  BY <1>3 DEF Turned, Good
<1>6. PICK answer \in Answers(k, n) :
        \/ /\ answer = "end" /\ finished' = TRUE
           /\ ReturnFrom(out', 0) /\ UNCHANGED failed
        \/ answer = "error" /\ Error
        \/ /\ answer = "ok"
           /\ IF n > 0 THEN LoopOn ELSE pc' = "refill" /\ UNCHANGED result
           /\ UNCHANGED <<finished, failed>>
  BY <1>1, Zenon
<1>7. CASE answer = "end" /\ finished' = TRUE /\ ReturnFrom(out', 0) /\ UNCHANGED failed
  <2>1. Emitted + n = Total
    BY <1>6, <1>7, Zenon DEF Answers
  <2>2. dropped + Len(out') = Total
    BY <1>3, <1>5, <2>1, Facts DEF Emitted
  <2>3. len' = Len(out') /\ pc' = "idle"
    BY <1>3, <1>7, TurnedReturns, Zenon
  <2>4. {flush', finished', failed'} \subseteq BOOLEAN
    BY <1>2, <1>4, <1>7, Zenon
  <2>5. IInv'
    BY <1>3, <1>5, <2>2, <2>3, <2>4, TurnedIInv
  <2>6. S!Next
    BY <1>2, <1>3, <1>7, <2>2, TurnRefines, Zenon
  <2>7. QED
    BY <2>5, <2>6, Zenon
<1>8. CASE answer = "error" /\ Error
  BY <1>2, <1>3, <1>4, <1>8, ErrorTurns, Zenon
<1>9. CASE /\ answer = "ok"
           /\ IF n > 0 THEN LoopOn ELSE pc' = "refill" /\ UNCHANGED result
           /\ UNCHANGED <<finished, failed>>
  <2>1. {flush', finished', failed'} \subseteq BOOLEAN
    BY <1>2, <1>4, <1>9, Zenon
  <2>2. CASE n > 0
    BY <1>2, <1>3, <1>9, <2>1, <2>2, LoopOnTurns, Zenon
  <2>3. CASE ~(n > 0)
    <3>1. pc' = "refill" /\ len' = 0 /\ view' = Empty /\ ~finished'
      BY <1>4, <1>9, <2>3, Zenon DEF result
    <3>a. ~flush'
      BY <1>2, <1>6, <1>9, Zenon DEF Answers
    <3>2. IInv'
      BY <1>3, <1>5, <2>1, <3>1, <3>a, TurnedIInv
    <3>3. UNCHANGED S!svars
      BY <1>2, <1>3, <1>4, <1>9, <3>1, Zenon DEF S!svars, Turned
    <3>4. QED
      BY <3>2, <3>3, Zenon
  <2>4. QED
    BY <2>2, <2>3, Zenon
<1>10. QED
  BY <1>6, <1>7, <1>8, <1>9, Zenon

LEMMA DecodeFailsStep ==
  ASSUME IInv, DecodeFails
  PROVE  IInv' /\ [S!Next]_(S!svars)
<1>1. /\ pc = "turn" /\ Error
      /\ UNCHANGED <<static, spos, in_size, flush, consumed, dropped, need>>
  BY Zenon DEF DecodeFails
<1>2. flush' \in BOOLEAN
  BY <1>1, Facts, Zenon
<1>3. /\ Turned /\ StaticOK' /\ InputOK'
      /\ out_size' \in Nat /\ Len(out') <= out_size'
  <2>1. CASE UNCHANGED <<in_pos, out, out_size>>
    <3>1. StaticOK' /\ InputOK'
      BY <1>1, <2>1, Facts, Zenon DEF static, StaticOK, InputOK
    <3>2. Turned
      BY <1>1, <2>1, Facts, Zenon DEF Turned, IInv, Bounds
    <3>3. QED
      BY <2>1, <3>1, <3>2, Facts, Zenon
  <2>2. CASE /\ out_size' = Grown
             /\ \E k \in 0..(in_size - in_pos), n \in 0..(Grown - Len(out)) :
                  /\ Owed(k, n) >= 0
                  /\ in_pos' = in_pos + k
                  /\ out' = out \o Produced(n)
    BY <1>1, <2>2, DecodeTurns, Zenon
  <2>3. QED
    BY <2>1, <2>2, Zenon DEF DecodeFails
<1>4. QED
  BY <1>1, <1>2, <1>3, ErrorTurns, Zenon

(* The break of read_zlib is not taken: inflate, told to finish, ends or     *)
(* fails.                                                                    *)
LEMMA RefillReads ==
  ASSUME IInv, Refill
  PROVE  ~flush
BY Zenon DEF Refill, HasWork, IInv, Bounds

LEMMA RefillStep ==
  ASSUME IInv, Refill
  PROVE  IInv' /\ [S!Next]_(S!svars)
<1>1. /\ pc \in {"turn", "refill"} /\ out' = out
      /\ UNCHANGED <<static, finished, out_size, consumed, dropped, need>>
  BY Zenon DEF Refill
<1>a. ~flush
  BY RefillReads, Zenon
<1>2. /\ StaticOK /\ InputOK /\ {flush, finished, failed} \subseteq BOOLEAN
      /\ ~finished /\ len = 0 /\ view = Empty /\ consumed = 0
      /\ out_size \in Nat /\ Len(out) \in Nat /\ Len(out) <= out_size
  BY <1>1, Facts, Zenon DEF IInv, Bounds
<1>3. Turned
  BY <1>1, <1>2, Facts, Zenon DEF Turned
<1>4. StaticOK' /\ InputOK'
  <2>1. StaticOK' /\ source' = source
    BY <1>1, <1>2, Zenon DEF static, StaticOK
  <2>2. spos' \in 0..source /\ in_pos' = 0 /\ in_size' \in 0..(source - spos')
    <3>1. spos' = spos + in_pos /\ in_pos' = 0 /\ in_size' \in 0..(source - spos')
      BY <1>a, Zenon DEF Refill, Rewound
    <3>2. QED
      BY <1>2, <3>1 DEF InputOK
  <2>3. 0 \in 0..in_size'
    BY <2>2
  <2>4. QED
    BY <1>2, <2>1, <2>2, <2>3, Zenon DEF InputOK
<1>5. flush' \in BOOLEAN /\ failed' \in BOOLEAN /\ finished' \in BOOLEAN
  BY <1>1, <1>2, <1>a, Zenon DEF Refill, Finish
<1>6. {flush', finished', failed'} \subseteq BOOLEAN
  BY <1>5, Zenon
<1>7. CASE kind = "xz" /\ SourceEnded
  <2>1. failed' = TRUE /\ ReturnFrom(out', 0)
    BY <1>1, <1>7, <1>a, Zenon DEF Refill
  <2>2. len' = Len(out') /\ pc' = "idle" /\ len' \in Nat /\ len' <= Len(out')
    BY <1>1, <1>2, <1>3, <2>1, TurnedReturns
  <2>3. IInv'
    BY <1>1, <1>2, <1>3, <1>4, <1>6, <2>1, <2>2, TurnedIInv, Zenon
  <2>4. S!Next
    BY <1>1, <1>3, <2>1, TurnRefines, Zenon
  <2>5. QED
    BY <2>3, <2>4, Zenon
<1>8. CASE ~(kind = "xz" /\ SourceEnded)
  <2>1. LoopOn
    BY <1>8, <1>a, Zenon DEF Refill
  <2>2. failed' = failed
    BY <1>2, <1>8, <1>a, Zenon DEF Refill
  <2>3. QED
    BY <1>1, <1>2, <1>3, <1>4, <1>6, <2>1, <2>2, LoopOnTurns, Zenon
<1>9. QED
  BY <1>7, <1>8, Zenon

LEMMA Step == IInv /\ [Next]_vars => IInv' /\ [S!Next]_(S!svars)
<1> SUFFICES ASSUME IInv, [Next]_vars PROVE IInv' /\ [S!Next]_(S!svars)
  BY Zenon
<1>1. CASE UNCHANGED vars
  <2>1. IInv'
    BY <1>1, Zenon DEF vars, static, input, output, result, IInv, TypeOK, Good, Bounds
  <2>2. UNCHANGED S!svars
    BY <1>1, Zenon DEF vars, output, result, S!svars
  <2>3. QED
    BY <2>1, <2>2, Zenon
<1>2. QED
  BY <1>1, CallStep, ServiceStep, CompressStep, DecodeStep, DecodeFailsStep, RefillStep, Zenon
     DEF Next

LEMMA InitRefines == Init => S!Init
BY DEF Init, S!Init, Empty, S!Window

-----------------------------------------------------------------------------
(* Why data that is whole is decoded: once the decoder has taken all of its  *)
(* input it has finished, or owes no more than a turn has room for.          *)
Whole ==
  /\ ~failed /\ source = Encoded
  /\ out_size = 0 \/ out_size >= Chunk
  /\ flush => kind = "zlib" /\ Taken = Encoded
  /\ kind = "zlib" => /\ pc = "idle" => len = Len(out) - consumed
                      /\ pc = "entry" => consumed = Len(out)
  /\ Taken = Encoded =>
       \/ finished
       \/ /\ kind = "zlib" /\ Total - Emitted <= Held
          /\ pc \in {"idle", "entry"} \/ Emitted = Total \/ Grown - Len(out) >= Chunk

Intact == faults = {} => Whole

(* The types, for a run in which nothing fails.                              *)
LEMMA WholeFacts ==
  ASSUME IInv
  PROVE  /\ kind \in Kinds /\ Kinds = {"xz", "zlib"} /\ yields[Encoded] = Total
         /\ source \in Nat /\ spos \in Nat /\ in_size \in Nat /\ in_pos \in Nat
         /\ in_pos <= in_size /\ spos + in_size <= source /\ Len(out) \in Nat
         /\ out_size \in Nat /\ Len(out) <= out_size /\ consumed \in Nat
         /\ consumed <= Len(out) /\ dropped \in Nat /\ len \in Nat
         /\ flush \in BOOLEAN /\ finished \in BOOLEAN /\ failed \in BOOLEAN
         /\ Total \in Nat /\ Encoded \in Nat /\ Chunk \in Nat \ {0}
         /\ Held \in Nat /\ Held <= Chunk
<1>1. /\ StaticOK /\ InputOK /\ Good(out, dropped)
      /\ {flush, finished, failed} \subseteq BOOLEAN
      /\ out_size \in Nat /\ Len(out) \in Nat /\ Len(out) <= out_size
      /\ consumed \in 0..Len(out) /\ len \in Nat
  BY Facts, Zenon
<1>2. yields[Encoded] = Total
  BY <1>1, DecodeConstants, Zenon DEF StaticOK
<1>3. flush \in BOOLEAN /\ finished \in BOOLEAN /\ failed \in BOOLEAN
  BY <1>1, Zenon
<1>4. /\ source \in Nat /\ spos \in Nat /\ in_size \in Nat /\ in_pos \in Nat
      /\ in_pos <= in_size /\ spos + in_size <= source
  BY <1>1, DecodeConstants DEF InputOK
<1>5. consumed \in Nat /\ consumed <= Len(out) /\ dropped \in Nat
  BY <1>1 DEF Good
<1>6. Held \in Nat /\ Held <= Chunk /\ Chunk \in Nat \ {0} /\ Total \in Nat /\ Encoded \in Nat
  BY DecodeConstants
<1>7. kind \in Kinds
  BY <1>1, Zenon DEF StaticOK
<1>8. QED
  BY <1>1, <1>2, <1>3, <1>4, <1>5, <1>6, <1>7, Zenon DEF Kinds

(* The steps that leave the input alone.                                     *)
LEMMA WholeQuiet ==
  ASSUME IInv, Whole,
         \/ \E c \in 0..len, n \in Needs : Call(c, n)
         \/ Service
         \/ Compress
  PROVE  Whole'
<1>0. IInv'
  BY CallStep, ServiceStep, CompressStep, Zenon
<1>1. ASSUME NEW c \in 0..len, NEW n \in Needs, Call(c, n) PROVE Whole'
  <2>1. kind = "zlib" => consumed' = Len(out)
    <3>1. consumed \in Nat /\ len \in Nat /\ Len(out) \in Nat
      BY WholeFacts, Zenon
    <3>2. kind = "zlib" => c = len /\ len = Len(out) - consumed
      BY <1>1, Zenon DEF Call, Whole
    <3>3. consumed' = consumed + c
      BY <1>1, Zenon DEF Call
    <3>4. QED
      BY <3>1, <3>2, <3>3
  <2>2. QED
    BY <1>1, <2>1, Zenon DEF Call, Whole, static, input, Taken, Emitted
<1>2. CASE Service
  BY <1>2, Zenon DEF Service, ReturnFrom, Whole, static, input, output, Taken, Emitted
<1>3. CASE Compress
  <2>1. /\ UNCHANGED <<static, input, finished, out_size, failed>> /\ pc = "entry" /\ pc' = "turn"
        /\ Len(out') = Len(out) - consumed /\ dropped' = dropped + consumed
    BY <1>3, Facts, RestGood, Zenon DEF Compress, Rest
  <2>2. Emitted' = Emitted /\ Taken' = Taken
    BY <2>1, WholeFacts DEF Emitted, Taken, input
  <2>3. kind = "zlib" => Grown' - Len(out') >= Chunk
    BY <2>1, WholeFacts DEF Whole, Grown
  <2>4. QED
    BY <2>1, <2>2, <2>3, Zenon DEF Whole, static, input
<1>4. QED
  BY <1>1, <1>2, <1>3, Zenon

LEMMA WholeRefill ==
  ASSUME IInv, Whole, faults = {}, Refill
  PROVE  Whole'
<1>a. ~flush
  BY RefillReads, Zenon
<1>1. /\ UNCHANGED <<static, finished, out_size, consumed, dropped>> /\ out' = out
      /\ pc \in {"turn", "refill"} /\ ~finished /\ consumed = 0
      /\ spos' = spos + in_pos /\ in_pos' = 0
  BY <1>a, Zenon DEF Refill, Rewound, IInv, Bounds
<1>2. Taken' = Taken /\ Emitted' = Emitted /\ Grown' = Grown /\ Taken \in Nat
  BY <1>1, WholeFacts DEF Taken, Emitted, Grown
<1>3. SourceEnded => Taken = Encoded
  <2>1. \/ in_size' >= Asked
        \/ in_size' = source - spos'
    BY <1>a, Zenon DEF Refill
  <2>2. Asked > 0
    BY WholeFacts DEF Asked
  <2>3. Asked \in Nat /\ source = Encoded
    BY WholeFacts DEF Asked, Whole
  <2>4. QED
    BY <1>1, <2>1, <2>2, <2>3, WholeFacts DEF SourceEnded, Taken
<1>4. ~(kind = "xz" /\ SourceEnded)
  BY <1>1, <1>3, Zenon DEF Whole
<1>5. LoopOn
  BY <1>4, <1>a, Zenon DEF Refill
<1>6. pc' = "turn" \/ (pc' = "idle" /\ len' = Len(out') - 0)
  BY <1>5, Zenon DEF LoopOn, ReturnFrom
<1>7. ~failed' /\ (flush' => kind = "zlib" /\ Taken = Encoded)
  <2>1. ~failed /\ failed' = (failed \/ (kind = "xz" /\ SourceEnded))
        /\ flush' = (kind = "zlib" /\ SourceEnded)
    BY <1>a, Zenon DEF Refill, Whole, Finish
  <2>2. QED
    BY <1>3, <1>4, <2>1, Zenon
<1>8. QED
  BY <1>1, <1>2, <1>6, <1>7, Zenon DEF Whole, static

LEMMA WholeDecode ==
  ASSUME IInv, Whole, Decode
  PROVE  Whole'
<1>1. PICK k \in 0..(in_size - in_pos), n \in 0..(Grown - Len(out)) :
        /\ Decodes(k, n) /\ in_pos' = in_pos + k /\ out' = out \o Produced(n)
        /\ \E answer \in Answers(k, n) :
             \/ /\ answer = "end" /\ finished' = TRUE
                /\ ReturnFrom(out', 0) /\ UNCHANGED failed
             \/ answer = "error" /\ Error
             \/ /\ answer = "ok"
                /\ IF n > 0 THEN LoopOn ELSE pc' = "refill" /\ UNCHANGED result
                /\ UNCHANGED <<finished, failed>>
  BY Zenon DEF Decode
<1>2. /\ pc = "turn" /\ out_size' = Grown /\ HasWork
      /\ UNCHANGED <<static, spos, in_size, flush, consumed, dropped, need>>
      /\ ~finished /\ consumed = 0
  BY Zenon DEF Decode, IInv, Bounds
<1>3. Len(out') = Len(out) + n
  <2>1. Owed(k, n) >= 0
    BY <1>1, Zenon DEF Decodes
  <2>2. QED
    BY <1>1, <1>2, <2>1, DecodeTurns, Zenon
<1>4. /\ Grown \in Nat /\ n \in Nat /\ k \in Nat /\ Len(out) < Grown /\ Grown >= Chunk
      /\ Taken \in Nat /\ Emitted \in Nat /\ Taken + k <= Encoded
      /\ Taken' = Taken + k /\ Emitted' = Emitted + n
  <2>a. source = Encoded /\ (out_size = 0 \/ out_size >= Chunk)
    BY Zenon DEF Whole
  <2>b. /\ out_size \in Nat /\ Len(out) \in Nat /\ Len(out) <= out_size /\ Chunk \in Nat \ {0}
        /\ spos \in Nat /\ in_pos \in Nat /\ in_size \in Nat /\ spos + in_size <= source
        /\ source \in Nat /\ dropped \in Nat
    BY WholeFacts, Zenon
  <2>1. n \in Nat /\ k \in Nat /\ k <= in_size - in_pos
    BY WholeFacts
  <2>2. Grown \in Nat /\ Len(out) < Grown /\ Grown >= Chunk
    BY <2>a, <2>b DEF Grown
  <2>3. Taken \in Nat /\ Taken + k <= Encoded
    BY <2>1, <2>a, <2>b DEF Taken
  <2>4. Emitted \in Nat /\ Emitted' = Emitted + n
    <3>1. dropped' = dropped
      BY <1>2, Zenon
    <3>2. QED
      BY <1>3, <2>1, <2>b, <3>1 DEF Emitted
  <2>5. Taken' = Taken + k
    <3>1. spos' = spos /\ in_pos' = in_pos + k
      BY <1>1, <1>2, Zenon
    <3>2. QED
      BY <2>1, <2>b, <3>1 DEF Taken
  <2>6. QED
    BY <2>1, <2>2, <2>3, <2>4, <2>5, Zenon
<1>5. /\ Taken + k = Encoded => yields[Taken + k] = Total
      /\ yields[Taken + k] - (Emitted + n) >= 0
      /\ \/ n = Grown - Len(out)
         \/ k = in_size - in_pos /\ yields[Taken + k] - (Emitted + n) = 0
      /\ Taken + k = Encoded =>
           IF kind = "xz" THEN Emitted + n = Total
           ELSE yields[Taken + k] - (Emitted + n) <= Held
  BY <1>1, WholeFacts, Zenon DEF Decodes, Owed
(* Told to finish, the decoder can: it has room for all it owes.             *)
<1>6. flush => Taken + k = Encoded /\ Emitted + n = Total
  <2> SUFFICES ASSUME flush PROVE Taken + k = Encoded /\ Emitted + n = Total
    BY Zenon
  <2>1. Taken = Encoded /\ k = 0 /\ Total - Emitted <= Held
        /\ (Emitted = Total \/ Grown - Len(out) >= Chunk)
    BY <1>2, <1>4 DEF Whole
  <2>2. Taken + k = Encoded /\ yields[Taken + k] = Total
    BY <1>4, <1>5, <2>1
  <2>3. Total - (Emitted + n) >= 0 /\ (n = Grown - Len(out) \/ Total - (Emitted + n) = 0)
    BY <1>5, <2>2, Zenon
  <2>4. Total \in Nat /\ Held <= Chunk /\ Chunk \in Nat /\ Held \in Nat /\ Len(out) \in Nat
    BY WholeFacts, Zenon
  <2>5. QED
    BY <1>4, <2>1, <2>2, <2>3, <2>4
<1>7. Taken + k = Encoded =>
        \/ Emitted + n = Total
        \/ /\ kind = "zlib" /\ n = Grown - Len(out)
           /\ Total - (Emitted + n) <= Held
  <2> SUFFICES ASSUME Taken + k = Encoded
               PROVE  \/ Emitted + n = Total
                      \/ /\ kind = "zlib" /\ n = Grown - Len(out)
                         /\ Total - (Emitted + n) <= Held
    BY Zenon
  <2>1. /\ n = Grown - Len(out) \/ Total - (Emitted + n) = 0
        /\ IF kind = "xz" THEN Emitted + n = Total ELSE Total - (Emitted + n) <= Held
    BY <1>5, Zenon
  <2>2. Total \in Nat /\ kind \in {"xz", "zlib"}
    BY WholeFacts, Zenon
  <2>3. QED
    BY <1>4, <2>1, <2>2
<1>8. PICK answer \in Answers(k, n) :
        \/ /\ answer = "end" /\ finished' = TRUE
           /\ ReturnFrom(out', 0) /\ UNCHANGED failed
        \/ answer = "error" /\ Error
        \/ /\ answer = "ok"
           /\ IF n > 0 THEN LoopOn ELSE pc' = "refill" /\ UNCHANGED result
           /\ UNCHANGED <<finished, failed>>
  BY <1>1, Zenon
<1>9. answer # "error"
  BY <1>6, <1>8, Zenon DEF Answers
<1>10. answer = "ok" /\ Taken + k = Encoded => kind = "zlib"
  BY <1>7, <1>8, Zenon DEF Answers
<1>11. /\ ~failed' /\ source' = Encoded /\ out_size' >= Chunk
       /\ flush' => kind' = "zlib" /\ Taken' = Encoded
  <2>1. failed' = failed
    BY <1>8, <1>9, Zenon
  <2>2. Taken = Encoded => Taken' = Encoded
    BY <1>4, WholeFacts
  <2>3. QED
    BY <1>2, <1>4, <2>1, <2>2, Zenon DEF Whole, static
<1>12. pc' \in {"turn", "refill"} \/ (pc' = "idle" /\ len' = Len(out') - consumed')
  BY <1>2, <1>8, <1>9, Zenon DEF LoopOn, ReturnFrom
<1>13. Taken' = Encoded =>
         \/ finished'
         \/ /\ kind' = "zlib" /\ Total - Emitted' <= Held
            /\ Emitted' = Total \/ Grown' - Len(out') >= Chunk
  <2> SUFFICES ASSUME Taken + k = Encoded, answer = "ok"
               PROVE  /\ kind' = "zlib" /\ Total - Emitted' <= Held
                      /\ Emitted' = Total \/ Grown' - Len(out') >= Chunk
    BY <1>4, <1>8, <1>9, Zenon
  <2>1. kind' = "zlib"
    BY <1>2, <1>10, Zenon DEF static
  <2>2. CASE Emitted + n = Total
    BY <1>4, <2>1, <2>2, WholeFacts
  <2>3. CASE n = Grown - Len(out) /\ Total - (Emitted + n) <= Held
    <3>1. Len(out') = out_size'
      BY <1>2, <1>3, <1>4, <2>3, WholeFacts
    <3>2. Grown' - Len(out') = Chunk
      <4>1. Grown' = out_size' + Chunk
        BY <3>1, Zenon DEF Grown
      <4>2. QED
        BY <3>1, <4>1, <1>2, <1>4, WholeFacts
    <3>3. QED
      BY <1>4, <2>1, <2>3, <3>2, WholeFacts
  <2>4. QED
    BY <1>7, <2>2, <2>3, Zenon
<1>14. QED
  BY <1>11, <1>12, <1>13, Zenon DEF Whole

LEMMA IntactStep == IInv /\ Intact /\ [Next]_vars => Intact'
<1> SUFFICES ASSUME IInv, Intact, [Next]_vars, faults' = {} PROVE Whole'
  BY Zenon DEF Intact
<1>1. faults = {} /\ Whole
  <2>1. faults' = faults
    BY Zenon DEF Next, vars, static, Call, Service, Compress, Decode, DecodeFails, Refill
  <2>2. QED
    BY <2>1, Zenon DEF Intact
<1>2. CASE UNCHANGED vars
  BY <1>1, <1>2, Zenon DEF vars, static, input, output, result, Whole, Taken, Emitted, Grown
<1>3. ~DecodeFails
  BY <1>1, Zenon DEF DecodeFails
<1>4. QED
  BY <1>1, <1>2, <1>3, WholeQuiet, WholeRefill, WholeDecode, Zenon DEF Next

LEMMA IntactInit == Init => Intact
<1> SUFFICES ASSUME Init, faults = {} PROVE Whole
  BY Zenon DEF Intact
<1>1. source = Encoded /\ Taken = 0 /\ Len(out) = 0
  BY DEF Init, Taken
<1>2. QED
  BY <1>1, DecodeConstants DEF Init, Whole

(* Every variable of the decoders keeps its type: the window of the source   *)
(* and the position in it, and the bytes consumed and decoded, which never   *)
(* leave the buffer.                                                         *)
THEOREM TypeCorrect == Spec => []TypeOK
<1>1. IInv => TypeOK
  BY Zenon DEF IInv
<1>2. QED
  BY InitIInv, Step, <1>1, PTL DEF Spec

(* A source that hands out the whole of the data, in whatever windows, never *)
(* makes read_xz or read_zlib fail: the end of the input is not taken for an *)
(* error, and inflate told to finish always has room.                        *)
THEOREM WholeDataDecodes == Spec => []IntactNeverFails
<1>1. Intact => IntactNeverFails
  BY Zenon DEF Intact, Whole, IntactNeverFails
<1>2. QED
  BY InitIInv, Step, IntactInit, IntactStep, <1>1, PTL DEF Spec

(* What read_xz and read_zlib return are the decoded bytes in order, none    *)
(* lost or repeated, as many as were asked for unless the data ends or       *)
(* something has failed: both implement module Stream.                       *)
THEOREM DecodersImplementStream == Spec => ImplementsStream
<1>1. QED
  BY InitIInv, Step, InitRefines, PTL DEF Spec, ImplementsStream, S!Spec
=============================================================================
