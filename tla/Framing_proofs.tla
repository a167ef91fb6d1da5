--------------------------- MODULE Framing_proofs ---------------------------
(***************************************************************************)
(* For any number of callers and requests and any lengths: every request   *)
(* gets its own reply, requests are handled once and in order, and the     *)
(* stream implements the contract of a channel for remote calls.           *)
(***************************************************************************)
EXTENDS Framing, SequenceTheorems, TLAPS

-----------------------------------------------------------------------------
(* Frames and their pieces. *)

\* A frame is a sequence of bytes.
LEMMA FrameIsSeq ==
    ASSUME NEW m \in Messages
    PROVE  /\ Frame(m) \in Seq(Bytes) /\ Len(Frame(m)) = Whole
           /\ \A i \in 1 .. Whole : Frame(m)[i] = <<m, i>>
<1>1. Prefix \in Nat \ {0} /\ Body \in Nat \ {0} /\ Whole \in Nat
  BY SizeAssumption DEF Whole
<1>2. Frame(m) \in [1 .. Whole -> Bytes]
  BY <1>1 DEF Frame, Bytes, Whole
<1>3. Frame(m) \in Seq(Bytes)
  BY <1>1, <1>2, SeqDef
<1>4. Len(Frame(m)) = Whole
  BY <1>1, <1>2, <1>3, LenProperties
<1>. QED
  BY <1>1, <1>3, <1>4 DEF Frame, Whole

\* What is left of a place's frame before and after it writes.
LEMMA PieceFacts ==
    ASSUME NEW m \in Messages, NEW place \in {"prefix", "body"}
    PROVE  /\ Piece(m, place) \in Seq(Bytes)
           /\ Len(Piece(m, place)) =
                 IF place = "prefix" THEN Prefix ELSE Body
           /\ \A i \in 1 .. Len(Piece(m, place)) :
                 Piece(m, place)[i] = <<m, Written(place) + i>>
<1>1. Prefix \in Nat \ {0} /\ Body \in Nat \ {0} /\ Whole = Prefix + Body
  BY SizeAssumption DEF Whole
<1>2. /\ Frame(m) \in Seq(Bytes) /\ Len(Frame(m)) = Whole
      /\ \A i \in 1 .. Whole : Frame(m)[i] = <<m, i>> /\ Frame(m)[i] \in Bytes
  BY <1>1, FrameIsSeq, ElementOfSeq
<1>3. CASE place = "prefix"
  <2>1. /\ SubSeq(Frame(m), 1, Prefix) \in Seq(Bytes)
        /\ Len(SubSeq(Frame(m), 1, Prefix)) = Prefix
        /\ \A i \in 1 .. Prefix : SubSeq(Frame(m), 1, Prefix)[i] = Frame(m)[i]
    BY <1>1, <1>2, SubSeqProperties
  <2>. QED
    BY <1>1, <1>2, <1>3, <2>1 DEF Piece, Written
<1>4. CASE place = "body"
  <2> DEFINE rest == SubSeq(Frame(m), Prefix + 1, Prefix + Body)
  <2>1. /\ rest \in Seq(Bytes) /\ Len(rest) = Body
        /\ \A i \in 1 .. Body : rest[i] = Frame(m)[Prefix + i]
    BY <1>1, <1>2, SubSeqProperties
  <2>2. \A i \in 1 .. Body : Frame(m)[Prefix + i] = <<m, Prefix + i>>
    BY <1>1, <1>2
  <2>3. Piece(m, place) = rest /\ Written(place) = Prefix
    BY <1>4 DEF Piece, Written
  <2> HIDE DEF rest
  <2>. QED
    BY <1>4, <2>1, <2>2, <2>3
<1>. QED
  BY <1>3, <1>4

\* ReadMessage decodes the frame of a message to that message.
LEMMA DecodedFrame ==
    ASSUME NEW b \in Seq(Bytes), NEW m \in Messages, Carries(b, <<>>, m),
           Complete(b)
    PROVE  Decoded(b) = m
<1>1. /\ Frame(m) \in Seq(Bytes) /\ Len(Frame(m)) = Whole
      /\ \A i \in 1 .. Whole : Frame(m)[i] = <<m, i>>
  BY FrameIsSeq
<1>2. Len(b) = Whole /\ DOMAIN b = 1 .. Whole
  BY LenProperties DEF Complete, Whole
<1>3. b = Frame(m)
  BY <1>1, <1>2, SeqEqual DEF Carries
<1>4. 1 \in 1 .. Whole
  BY SizeAssumption DEF Whole
<1>5. b[1][1] = m
  BY <1>2, <1>4 DEF Carries
<1>. QED
  BY <1>3, <1>5 DEF Decoded

-----------------------------------------------------------------------------
(* Bytes in flight. *)

\* One Read moves bytes from the stream to the buffer.
LEMMA ReadCarries ==
    ASSUME NEW b \in Seq(Bytes), NEW s \in Seq(Bytes), NEW n \in 1 .. Len(s)
    PROVE  /\ b \o SubSeq(s, 1, n) \in Seq(Bytes)
           /\ SubSeq(s, n + 1, Len(s)) \in Seq(Bytes)
           /\ Len(b \o SubSeq(s, 1, n)) = Len(b) + n
           /\ Len(SubSeq(s, n + 1, Len(s))) = Len(s) - n
           /\ \A m : Carries(b, s, m) =>
                 Carries(b \o SubSeq(s, 1, n), SubSeq(s, n + 1, Len(s)), m)
<1>1. Len(b) \in Nat /\ Len(s) \in Nat /\ n \in Nat /\ n <= Len(s)
  BY LenProperties
<1>2. \A i \in 1 .. Len(s) : s[i] \in Bytes
  BY ElementOfSeq
<1>3. /\ SubSeq(s, 1, n) \in Seq(Bytes) /\ Len(SubSeq(s, 1, n)) = n
      /\ \A i \in 1 .. n : SubSeq(s, 1, n)[i] = s[i]
  BY <1>1, <1>2, SubSeqProperties
<1>4. /\ SubSeq(s, n + 1, Len(s)) \in Seq(Bytes)
      /\ Len(SubSeq(s, n + 1, Len(s))) = Len(s) - n
      /\ \A i \in 1 .. Len(s) - n : SubSeq(s, n + 1, Len(s))[i] = s[n + i]
  BY <1>1, <1>2, SubSeqProperties
<1>5. /\ b \o SubSeq(s, 1, n) \in Seq(Bytes)
      /\ Len(b \o SubSeq(s, 1, n)) = Len(b) + n
      /\ \A i \in 1 .. Len(b) + n : (b \o SubSeq(s, 1, n))[i] =
            IF i <= Len(b) THEN b[i] ELSE SubSeq(s, 1, n)[i - Len(b)]
  BY <1>1, <1>3, ConcatProperties
<1>6. ASSUME NEW m, Carries(b, s, m)
      PROVE  Carries(b \o SubSeq(s, 1, n), SubSeq(s, n + 1, Len(s)), m)
  <2>1. /\ DOMAIN b = 1 .. Len(b) /\ DOMAIN s = 1 .. Len(s)
        /\ DOMAIN (b \o SubSeq(s, 1, n)) = 1 .. Len(b) + n
        /\ DOMAIN SubSeq(s, n + 1, Len(s)) = 1 .. Len(s) - n
    BY <1>4, <1>5, LenProperties
  <2>2. /\ \A i \in 1 .. Len(b) : b[i] = <<m, i>>
        /\ \A i \in 1 .. Len(s) : s[i] = <<m, Len(b) + i>>
    BY <1>6, <2>1 DEF Carries
  <2>3. ASSUME NEW i \in 1 .. Len(b) + n
        PROVE  (b \o SubSeq(s, 1, n))[i] = <<m, i>>
    <3>1. CASE i <= Len(b)
      BY <1>1, <1>5, <2>2, <3>1
    <3>2. CASE i > Len(b)
      <4>1. i - Len(b) \in 1 .. n /\ i - Len(b) \in 1 .. Len(s)
        BY <1>1, <3>2
      <4>2. (b \o SubSeq(s, 1, n))[i] = s[i - Len(b)]
        BY <1>1, <1>3, <1>5, <3>2, <4>1
      <4>3. Len(b) + (i - Len(b)) = i
        BY <1>1
      <4>. QED
        BY <2>2, <4>1, <4>2, <4>3
    <3>. QED
      BY <1>1, <3>1, <3>2
  <2>4. ASSUME NEW i \in 1 .. Len(s) - n
        PROVE  SubSeq(s, n + 1, Len(s))[i] = <<m, Len(b) + n + i>>
    <3>1. n + i \in 1 .. Len(s) /\ Len(b) + (n + i) = Len(b) + n + i
      BY <1>1
    <3>. QED
      BY <1>4, <2>2, <3>1
  <2>5. Len(b) + n + (Len(s) - n) <= Whole
    BY <1>1, <1>6, SizeAssumption DEF Carries, Whole
  <2>. QED
    BY <1>4, <1>5, <2>1, <2>3, <2>4, <2>5 DEF Carries
<1>. QED
  BY <1>4, <1>5, <1>6

\* What a break leaves of the bytes in flight.
LEMMA CutCarries ==
    ASSUME NEW s \in Seq(Bytes), NEW n \in 0 .. Len(s)
    PROVE  /\ SubSeq(s, 1, n) \in Seq(Bytes)
           /\ Len(SubSeq(s, 1, n)) = n
           /\ \A b, m : Len(b) \in Nat /\ Carries(b, s, m) =>
                 Carries(b, SubSeq(s, 1, n), m)
<1>1. Len(s) \in Nat /\ n \in Nat /\ n <= Len(s) /\ DOMAIN s = 1 .. Len(s)
  BY LenProperties
<1>2. \A i \in 1 .. Len(s) : s[i] \in Bytes
  BY ElementOfSeq
<1>3. /\ SubSeq(s, 1, n) \in Seq(Bytes) /\ Len(SubSeq(s, 1, n)) = n
      /\ \A i \in 1 .. n : SubSeq(s, 1, n)[i] = s[i]
  BY <1>1, <1>2, SubSeqProperties
<1>4. DOMAIN SubSeq(s, 1, n) = 1 .. n
  BY <1>3, LenProperties
<1>. QED
  <2>1. ASSUME NEW b, NEW m, Len(b) \in Nat, Carries(b, s, m)
        PROVE  Carries(b, SubSeq(s, 1, n), m)
    <3>1. Len(b) + n <= Whole
      BY <1>1, <2>1, SizeAssumption DEF Carries, Whole
    <3>. QED
      BY <1>1, <1>3, <1>4, <2>1, <3>1 DEF Carries
  <2>. QED
    BY <1>3, <2>1

\* A piece that is written is the next one of the frame.
LEMMA WriteCarries ==
    ASSUME NEW b \in Seq(Bytes), NEW s \in Seq(Bytes), NEW m \in Messages,
           NEW place \in {"prefix", "body"},
           Len(b) + Len(s) = Written(place),
           Len(b) + Len(s) > 0 => Carries(b, s, m)
    PROVE  /\ s \o Piece(m, place) \in Seq(Bytes)
           /\ Len(b) + Len(s \o Piece(m, place)) =
                 Written(IF place = "prefix" THEN "body" ELSE "read")
           /\ Carries(b, s \o Piece(m, place), m)
<1> DEFINE p == Piece(m, place)
<1>1. /\ Prefix \in Nat \ {0} /\ Body \in Nat \ {0} /\ Whole = Prefix + Body
      /\ Len(b) \in Nat /\ Len(s) \in Nat
  BY SizeAssumption, LenProperties DEF Whole
<1>2. /\ p \in Seq(Bytes) /\ Len(p) = IF place = "prefix" THEN Prefix ELSE Body
      /\ \A i \in 1 .. Len(p) : p[i] = <<m, Written(place) + i>>
  BY PieceFacts
<1> HIDE DEF p
<1>3. Len(p) \in Nat
  BY <1>1, <1>2
<1>4. /\ s \o p \in Seq(Bytes) /\ Len(s \o p) = Len(s) + Len(p)
      /\ \A i \in 1 .. Len(s) + Len(p) :
            (s \o p)[i] = IF i <= Len(s) THEN s[i] ELSE p[i - Len(s)]
  BY <1>2, ConcatProperties
<1>5. Len(b) + Len(s \o p) = Written(IF place = "prefix" THEN "body" ELSE "read")
  BY <1>1, <1>2, <1>4 DEF Written
<1>6. Len(b) + Len(s \o p) <= Whole
  BY <1>1, <1>5 DEF Written
<1>7. /\ DOMAIN b = 1 .. Len(b) /\ DOMAIN s = 1 .. Len(s)
      /\ DOMAIN (s \o p) = 1 .. Len(s) + Len(p)
  BY <1>4, LenProperties
<1>8. /\ \A i \in 1 .. Len(b) : b[i] = <<m, i>>
      /\ \A i \in 1 .. Len(s) : s[i] = <<m, Len(b) + i>>
  <2>1. CASE Len(b) + Len(s) = 0
    BY <1>1, <2>1
  <2>2. CASE Carries(b, s, m)
    BY <1>7, <2>2 DEF Carries
  <2>. QED
    BY <1>1, <2>1, <2>2
<1>9. ASSUME NEW i \in 1 .. Len(s) + Len(p)
      PROVE  (s \o p)[i] = <<m, Len(b) + i>>
  <2>1. CASE i <= Len(s)
    BY <1>1, <1>3, <1>4, <1>8, <2>1
  <2>2. CASE i > Len(s)
    <3>1. i - Len(s) \in 1 .. Len(p) /\ Written(place) + (i - Len(s)) = Len(b) + i
      BY <1>1, <1>3, <2>2
    <3>2. (s \o p)[i] = p[i - Len(s)]
      BY <1>1, <1>3, <1>4, <2>2
    <3>. QED
      BY <1>2, <3>1, <3>2
  <2>. QED
    BY <1>1, <1>3, <2>1, <2>2
<1>. QED
  BY <1>4, <1>5, <1>6, <1>7, <1>8, <1>9 DEF Carries, p

-----------------------------------------------------------------------------
(* The types, said of each value. *)

\* An empty sequence is one of length zero.
LEMMA EmptyIffZero == \A S : \A s \in Seq(S) :
    /\ Len(s) \in Nat /\ DOMAIN s = 1 .. Len(s)
    /\ Len(s) = 0 <=> s = <<>>
    /\ \A i \in 1 .. Len(s) : s[i] \in S
BY EmptySeq, LenProperties, ElementOfSeq

\* What the type invariant says of buffers, streams and histories.
LEMMA Facts ==
    ASSUME TypeOK
    PROVE  /\ Prefix \in Nat \ {0} /\ Body \in Nat \ {0} /\ Whole = Prefix + Body
           /\ Server \in Readers /\ Server \notin Callers
           /\ \A c \in Callers : c \in Readers /\ c # None
           /\ \A x \in Readers :
                 /\ buf[x] \in Seq(Bytes) /\ Len(buf[x]) \in 0 .. Whole
                 /\ Len(buf[x]) = 0 <=> buf[x] = <<>>
           /\ toServer \in Seq(Bytes) /\ Len(toServer) \in Nat
           /\ Len(toServer) = 0 <=> toServer = <<>>
           /\ toClient \in Seq(Bytes) /\ Len(toClient) \in Nat
           /\ Len(toClient) = 0 <=> toClient = <<>>
           /\ Len(sent) \in Nat /\ DOMAIN sent = 1 .. Len(sent)
           /\ \A i \in DOMAIN sent :
                 /\ sent[i] \in Requests
                 /\ sent[i].from \in Callers /\ sent[i].call \in Nat \ {0}
           /\ Len(handled) \in Nat /\ DOMAIN handled = 1 .. Len(handled)
           /\ \A i \in DOMAIN handled :
                 /\ handled[i] \in Requests
                 /\ handled[i].from \in Callers /\ handled[i].call \in Nat \ {0}
           /\ MaxCalls \in Nat /\ \A c \in Callers : calls[c] \in Nat
           /\ \A r : r \in ToSet(handled) <=> \E i \in 1 .. Len(handled) : r = handled[i]
<1>1. /\ Prefix \in Nat \ {0} /\ Body \in Nat \ {0} /\ Whole = Prefix + Body
  BY SizeAssumption DEF Whole
<1>2. /\ Server \in Readers /\ Server \notin Callers
      /\ \A c \in Callers : c \in Readers /\ c # None
  BY CallerAssumption DEF Readers
<1>3. \A x \in Readers :
        /\ buf[x] \in Seq(Bytes) /\ Len(buf[x]) \in 0 .. Whole
        /\ Len(buf[x]) = 0 <=> buf[x] = <<>>
  BY <1>1, EmptyIffZero DEF TypeOK
<1>4. /\ toServer \in Seq(Bytes) /\ Len(toServer) \in Nat
      /\ Len(toServer) = 0 <=> toServer = <<>>
      /\ toClient \in Seq(Bytes) /\ Len(toClient) \in Nat
      /\ Len(toClient) = 0 <=> toClient = <<>>
  BY EmptyIffZero DEF TypeOK
<1>5. /\ Len(sent) \in Nat /\ DOMAIN sent = 1 .. Len(sent)
      /\ \A i \in DOMAIN sent : sent[i] \in Requests
      /\ Len(handled) \in Nat /\ DOMAIN handled = 1 .. Len(handled)
      /\ \A i \in DOMAIN handled : handled[i] \in Requests
  BY EmptyIffZero DEF TypeOK
<1>6. \A r \in Requests : r.from \in Callers /\ r.call \in Nat \ {0}
  BY CallerAssumption DEF Requests
<1>7. MaxCalls \in Nat /\ \A c \in Callers : calls[c] \in Nat
  BY CallerAssumption DEF TypeOK
<1>8. \A r : r \in ToSet(handled) <=> \E i \in 1 .. Len(handled) : r = handled[i]
  BY <1>5 DEF ToSet
<1>. QED
  BY <1>1, <1>2, <1>3, <1>4, <1>5, <1>6, <1>7, <1>8

\* A caller's request and the reply to it.
LEMMA CurrentType ==
    ASSUME TypeOK, NEW c \in Callers, calls[c] > 0
    PROVE  /\ Current(c) \in Requests /\ Current(c) \in Messages
           /\ ReplyTo(Current(c)) \in Messages
<1>1. MaxCalls \in Nat /\ calls[c] \in 1 .. MaxCalls
  BY CallerAssumption DEF TypeOK
<1>2. Current(c) \in Requests
  BY <1>1 DEF Current, Requests
<1>3. ReplyTo(Current(c)) = [from |-> c, call |-> calls[c], reply |-> TRUE]
  BY DEF ReplyTo, Current
<1>4. ReplyTo(Current(c)) \in [from : Callers, call : 1 .. MaxCalls, reply : {TRUE}]
  BY <1>1, <1>3
<1>. QED
  BY <1>2, <1>4, Zenon DEF Messages

\* The requests handled are the first ones written.
LEMMA HandledIsSent ==
    ASSUME TypeOK, Numbered
    PROVE  \A i \in 1 .. Len(handled) : handled[i] = sent[i] /\ i \in DOMAIN sent
<1>1. TAKE i \in 1 .. Len(handled)
<1>2. i \in DOMAIN handled /\ i \in DOMAIN sent
  BY Facts DEF Numbered, HandledFirst
<1>. QED
  BY <1>2 DEF Numbered, HandledFirst

\* A request that was not written, or was written after the ones that were
\* handled, was not handled.
LEMMA NotHandled ==
    ASSUME TypeOK, Numbered, NEW c \in Callers,
           \/ pc[c] = "lock"
           \/ Len(sent) = Len(handled) + 1 /\ Last(sent) = Current(c)
    PROVE  Current(c) \notin ToSet(handled)
<1>1. Current(c).from = c /\ Current(c).call = calls[c] /\ calls[c] \in Nat
  BY Facts DEF Current
<1>2. ASSUME NEW i \in 1 .. Len(handled) PROVE handled[i] # Current(c)
  <2>1. handled[i] = sent[i] /\ i \in DOMAIN sent /\ sent[i].call \in Nat
    BY HandledIsSent, Facts
  <2>2. CASE pc[c] = "lock"
    BY <1>1, <2>1, <2>2 DEF Numbered, NotAhead
  <2>3. CASE Len(sent) = Len(handled) + 1 /\ Last(sent) = Current(c)
    <3>1. /\ Len(sent) \in DOMAIN sent /\ i < Len(sent)
          /\ sent[Len(sent)] = Current(c)
      BY <2>3, Facts DEF Last
    <3>2. sent[i].from = c => sent[i].call < calls[c]
      BY <1>1, <2>1, <3>1 DEF Numbered, Ascending
    <3>. QED
      BY <1>1, <2>1, <3>2
  <2>. QED
    BY <2>2, <2>3
<1>. QED
  BY <1>2, Facts

\* The initial state.
LEMMA InitInv == Init => IInv
<1> SUFFICES ASSUME Init PROVE IInv
  OBVIOUS
<1>1. TypeOK
  <2>1. /\ <<>> \in Seq(Bytes) /\ <<>> \in Seq(Requests) /\ Len(<<>>) = 0
        /\ MaxCalls \in Nat /\ Prefix + Body \in Nat
    BY CallerAssumption, SizeAssumption, EmptySeq
  <2>2. /\ buf \in [Readers -> Seq(Bytes)] /\ \A x \in Readers : buf[x] = <<>>
        /\ pc \in [Readers -> {"idle", "lock", "prefix", "body", "read", "gone"}]
    BY <2>1, Zenon DEF Init, Readers
  <2>3. /\ mu \in Callers \cup {None} /\ calls \in [Callers -> 0 .. MaxCalls]
        /\ answer \in [Callers -> Messages \cup {None, Error}]
    <3>1. 0 \in 0 .. MaxCalls
      BY <2>1
    <3>. QED
      BY <3>1, Zenon DEF Init
  <2>4. /\ toServer = <<>> /\ toClient = <<>> /\ sent = <<>> /\ handled = <<>>
        /\ broken \in BOOLEAN /\ closed \in BOOLEAN
    BY DEF Init
  <2>5. \A x \in Readers : Len(buf[x]) <= Prefix + Body
    BY <2>1, <2>2
  <2>. QED
    BY <2>1, <2>2, <2>3, <2>4, <2>5 DEF TypeOK
<1>2. Len(sent) = 0 /\ Len(handled) = 0 /\ DOMAIN sent = {} /\ DOMAIN handled = {}
  BY EmptySeq DEF Init
<1>3. /\ Upward = 0 /\ toClient = <<>> /\ \A c \in Callers : buf[c] = <<>>
      /\ pc[Server] = "read" /\ \A c \in Callers : pc[c] = "idle"
  BY <1>2, CallerAssumption DEF Init, Upward, Readers
<1>4. Turns /\ Numbered
  BY <1>2, <1>3, CallerAssumption DEF Init, Turns, Numbered, Asked, NotAhead,
     Ascending, HandledFirst, Holding
<1>5. RequestUnderWay /\ ReplyUnderWay /\ NothingLost /\ Answered
  BY <1>2, <1>3, CallerAssumption DEF Init, RequestUnderWay, ReplyUnderWay,
     NothingLost, Quiet, Answered
<1>. QED
  BY <1>1, <1>4, <1>5 DEF IInv

-----------------------------------------------------------------------------
(* Each step of request keeps the invariant. *)

\* The next request of a caller is not among those that were written.
LEMMA CallStep == ASSUME IInv, NEW c \in Callers, Call(c) PROVE IInv'
<1>1. TypeOK /\ Turns /\ Numbered /\ RequestUnderWay /\ ReplyUnderWay
      /\ NothingLost /\ Answered
  BY DEF IInv
<1>2. /\ pc[c] = "idle" /\ pc' = [pc EXCEPT ![c] = "lock"]
      /\ calls[c] < MaxCalls /\ calls' = [calls EXCEPT ![c] = @ + 1]
      /\ answer' = [answer EXCEPT ![c] = None]
      /\ UNCHANGED <<mu, buf, toServer, toClient, broken, closed, sent, handled>>
  BY DEF Call, Goto, streams
<1>3. \A d \in Callers : d # c =>
        calls'[d] = calls[d] /\ pc'[d] = pc[d] /\ answer'[d] = answer[d]
        /\ Current(d)' = Current(d)
  BY <1>1, <1>2 DEF TypeOK, Readers, Current
<1>4. pc'[c] = "lock" /\ pc'[Server] = pc[Server] /\ calls'[c] = calls[c] + 1
      /\ calls[c] \in Nat /\ mu # c
  BY <1>1, <1>2, Facts DEF TypeOK, Turns, Holding
<1>5. TypeOK'
  <2>1. calls' \in [Callers -> 0 .. MaxCalls]
    <3>1. calls[c] + 1 \in 0 .. MaxCalls /\ calls \in [Callers -> 0 .. MaxCalls]
      BY <1>1, <1>2, CallerAssumption DEF TypeOK
    <3>. QED
      BY <1>2, <3>1
  <2>2. /\ pc' \in [Readers -> {"idle", "lock", "prefix", "body", "read", "gone"}]
        /\ answer' \in [Callers -> Messages \cup {None, Error}]
    BY <1>1, <1>2 DEF TypeOK
  <2>. QED
    BY <1>1, <1>2, <2>1, <2>2 DEF TypeOK
<1>6. Turns'
  BY <1>1, <1>2, <1>3, <1>4 DEF Turns, Holding
<1>7. Numbered'
  <2>1. Asked' /\ Ascending' /\ HandledFirst'
    BY <1>1, <1>2, <1>3, <1>4 DEF Numbered, Asked, Ascending, HandledFirst
  <2>2. NotAhead'
    BY <1>1, <1>2, <1>3, <1>4, Facts DEF Numbered, NotAhead
  <2>. QED
    BY <2>1, <2>2 DEF Numbered
<1>8. RequestUnderWay'
  <2>1. Current(c)' \notin ToSet(handled)
    <3>1. Current(c)'.from = c /\ Current(c)'.call = calls[c] + 1
      BY <1>4 DEF Current
    <3>2. ASSUME NEW i \in 1 .. Len(handled)
          PROVE  handled[i] # Current(c)'
      <4>1. handled[i] = sent[i] /\ i \in DOMAIN sent
        BY <1>1, HandledIsSent
      <4>2. sent[i].from = c => sent[i].call <= calls[c]
        <5>1. sent[i].call \in Nat
          BY <1>1, <4>1, Facts
        <5>. QED
          BY <1>1, <1>4, <4>1, <5>1 DEF Numbered, NotAhead
      <4>. QED
        BY <1>4, <3>1, <4>1, <4>2
    <3>. QED
      BY <1>1, <3>2, Facts
  <2>. QED
    BY <1>1, <1>2, <1>3, <1>4, <2>1 DEF RequestUnderWay, Upward
<1>9. ReplyUnderWay'
  BY <1>1, <1>2, <1>3, <1>4 DEF ReplyUnderWay, Downward
<1>10. NothingLost'
  BY <1>1, <1>2, <1>3, <1>4 DEF NothingLost, Quiet, Requesting, Replying,
     Upward, Downward
<1>11. Answered'
  BY <1>1, <1>2, <1>3, <1>4 DEF Answered, TypeOK
<1>. QED
  BY <1>5, <1>6, <1>7, <1>8, <1>9, <1>10, <1>11 DEF IInv

\* A request joins the order of requests when its caller gets the mutex.
LEMMA LockStep == ASSUME IInv, NEW c \in Callers, Lock(c) PROVE IInv'
<1>1. TypeOK /\ Turns /\ Numbered /\ RequestUnderWay /\ ReplyUnderWay
      /\ NothingLost /\ Answered
  BY DEF IInv
<1>2. /\ pc[c] = "lock" /\ pc' = [pc EXCEPT ![c] = "prefix"]
      /\ mu = None /\ mu' = c /\ sent' = Append(sent, Current(c))
      /\ UNCHANGED <<calls, buf, toServer, toClient, broken, closed, answer, handled>>
  BY DEF Lock, Goto, streams
<1>3. /\ pc'[c] = "prefix" /\ pc'[Server] = pc[Server]
      /\ \A d \in Callers : d # c => pc'[d] = pc[d]
      /\ \A d \in Callers : Current(d)' = Current(d)
  BY <1>1, <1>2, Facts DEF TypeOK, Current
<1>4. Current(c) \in Requests /\ calls[c] > 0
  BY <1>1, <1>2, CurrentType DEF Numbered, Asked
<1>5. /\ sent' \in Seq(Requests) /\ Len(sent') = Len(sent) + 1
      /\ DOMAIN sent' = 1 .. Len(sent) + 1
      /\ \A i \in 1 .. Len(sent) : sent'[i] = sent[i]
      /\ sent'[Len(sent) + 1] = Current(c)
  BY <1>1, <1>2, <1>4, AppendProperties, LenProperties DEF TypeOK
<1>6. \A d \in Callers : mu # d /\ pc[d] \notin Holding
  BY <1>1, <1>2, Facts DEF Turns
<1>7. TypeOK'
  <2>1. /\ pc' \in [Readers -> {"idle", "lock", "prefix", "body", "read", "gone"}]
        /\ mu' \in Callers \cup {None}
    BY <1>1, <1>2 DEF TypeOK
  <2>. QED
    BY <1>1, <1>2, <1>5, <2>1 DEF TypeOK
<1>8. Turns'
  BY <1>1, <1>2, <1>3, <1>6 DEF Turns, Holding
<1>9. Numbered'
  <2>1. \A i \in DOMAIN sent : sent[i].from = c => sent[i].call < calls[c]
    BY <1>1, <1>2 DEF Numbered, NotAhead
  <2>2. Current(c).from = c /\ Current(c).call = calls[c]
    BY DEF Current
  <2>3. \A i \in DOMAIN sent' :
          \/ i \in DOMAIN sent /\ i < Len(sent) + 1 /\ sent'[i] = sent[i]
          \/ i = Len(sent) + 1 /\ sent'[i] = Current(c)
    BY <1>1, <1>5, Facts
  <2>4. NotAhead'
    BY <1>1, <1>2, <1>3, <2>2, <2>3, Facts DEF Numbered, NotAhead
  <2>5. Ascending'
    <3>1. SUFFICES ASSUME NEW i \in DOMAIN sent', NEW j \in DOMAIN sent', i < j,
                          sent'[i].from = sent'[j].from
                   PROVE  sent'[i].call < sent'[j].call
      BY DEF Ascending
    <3>2. i \in DOMAIN sent /\ sent'[i] = sent[i]
      BY <1>1, <1>5, <2>3, <3>1, Facts
    <3>3. CASE j \in DOMAIN sent /\ sent'[j] = sent[j]
      BY <1>1, <3>1, <3>2, <3>3 DEF Numbered, Ascending
    <3>4. CASE sent'[j] = Current(c)
      BY <2>1, <2>2, <3>1, <3>2, <3>4
    <3>. QED
      BY <2>3, <3>3, <3>4
  <2>6. HandledFirst'
    <3>1. Len(handled') <= Len(sent')
      BY <1>1, <1>2, <1>5, Facts DEF Numbered, HandledFirst
    <3>2. \A i \in 1 .. Len(handled) : sent'[i] = handled[i]
      BY <1>1, <1>5, HandledIsSent, Facts
    <3>. QED
      BY <1>1, <1>2, <3>1, <3>2, Facts DEF HandledFirst
  <2>7. Asked'
    BY <1>1, <1>2, <1>3, <1>4 DEF Numbered, Asked
  <2>. QED
    BY <2>4, <2>5, <2>6, <2>7 DEF Numbered
<1>10. RequestUnderWay'
  <2>1. SUFFICES ASSUME Upward > 0 PROVE RequestUnderWay'
    BY <1>2 DEF RequestUnderWay, Upward
  <2>2. Len(handled) \in Nat /\ Len(sent) \in Nat
    BY <1>1, Facts
  <2>3. Len(handled) < Len(sent)
    BY <1>1, <2>1 DEF RequestUnderWay
  <2>4. /\ Len(handled) < Len(sent')
        /\ sent'[Len(handled) + 1] = sent[Len(handled) + 1]
    BY <1>5, <2>2, <2>3
  <2>. QED
    BY <1>1, <1>2, <1>3, <2>1, <2>4 DEF RequestUnderWay, Carries
<1>11. ReplyUnderWay'
  BY <1>1, <1>2, <1>3, <1>6 DEF ReplyUnderWay, Downward, Holding
<1>12. NothingLost'
  <2>1. ASSUME ~broken PROVE Requesting(c)'
    <3>1. Quiet
      BY <1>1, <1>2, <2>1 DEF NothingLost
    <3>2. buf[c] = <<>> /\ Len(buf[c]) = 0 /\ Len(toClient) = 0
      BY <1>1, <1>2, <3>1, Facts DEF ReplyUnderWay, Quiet
    <3>. QED
      BY <1>1, <1>2, <1>3, <1>5, <3>1, <3>2, Facts DEF Quiet, Requesting,
         Upward, Downward, Written, Last
  <2>. QED
    BY <1>1, <1>2, <2>1, Facts DEF NothingLost
<1>13. Answered'
  BY <1>1, <1>2, <1>3 DEF Answered
<1>. QED
  BY <1>7, <1>8, <1>9, <1>10, <1>11, <1>12, <1>13 DEF IInv

\* Steps that neither begin nor handle a request keep the order.
LEMMA NumberedKept ==
    ASSUME TypeOK, Numbered, UNCHANGED <<calls, sent, handled>>,
           \A c \in Callers : /\ pc'[c] = "lock" => pc[c] = "lock"
                              /\ pc'[c] # "idle" => pc[c] # "idle"
    PROVE  Numbered'
<1>1. Asked' /\ Ascending' /\ HandledFirst'
  BY DEF Numbered, Asked, Ascending, HandledFirst
<1>2. NotAhead'
  BY Facts DEF Numbered, NotAhead
<1>. QED
  BY <1>1, <1>2 DEF Numbered

\* A caller writes while the server has nothing else to read.
LEMMA WriteStep == ASSUME IInv, NEW c \in Callers, Write(c) PROVE IInv'
<1>1. TypeOK /\ Turns /\ Numbered /\ RequestUnderWay /\ ReplyUnderWay
      /\ NothingLost /\ Answered
  BY DEF IInv
<1>. PICK place \in {"prefix", "body"}, next \in {"body", "read"} :
          /\ pc[c] = place /\ pc' = [pc EXCEPT ![c] = next]
          /\ next = IF place = "prefix" THEN "body" ELSE "read"
  BY DEF Write, Goto
<1>2. /\ ~broken /\ toServer' = toServer \o Piece(Current(c), place)
      /\ UNCHANGED <<mu, calls, buf, toClient, broken, closed, answer, sent, handled>>
  BY DEF Write, Down
<1>3. /\ pc'[c] = next /\ pc'[Server] = pc[Server]
      /\ \A d \in Callers : d # c => pc'[d] = pc[d]
      /\ \A d \in Callers : Current(d)' = Current(d)
  BY <1>1, <1>2, Facts DEF TypeOK, Current
<1>4. mu = c /\ \A d \in Callers : d # c => pc[d] \notin Holding
  BY <1>1 DEF Turns, Holding
<1>5. /\ Requesting(c) /\ sent[Len(handled) + 1] = Current(c)
      /\ Len(sent) = Len(handled) + 1 /\ Last(sent) = Current(c)
      /\ pc[Server] = "read" /\ Upward = Written(place) /\ Downward(c) = 0
  BY <1>1, <1>2, <1>4 DEF NothingLost, Requesting, Replying, Last
<1>6. Current(c) \in Messages
  BY <1>1, CurrentType DEF Numbered, Asked
<1>7. toClient = <<>> /\ \A d \in Callers : buf[d] = <<>>
  <2>1. toClient = <<>> /\ buf[c] = <<>>
    BY <1>1, <1>5, Facts DEF Downward
  <2>. QED
    BY <1>1, <1>4, <2>1 DEF ReplyUnderWay, Holding
<1>8. /\ toServer' \in Seq(Bytes)
      /\ Len(buf[Server]) + Len(toServer') = Written(next)
      /\ Carries(buf[Server], toServer', Current(c))
  <2>1. Upward > 0 => Carries(buf[Server], toServer, Current(c))
    BY <1>1, <1>5 DEF RequestUnderWay
  <2>2. /\ buf[Server] \in Seq(Bytes) /\ toServer \in Seq(Bytes)
        /\ Len(buf[Server]) + Len(toServer) = Written(place)
        /\ Len(buf[Server]) + Len(toServer) > 0 =>
              Carries(buf[Server], toServer, Current(c))
    BY <1>1, <1>5, <2>1, Facts DEF Upward
  <2>. QED
    BY <1>2, <1>6, <2>2, WriteCarries
<1>9. TypeOK'
  <2>1. Len(toServer') <= Prefix + Body
    <3>1. Len(toServer') \in Nat
      BY <1>8, LenProperties
    <3>2. Written(next) <= Whole
      BY <1>1, Facts DEF Written
    <3>. QED
      BY <1>1, <1>8, <3>1, <3>2, Facts
  <2>2. pc' \in [Readers -> {"idle", "lock", "prefix", "body", "read", "gone"}]
    BY <1>1 DEF TypeOK
  <2>. QED
    BY <1>1, <1>2, <1>8, <2>1, <2>2 DEF TypeOK
<1>10. Turns'
  BY <1>1, <1>2, <1>3, <1>4 DEF Turns, Holding
<1>11. Numbered'
  BY <1>1, <1>2, <1>3, NumberedKept
<1>12. RequestUnderWay'
  <2>1. ASSUME NEW d \in Callers, pc'[d] # "idle"
        PROVE  Current(d) \notin ToSet(handled)
    BY <1>1, <1>3, <1>4, <1>5, <2>1, NotHandled DEF TypeOK, Holding, Turns, Readers
  <2>. QED
    BY <1>1, <1>2, <1>3, <1>5, <1>7, <1>8, <2>1, Facts DEF RequestUnderWay
<1>13. ReplyUnderWay'
  BY <1>1, <1>2, <1>7, Facts DEF ReplyUnderWay, Downward
<1>14. NothingLost'
  <2>1. Requesting(c)'
    BY <1>1, <1>2, <1>3, <1>5, <1>7, <1>8, Facts DEF Requesting, Upward, Downward
  <2>. QED
    BY <1>1, <1>2, <1>4, <2>1, Facts DEF NothingLost
<1>15. Answered'
  BY <1>1, <1>2, <1>3 DEF Answered
<1>. QED
  BY <1>9, <1>10, <1>11, <1>12, <1>13, <1>14, <1>15 DEF IInv

\* A caller reads a part of its own reply.
LEMMA ReceiveStep == ASSUME IInv, NEW c \in Callers, Receive(c) PROVE IInv'
<1>1. TypeOK /\ Turns /\ Numbered /\ RequestUnderWay /\ ReplyUnderWay
      /\ NothingLost /\ Answered
  BY DEF IInv
<1>r. PICK n \in 1 .. Wanted(buf[c]) :
          /\ n <= Len(toClient)
          /\ buf' = [buf EXCEPT ![c] = @ \o SubSeq(toClient, 1, n)]
          /\ toClient' = SubSeq(toClient, n + 1, Len(toClient))
  BY DEF Receive, Read
<1>2. /\ pc[c] = "read"
      /\ UNCHANGED <<mu, pc, calls, toServer, broken, closed, answer, sent, handled>>
  BY DEF Receive, Read
<1>3. n \in 1 .. Len(toClient)
  BY <1>1, <1>r, Facts DEF Wanted
<1>4. /\ buf'[c] \in Seq(Bytes) /\ toClient' \in Seq(Bytes)
      /\ Len(buf'[c]) + Len(toClient') = Downward(c)
      /\ Carries(buf[c], toClient, ReplyTo(Current(c))) =>
            Carries(buf'[c], toClient', ReplyTo(Current(c)))
  <2>1. buf'[c] = buf[c] \o SubSeq(toClient, 1, n)
    BY <1>1, <1>r, Facts DEF TypeOK
  <2>2. buf[c] \in Seq(Bytes) /\ toClient \in Seq(Bytes)
    BY <1>1, Facts
  <2>3. /\ buf'[c] \in Seq(Bytes) /\ toClient' \in Seq(Bytes)
        /\ Len(buf'[c]) = Len(buf[c]) + n /\ Len(toClient') = Len(toClient) - n
        /\ \A m : Carries(buf[c], toClient, m) => Carries(buf'[c], toClient', m)
    BY <1>r, <1>3, <2>1, <2>2, ReadCarries
  <2>4. Len(buf[c]) \in Nat /\ Len(toClient) \in Nat /\ n \in Nat
    BY <1>1, <1>3, Facts
  <2>5. Len(buf'[c]) + Len(toClient') = Downward(c)
    BY <2>3, <2>4 DEF Downward
  <2>. QED
    BY <2>3, <2>5
<1>5. /\ \A x \in Readers : x # c => buf'[x] = buf[x]
      /\ \A d \in Callers : Current(d)' = Current(d)
  BY <1>1, <1>2, <1>r, Facts DEF TypeOK, Current
<1>6. /\ Downward(c) > 0 /\ Downward(c) <= Whole
      /\ Len(handled) > 0 /\ Last(handled) = Current(c)
      /\ Carries(buf'[c], toClient', ReplyTo(Current(c)))
      /\ Upward = 0
  <2>1. Downward(c) > 0 /\ toClient # <<>> /\ Upward \in Nat
    BY <1>1, <1>3, Facts DEF Downward, Upward
  <2>2. /\ Len(handled) > 0 /\ Last(handled) = Current(c)
        /\ Carries(buf[c], toClient, ReplyTo(Current(c)))
    BY <1>1, <1>2, <2>1 DEF ReplyUnderWay
  <2>3. Upward = 0
    BY <1>1, <2>1 DEF RequestUnderWay
  <2>4. Downward(c) <= Whole
    BY <2>2 DEF Carries, Downward
  <2>. QED
    BY <1>4, <2>1, <2>2, <2>3, <2>4
<1>7. TypeOK'
  <2>1. buf' \in [Readers -> Seq(Bytes)]
    BY <1>1, <1>r, <1>4, Facts DEF TypeOK
  <2>2. /\ \A x \in Readers : Len(buf'[x]) <= Prefix + Body
        /\ Len(toClient') <= Prefix + Body
    <3>1. Len(buf'[c]) \in Nat /\ Len(toClient') \in Nat /\ Downward(c) <= Prefix + Body
      BY <1>1, <1>4, <1>6, EmptyIffZero, Facts
    <3>2. Len(buf'[c]) <= Prefix + Body /\ Len(toClient') <= Prefix + Body
      BY <1>4, <3>1, SizeAssumption
    <3>. QED
      BY <1>1, <1>5, <3>2 DEF TypeOK
  <2>. QED
    BY <1>1, <1>2, <1>4, <2>1, <2>2 DEF TypeOK
<1>8. Turns'
  BY <1>1, <1>2 DEF Turns
<1>9. Numbered'
  BY <1>1, <1>2, NumberedKept
<1>10. RequestUnderWay'
  <2>1. Server \in Readers /\ Server # c
    BY <1>1, Facts
  <2>2. Upward' = 0
    BY <1>2, <1>5, <1>6, <2>1 DEF Upward
  <2>. QED
    BY <2>2 DEF RequestUnderWay
<1>11. ReplyUnderWay'
  <2>1. \A d \in Callers : d # c => pc[d] # "read"
    BY <1>1, <1>2 DEF Turns, Holding
  <2>. QED
    BY <1>1, <1>2, <1>5, <1>6, <2>1, Facts DEF ReplyUnderWay
<1>12. NothingLost'
  <2>1. ASSUME ~broken PROVE Replying(c)'
    <3>1. Replying(c)
      BY <1>1, <1>2, <1>6, <2>1 DEF NothingLost, Turns, Holding, Requesting
    <3>2. Upward' = Upward /\ Downward(c)' = Downward(c)
      BY <1>1, <1>2, <1>4, <1>5, Facts DEF Upward, Downward
    <3>. QED
      BY <1>2, <1>5, <3>1, <3>2 DEF Replying
  <2>2. mu = c
    BY <1>1, <1>2 DEF Turns, Holding
  <2>. QED
    BY <1>1, <1>2, <2>1, <2>2, Facts DEF NothingLost
<1>13. Answered'
  BY <1>1, <1>2, <1>5 DEF Answered
<1>. QED
  BY <1>7, <1>8, <1>9, <1>10, <1>11, <1>12, <1>13 DEF IInv

\* What Return leaves as it was, and who is not in a request any more.
LEMMA ReturnFacts ==
    ASSUME TypeOK, Turns, NEW c \in Callers, NEW result, Return(c, result),
           pc[c] \in Holding, result \in Messages \cup {None, Error}
    PROVE  /\ TypeOK' /\ Turns'
           /\ mu = c /\ mu' = None /\ pc'[c] = "idle" /\ buf'[c] = <<>>
           /\ answer'[c] = result
           /\ \A d \in Callers : pc'[d] \notin Holding
           /\ \A x \in Readers : x # c => pc'[x] = pc[x] /\ buf'[x] = buf[x]
           /\ \A d \in Callers : d # c => answer'[d] = answer[d]
           /\ UNCHANGED <<calls, toServer, toClient, broken, closed, sent, handled>>
           /\ \A d \in Callers : Current(d)' = Current(d)
<1>1. /\ pc' = [pc EXCEPT ![c] = "idle"] /\ mu' = None
      /\ buf' = [buf EXCEPT ![c] = <<>>]
      /\ answer' = [answer EXCEPT ![c] = result]
      /\ UNCHANGED <<calls, toServer, toClient, broken, closed, sent, handled>>
  BY DEF Return, streams
<1>2. /\ pc'[c] = "idle" /\ buf'[c] = <<>> /\ answer'[c] = result
      /\ \A x \in Readers : x # c => pc'[x] = pc[x] /\ buf'[x] = buf[x]
      /\ \A d \in Callers : d # c => answer'[d] = answer[d]
  BY <1>1, Facts DEF TypeOK
<1>3. mu = c /\ \A d \in Callers : pc'[d] \notin Holding
  BY <1>2, Facts DEF Turns, Holding
<1>4. TypeOK'
  <2>1. <<>> \in Seq(Bytes) /\ Len(<<>>) = 0 /\ Prefix + Body \in Nat
    BY EmptySeq, SizeAssumption
  <2>2. buf' \in [Readers -> Seq(Bytes)]
    BY <1>1, <2>1 DEF TypeOK
  <2>3. /\ pc' \in [Readers -> {"idle", "lock", "prefix", "body", "read", "gone"}]
        /\ mu' \in Callers \cup {None}
        /\ answer' \in [Callers -> Messages \cup {None, Error}]
    BY <1>1 DEF TypeOK
  <2>4. ASSUME NEW x \in Readers PROVE Len(buf'[x]) <= Prefix + Body
    <3>1. CASE x = c
      BY <1>2, <2>1, <3>1
    <3>2. CASE x # c
      BY <1>2, <3>2 DEF TypeOK
    <3>. QED
      BY <3>1, <3>2
  <2>. QED
    BY <1>1, <2>2, <2>3, <2>4 DEF TypeOK
<1>5. Turns'
  BY <1>1, <1>2, <1>3, Facts DEF Turns, Holding
<1>. QED
  BY <1>1, <1>2, <1>3, <1>4, <1>5 DEF Current

\* What a caller read to the end is the reply to its request.
LEMMA WholeReply ==
    ASSUME IInv, NEW c \in Callers, pc[c] = "read", Complete(buf[c])
    PROVE  /\ Downward(c) > 0 /\ Downward(c) = Whole /\ Upward = 0
           /\ toClient = <<>>
           /\ Decoded(buf[c]) = ReplyTo(Current(c))
           /\ ReplyTo(Current(c)) \in Messages
           /\ Current(c) \in ToSet(handled)
<1>1. TypeOK /\ Numbered /\ RequestUnderWay /\ ReplyUnderWay
  BY DEF IInv
<1>2. Len(buf[c]) = Whole /\ buf[c] # <<>> /\ calls[c] > 0
  BY <1>1, Facts DEF Complete, Whole, Numbered, Asked
<1>3. /\ Len(handled) > 0 /\ Last(handled) = Current(c)
      /\ Carries(buf[c], toClient, ReplyTo(Current(c)))
      /\ Downward(c) > 0 /\ Upward = 0
  <2>1. Downward(c) > 0 /\ Upward \in Nat
    BY <1>1, <1>2, Facts DEF Downward, Upward
  <2>. QED
    BY <1>1, <1>2, <2>1 DEF ReplyUnderWay, RequestUnderWay
<1>4. toClient = <<>> /\ Downward(c) = Whole
  BY <1>1, <1>2, <1>3, Facts DEF Carries, Downward
<1>5. Decoded(buf[c]) = ReplyTo(Current(c)) /\ ReplyTo(Current(c)) \in Messages
  BY <1>1, <1>2, <1>3, <1>4, CurrentType, DecodedFrame, Facts
<1>6. Current(c) \in ToSet(handled)
  BY <1>1, <1>3, Facts DEF Last
<1>. QED
  BY <1>3, <1>4, <1>5, <1>6

\* A request that has its whole reply returns it.
LEMMA FinishStep == ASSUME IInv, NEW c \in Callers, Finish(c) PROVE IInv'
<1>1. TypeOK /\ Turns /\ Numbered /\ RequestUnderWay /\ ReplyUnderWay
      /\ NothingLost /\ Answered
  BY DEF IInv
<1>2. /\ pc[c] = "read" /\ Complete(buf[c]) /\ Return(c, Decoded(buf[c]))
      /\ buf[c] # <<>>
  BY <1>1, Facts DEF Finish, Complete
<1>3. /\ Downward(c) > 0 /\ Downward(c) = Whole /\ Upward = 0 /\ toClient = <<>>
      /\ Decoded(buf[c]) = ReplyTo(Current(c))
      /\ ReplyTo(Current(c)) \in Messages /\ Current(c) \in ToSet(handled)
  BY <1>2, WholeReply
<1>6. /\ TypeOK' /\ Turns'
      /\ mu = c /\ mu' = None /\ pc'[c] = "idle" /\ buf'[c] = <<>>
      /\ answer'[c] = ReplyTo(Current(c))
      /\ \A d \in Callers : pc'[d] \notin Holding
      /\ \A x \in Readers : x # c => pc'[x] = pc[x] /\ buf'[x] = buf[x]
      /\ \A d \in Callers : d # c => answer'[d] = answer[d]
      /\ UNCHANGED <<calls, toServer, toClient, broken, closed, sent, handled>>
      /\ \A d \in Callers : Current(d)' = Current(d)
  BY <1>1, <1>2, <1>3, ReturnFacts DEF Holding
<1>7. Numbered'
  BY <1>1, <1>2, <1>6, NumberedKept, Facts
<1>8. RequestUnderWay'
  <2>1. Server \in Readers /\ Server # c
    BY <1>1, Facts
  <2>2. Upward' = 0
    BY <1>3, <1>6, <2>1 DEF Upward
  <2>. QED
    BY <2>2 DEF RequestUnderWay
<1>9. ReplyUnderWay'
  <2>1. \A d \in Callers : buf'[d] = <<>>
    BY <1>1, <1>6, Facts DEF ReplyUnderWay, Turns, Holding
  <2>. QED
    BY <1>3, <1>6, <2>1 DEF ReplyUnderWay, Holding
<1>10. NothingLost'
  <2>1. ASSUME ~broken PROVE Quiet'
    <3>1. Replying(c)
      BY <1>1, <1>3, <1>6, <2>1 DEF NothingLost, Requesting
    <3>2. pc[Server] = "read"
      <4>1. pc[Server] \in Holding
        BY <1>1, <2>1 DEF Turns
      <4>2. Written(pc[Server]) = Prefix + Body
        BY <1>1, <1>3, <3>1, Facts DEF Replying
      <4>3. Prefix \in Nat \ {0} /\ Body \in Nat \ {0}
        BY SizeAssumption
      <4>. QED
        BY <4>1, <4>2, <4>3 DEF Holding, Written
    <3>. QED
      BY <1>1, <1>3, <1>6, <3>1, <3>2, Facts DEF Quiet, Replying, Upward
  <2>. QED
    BY <1>1, <1>6, <2>1, Facts DEF NothingLost
<1>11. Answered'
  BY <1>1, <1>3, <1>6, Facts DEF Answered
<1>. QED
  BY <1>6, <1>7, <1>8, <1>9, <1>10, <1>11 DEF IInv

\* A request fails over a broken connection, when nothing is left to read.
LEMMA FailStep == ASSUME IInv, NEW c \in Callers, Fail(c) PROVE IInv'
<1>1. TypeOK /\ Turns /\ Numbered /\ RequestUnderWay /\ ReplyUnderWay
      /\ NothingLost /\ Answered
  BY DEF IInv
<1>2. /\ broken /\ pc[c] \in Holding /\ pc[c] # "idle" /\ Return(c, Error)
      /\ pc[c] = "read" => toClient = <<>>
  BY <1>1 DEF Fail, Failing, Down, Turns, Holding
<1>3. /\ TypeOK' /\ Turns'
      /\ mu = c /\ mu' = None /\ pc'[c] = "idle" /\ buf'[c] = <<>>
      /\ answer'[c] = Error
      /\ \A d \in Callers : pc'[d] \notin Holding
      /\ \A x \in Readers : x # c => pc'[x] = pc[x] /\ buf'[x] = buf[x]
      /\ \A d \in Callers : d # c => answer'[d] = answer[d]
      /\ UNCHANGED <<calls, toServer, toClient, broken, closed, sent, handled>>
      /\ \A d \in Callers : Current(d)' = Current(d)
  BY <1>1, <1>2, ReturnFacts
<1>4. toClient = <<>>
  BY <1>1, <1>2, <1>3 DEF ReplyUnderWay, Turns, Holding
<1>5. Numbered'
  BY <1>1, <1>2, <1>3, NumberedKept, Facts
<1>6. RequestUnderWay'
  BY <1>1, <1>3, Facts DEF RequestUnderWay, Upward
<1>7. ReplyUnderWay'
  <2>1. \A d \in Callers : buf'[d] = <<>>
    BY <1>1, <1>3, Facts DEF ReplyUnderWay, Turns, Holding
  <2>. QED
    BY <1>3, <1>4, <2>1 DEF ReplyUnderWay, Holding
<1>8. NothingLost'
  BY <1>2, <1>3 DEF NothingLost
<1>9. Answered'
  BY <1>1, <1>2, <1>3, Facts DEF Answered
<1>. QED
  BY <1>3, <1>5, <1>6, <1>7, <1>8, <1>9 DEF IInv

-----------------------------------------------------------------------------
(* Each step of serveControl keeps the invariant. *)

\* The server reads a part of the request that is under way.
LEMMA ServerReceiveStep == ASSUME IInv, ServerReceive PROVE IInv'
<1>1. TypeOK /\ Turns /\ Numbered /\ RequestUnderWay /\ ReplyUnderWay
      /\ NothingLost /\ Answered
  BY DEF IInv
<1>2. PICK n \in 1 .. Wanted(buf[Server]) :
          /\ n <= Len(toServer)
          /\ buf' = [buf EXCEPT ![Server] = @ \o SubSeq(toServer, 1, n)]
          /\ toServer' = SubSeq(toServer, n + 1, Len(toServer))
  BY DEF ServerReceive, Read
<1>3. /\ pc[Server] = "read"
      /\ UNCHANGED <<mu, pc, calls, toClient, broken, closed, answer, sent, handled>>
  BY DEF ServerReceive, Read
<1>4. n \in 1 .. Len(toServer)
  BY <1>1, <1>2, Facts DEF Wanted
<1>5. /\ buf'[Server] \in Seq(Bytes) /\ toServer' \in Seq(Bytes)
      /\ Len(buf'[Server]) + Len(toServer') = Upward
      /\ \A m : Carries(buf[Server], toServer, m) =>
            Carries(buf'[Server], toServer', m)
  <2>1. buf'[Server] = buf[Server] \o SubSeq(toServer, 1, n)
    BY <1>1, <1>2, Facts DEF TypeOK
  <2>2. buf[Server] \in Seq(Bytes) /\ toServer \in Seq(Bytes)
    BY <1>1, Facts
  <2>3. /\ buf'[Server] \in Seq(Bytes) /\ toServer' \in Seq(Bytes)
        /\ Len(buf'[Server]) = Len(buf[Server]) + n
        /\ Len(toServer') = Len(toServer) - n
        /\ \A m : Carries(buf[Server], toServer, m) =>
              Carries(buf'[Server], toServer', m)
    BY <1>2, <1>4, <2>1, <2>2, ReadCarries
  <2>4. Len(buf[Server]) \in Nat /\ Len(toServer) \in Nat /\ n \in Nat
    BY <1>1, <1>4, Facts
  <2>5. Len(buf'[Server]) + Len(toServer') = Upward
    BY <2>3, <2>4 DEF Upward
  <2>. QED
    BY <2>3, <2>5
<1>6. /\ \A x \in Readers : x # Server => buf'[x] = buf[x]
      /\ \A d \in Callers : buf'[d] = buf[d] /\ Current(d)' = Current(d)
  BY <1>1, <1>2, <1>3, Facts DEF TypeOK, Current
<1>7. /\ Upward > 0 /\ Upward <= Whole
      /\ Len(handled) < Len(sent)
      /\ Carries(buf'[Server], toServer', sent[Len(handled) + 1])
      /\ toClient = <<>>
      /\ \A d \in Callers :
            buf[d] = <<>> /\ (pc[d] # "idle" => Current(d) \notin ToSet(handled))
  <2>1. Upward > 0
    BY <1>1, <1>4, Facts DEF Upward
  <2>2. /\ Len(handled) < Len(sent)
        /\ Carries(buf[Server], toServer, sent[Len(handled) + 1])
        /\ toClient = <<>>
        /\ \A d \in Callers :
              buf[d] = <<>> /\ (pc[d] # "idle" => Current(d) \notin ToSet(handled))
    BY <1>1, <2>1 DEF RequestUnderWay
  <2>3. Upward <= Whole
    BY <2>2 DEF Carries, Upward
  <2>. QED
    BY <1>5, <2>1, <2>2, <2>3
<1>8. TypeOK'
  <2>1. buf' \in [Readers -> Seq(Bytes)]
    BY <1>1, <1>2, <1>5, Facts DEF TypeOK
  <2>2. /\ \A x \in Readers : Len(buf'[x]) <= Prefix + Body
        /\ Len(toServer') <= Prefix + Body
    <3>1. Len(buf'[Server]) \in Nat /\ Len(toServer') \in Nat /\ Upward <= Prefix + Body
      BY <1>1, <1>5, <1>7, EmptyIffZero, Facts
    <3>2. Len(buf'[Server]) <= Prefix + Body /\ Len(toServer') <= Prefix + Body
      BY <1>5, <3>1, SizeAssumption
    <3>. QED
      BY <1>1, <1>6, <3>2 DEF TypeOK
  <2>. QED
    BY <1>1, <1>3, <1>5, <2>1, <2>2 DEF TypeOK
<1>9. Turns'
  BY <1>1, <1>3 DEF Turns
<1>10. Numbered'
  BY <1>1, <1>3, NumberedKept
<1>11. RequestUnderWay'
  BY <1>1, <1>3, <1>6, <1>7, Facts DEF RequestUnderWay
<1>12. ReplyUnderWay'
  BY <1>1, <1>3, <1>6, <1>7 DEF ReplyUnderWay, Downward
<1>13. NothingLost'
  <2>1. Upward' = Upward /\ \A d \in Callers : Downward(d)' = Downward(d)
    BY <1>3, <1>5, <1>6 DEF Upward, Downward
  <2>. QED
    BY <1>1, <1>3, <1>6, <2>1 DEF NothingLost, Quiet, Requesting, Replying
<1>14. Answered'
  BY <1>1, <1>3, <1>6 DEF Answered
<1>. QED
  BY <1>8, <1>9, <1>10, <1>11, <1>12, <1>13, <1>14 DEF IInv

\* A complete frame is that of the first request not yet handled.
LEMMA WholeRequest ==
    ASSUME IInv, Complete(buf[Server])
    PROVE  /\ Upward > 0 /\ Upward = Whole /\ toServer = <<>> /\ toClient = <<>>
           /\ Len(handled) < Len(sent)
           /\ Decoded(buf[Server]) = sent[Len(handled) + 1]
           /\ sent[Len(handled) + 1] \in Requests
           /\ Decoded(buf[Server]) # Error
           /\ \A d \in Callers : buf[d] = <<>>
<1>1. TypeOK /\ RequestUnderWay
  BY DEF IInv
<1>2. Len(buf[Server]) = Whole /\ Upward > 0
  BY <1>1, Facts DEF Complete, Whole, Upward
<1>3. /\ Len(handled) < Len(sent)
      /\ Carries(buf[Server], toServer, sent[Len(handled) + 1])
      /\ toClient = <<>> /\ \A d \in Callers : buf[d] = <<>>
  BY <1>1, <1>2 DEF RequestUnderWay
<1>4. toServer = <<>> /\ Upward = Whole
  BY <1>1, <1>2, <1>3, Facts DEF Carries, Upward
<1>5. sent[Len(handled) + 1] \in Requests /\ sent[Len(handled) + 1] \in Messages
  <2>1. Len(handled) + 1 \in DOMAIN sent
    BY <1>1, <1>3, Facts
  <2>. QED
    BY <1>1, <2>1, Facts DEF Messages
<1>6. Decoded(buf[Server]) = sent[Len(handled) + 1]
  BY <1>1, <1>3, <1>4, <1>5, DecodedFrame, Facts
<1>. QED
  BY <1>2, <1>3, <1>4, <1>5, <1>6, CallerAssumption

\* The server handles the request, and has its reply ready.
LEMMA HandleStep == ASSUME IInv, Handle PROVE IInv'
<1>1. TypeOK /\ Turns /\ Numbered /\ RequestUnderWay /\ ReplyUnderWay
      /\ NothingLost /\ Answered
  BY DEF IInv
<1> DEFINE m == sent[Len(handled) + 1]
<1>2. /\ Complete(buf[Server])
      /\ pc[Server] = "read" /\ pc' = [pc EXCEPT ![Server] = "prefix"]
      /\ handled' = Append(handled, Decoded(buf[Server]))
      /\ buf' = [buf EXCEPT ![Server] = <<>>]
      /\ UNCHANGED <<mu, calls, toServer, toClient, broken, closed, answer, sent>>
  BY DEF Handle, Goto, streams
<1>3. /\ Upward > 0 /\ Upward = Whole /\ toServer = <<>> /\ toClient = <<>>
      /\ Len(handled) < Len(sent)
      /\ Decoded(buf[Server]) = m /\ m \in Requests
      /\ \A d \in Callers : buf[d] = <<>>
  BY <1>2, WholeRequest
<1> HIDE DEF m
<1>4. /\ handled' \in Seq(Requests) /\ Len(handled') = Len(handled) + 1
      /\ DOMAIN handled' = 1 .. Len(handled) + 1
      /\ \A i \in 1 .. Len(handled) : handled'[i] = handled[i]
      /\ handled'[Len(handled) + 1] = m
  BY <1>1, <1>2, <1>3, AppendProperties, LenProperties DEF TypeOK
<1>5. /\ pc'[Server] = "prefix" /\ buf'[Server] = <<>>
      /\ \A d \in Callers :
            pc'[d] = pc[d] /\ buf'[d] = <<>> /\ Current(d)' = Current(d)
  BY <1>1, <1>2, <1>3, Facts DEF TypeOK, Current
<1>6. Len(<<>>) = 0 /\ <<>> \in Seq(Bytes) /\ Prefix + Body \in Nat
  BY EmptySeq, SizeAssumption
<1>7. TypeOK'
  <2>1. /\ pc' \in [Readers -> {"idle", "lock", "prefix", "body", "read", "gone"}]
        /\ buf' \in [Readers -> Seq(Bytes)]
    BY <1>1, <1>2, <1>6 DEF TypeOK
  <2>2. \A x \in Readers : Len(buf'[x]) <= Prefix + Body
    BY <1>5, <1>6 DEF Readers
  <2>. QED
    BY <1>1, <1>2, <1>4, <2>1, <2>2 DEF TypeOK
<1>8. Turns'
  BY <1>1, <1>2, <1>5 DEF Turns, Holding
<1>9. Numbered'
  <2>1. Asked' /\ NotAhead' /\ Ascending'
    BY <1>1, <1>2, <1>5, Facts DEF Numbered, Asked, NotAhead, Ascending
  <2>2. HandledFirst'
    <3>1. Len(handled') <= Len(sent)
      BY <1>1, <1>3, <1>4, Facts
    <3>2. ASSUME NEW i \in DOMAIN handled' PROVE handled'[i] = sent[i]
      <4>1. CASE i \in 1 .. Len(handled)
        BY <1>1, <1>4, <4>1, HandledIsSent
      <4>2. CASE i = Len(handled) + 1
        BY <1>4, <4>2 DEF m
      <4>. QED
        BY <1>1, <1>4, <4>1, <4>2, Facts
    <3>. QED
      BY <1>2, <3>1, <3>2 DEF HandledFirst
  <2>. QED
    BY <2>1, <2>2 DEF Numbered
<1>10. RequestUnderWay'
  BY <1>2, <1>3, <1>5, <1>6 DEF RequestUnderWay, Upward
<1>11. ReplyUnderWay'
  BY <1>2, <1>3, <1>5, <1>6 DEF ReplyUnderWay, Downward
<1>12. NothingLost'
  <2>1. ASSUME ~broken PROVE /\ mu # None
                             /\ \A d \in Callers : mu = d => Replying(d)'
    <3>1. mu # None
      BY <1>1, <1>3, <2>1 DEF NothingLost, Quiet
    <3>2. ASSUME NEW d \in Callers, mu = d PROVE Replying(d)'
      <4>1. Requesting(d)
        BY <1>1, <1>3, <2>1, <3>2 DEF NothingLost, Replying
      <4>2. pc[d] = "read"
        <5>1. pc[d] \in Holding
          BY <1>1, <3>2 DEF Turns
        <5>2. Written(pc[d]) = Prefix + Body
          BY <1>1, <1>3, <4>1, Facts DEF Requesting
        <5>. QED
          BY <5>1, <5>2, SizeAssumption DEF Holding, Written
      <4>3. Len(sent) = Len(handled') /\ Len(handled') > 0 /\ Last(handled') = Current(d)
        BY <1>1, <1>4, <4>1, Facts DEF Requesting, Last, m
      <4>4. Upward' = 0 /\ Downward(d)' = Written("prefix")
        BY <1>2, <1>3, <1>5, <1>6 DEF Upward, Downward, Written
      <4>. QED
        BY <1>2, <1>5, <4>2, <4>3, <4>4 DEF Replying
    <3>. QED
      BY <3>1, <3>2
  <2>. QED
    BY <1>2, <2>1 DEF NothingLost
<1>13. Answered'
  <2>1. \A r : r \in ToSet(handled) => r \in ToSet(handled')
    <3>1. TAKE r
    <3>2. HAVE r \in ToSet(handled)
    <3>3. PICK i \in 1 .. Len(handled) : r = handled[i]
      BY <1>1, <3>2, Facts
    <3>4. i \in DOMAIN handled' /\ handled'[i] = r
      BY <1>1, <1>4, <3>3, Facts
    <3>. QED
      BY <3>4 DEF ToSet
  <2>. QED
    BY <1>1, <1>2, <1>5, <2>1 DEF Answered
<1>. QED
  BY <1>7, <1>8, <1>9, <1>10, <1>11, <1>12, <1>13 DEF IInv

\* The server writes a piece of its reply to the caller that waits for it.
LEMMA ReplyStep == ASSUME IInv, Reply PROVE IInv'
<1>1. TypeOK /\ Turns /\ Numbered /\ RequestUnderWay /\ ReplyUnderWay
      /\ NothingLost /\ Answered
  BY DEF IInv
<1>2. PICK place \in {"prefix", "body"}, next \in {"body", "read"} :
          /\ pc[Server] = place /\ pc' = [pc EXCEPT ![Server] = next]
          /\ next = IF place = "prefix" THEN "body" ELSE "read"
  BY DEF Reply, Goto
<1>3. /\ ~broken
      /\ toClient' = toClient \o Piece(ReplyTo(Last(handled)), place)
      /\ UNCHANGED <<mu, calls, buf, toServer, broken, closed, answer, sent, handled>>
  BY <1>2 DEF Reply, Down
<1>4. PICK c \in Callers :
          /\ mu = c /\ Replying(c)
          /\ pc[c] = "read" /\ Last(handled) = Current(c) /\ Len(handled) > 0
          /\ Upward = 0 /\ Downward(c) = Written(place)
  <2>1. mu \in Callers
    BY <1>1, <1>2, <1>3 DEF TypeOK, NothingLost, Quiet
  <2>2. Replying(mu)
    BY <1>1, <1>2, <1>3, <2>1 DEF NothingLost, Requesting
  <2>. QED
    BY <1>2, <2>1, <2>2 DEF Replying
<1>5. /\ pc'[Server] = next
      /\ \A d \in Callers : pc'[d] = pc[d] /\ Current(d)' = Current(d)
  BY <1>1, <1>2, <1>3, Facts DEF TypeOK, Current
<1>6. ReplyTo(Current(c)) \in Messages
  BY <1>1, <1>4, CurrentType DEF Numbered, Asked
<1>7. /\ toClient' \in Seq(Bytes)
      /\ Len(buf[c]) + Len(toClient') = Written(next)
      /\ Carries(buf[c], toClient', ReplyTo(Current(c)))
  <2>1. /\ buf[c] \in Seq(Bytes) /\ toClient \in Seq(Bytes)
        /\ Len(buf[c]) + Len(toClient) = Written(place)
        /\ Len(buf[c]) + Len(toClient) > 0 =>
              Carries(buf[c], toClient, ReplyTo(Current(c)))
    BY <1>1, <1>4, Facts DEF ReplyUnderWay, Downward
  <2>2. toClient' = toClient \o Piece(ReplyTo(Current(c)), place)
    BY <1>3, <1>4
  <2>. QED
    BY <1>2, <1>6, <2>1, <2>2, WriteCarries
<1>8. TypeOK'
  <2>1. Len(toClient') <= Prefix + Body
    <3>1. Len(toClient') \in Nat /\ Len(buf[c]) \in Nat
      BY <1>1, <1>7, EmptyIffZero, Facts
    <3>2. Written(next) <= Prefix + Body
      BY <1>1, Facts DEF Written
    <3>3. Written(next) \in Nat
      BY <1>1, Facts DEF Written
    <3>. QED
      BY <1>7, <3>1, <3>2, <3>3, SizeAssumption
  <2>2. pc' \in [Readers -> {"idle", "lock", "prefix", "body", "read", "gone"}]
    BY <1>1, <1>2 DEF TypeOK
  <2>. QED
    BY <1>1, <1>3, <1>7, <2>1, <2>2 DEF TypeOK
<1>9. Turns'
  BY <1>1, <1>2, <1>3, <1>5 DEF Turns, Holding
<1>10. Numbered'
  BY <1>1, <1>3, <1>5, NumberedKept
<1>11. RequestUnderWay'
  BY <1>3, <1>4 DEF RequestUnderWay, Upward
<1>12. ReplyUnderWay'
  <2>1. \A d \in Callers : d # c => pc[d] # "read"
    BY <1>1, <1>4 DEF Turns, Holding
  <2>. QED
    BY <1>1, <1>3, <1>4, <1>5, <1>7, <2>1 DEF ReplyUnderWay
<1>13. NothingLost'
  <2>1. Replying(c)'
    BY <1>3, <1>4, <1>5, <1>7 DEF Replying, Upward, Downward
  <2>. QED
    BY <1>1, <1>3, <1>4, <2>1, Facts DEF NothingLost
<1>14. Answered'
  BY <1>1, <1>3, <1>5 DEF Answered
<1>. QED
  BY <1>8, <1>9, <1>10, <1>11, <1>12, <1>13, <1>14 DEF IInv

\* The server leaves its loop only when the connection has failed.
LEMMA LeaveStep == ASSUME IInv, Leave PROVE IInv'
<1>1. TypeOK /\ Turns /\ Numbered /\ RequestUnderWay /\ ReplyUnderWay
      /\ NothingLost /\ Answered
  BY DEF IInv
<1>2. broken
  BY <1>1, WholeRequest DEF Leave, Failing, Down, Turns
<1>3. /\ pc' = [pc EXCEPT ![Server] = "gone"] /\ closed' = TRUE
      /\ UNCHANGED <<mu, calls, buf, toServer, toClient, broken, answer, sent, handled>>
  BY DEF Leave
<1>4. /\ pc'[Server] = "gone"
      /\ \A d \in Callers : pc'[d] = pc[d] /\ Current(d)' = Current(d)
  BY <1>1, <1>3, Facts DEF TypeOK, Current
<1>5. TypeOK'
  BY <1>1, <1>3 DEF TypeOK
<1>6. Turns'
  BY <1>1, <1>2, <1>3, <1>4 DEF Turns
<1>7. Numbered'
  BY <1>1, <1>3, <1>4, NumberedKept
<1>8. RequestUnderWay'
  BY <1>1, <1>3, <1>4 DEF RequestUnderWay, Upward
<1>9. ReplyUnderWay'
  BY <1>1, <1>3, <1>4 DEF ReplyUnderWay, Downward
<1>10. NothingLost'
  BY <1>2, <1>3 DEF NothingLost
<1>11. Answered'
  BY <1>1, <1>3, <1>4 DEF Answered
<1>. QED
  BY <1>5, <1>6, <1>7, <1>8, <1>9, <1>10, <1>11 DEF IInv

\* What a break leaves in flight still belongs to the same frames.
LEMMA BreakStep == ASSUME IInv, Break PROVE IInv'
<1>1. TypeOK /\ Turns /\ Numbered /\ RequestUnderWay /\ ReplyUnderWay
      /\ NothingLost /\ Answered
  BY DEF IInv
<1>2. PICK n \in 0 .. Len(toServer) : toServer' = SubSeq(toServer, 1, n)
  BY DEF Break
<1>3. PICK k \in 0 .. Len(toClient) : toClient' = SubSeq(toClient, 1, k)
  BY DEF Break
<1>4. broken' /\ UNCHANGED <<mu, pc, calls, buf, closed, answer, sent, handled>>
  BY DEF Break
<1>5. /\ toServer' \in Seq(Bytes) /\ Len(toServer') = n /\ n <= Len(toServer)
      /\ \A x \in Readers : \A m : Carries(buf[x], toServer, m) =>
            Carries(buf[x], toServer', m)
  BY <1>1, <1>2, CutCarries, Facts
<1>6. /\ toClient' \in Seq(Bytes) /\ Len(toClient') = k /\ k <= Len(toClient)
      /\ \A x \in Readers : \A m : Carries(buf[x], toClient, m) =>
            Carries(buf[x], toClient', m)
  BY <1>1, <1>3, CutCarries, Facts
<1>7. /\ Upward' > 0 => Upward > 0
      /\ \A d \in Callers : Downward(d)' > 0 => Downward(d) > 0
      /\ toClient' # <<>> => toClient # <<>>
  <2>1. \A x \in Readers : Len(buf[x]) \in Nat
    BY <1>1, Facts
  <2>2. toClient' # <<>> => toClient # <<>>
    BY <1>1, <1>6, EmptyIffZero, Facts
  <2>. QED
    <3>1. Len(toServer) \in Nat /\ Len(toClient) \in Nat
          /\ Server \in Readers /\ \A d \in Callers : d \in Readers
      BY <1>1, Facts
    <3>2. Len(toServer') \in Nat /\ Len(toClient') \in Nat
      BY <1>5, <1>6
    <3>3. Upward' > 0 => Upward > 0
      BY <1>4, <1>5, <2>1, <3>1, <3>2 DEF Upward
    <3>4. \A d \in Callers : Downward(d)' > 0 => Downward(d) > 0
      BY <1>4, <1>6, <2>1, <3>1, <3>2 DEF Downward
    <3>. QED
      BY <2>2, <3>3, <3>4
<1>8. \A d \in Callers : Current(d)' = Current(d)
  BY <1>4 DEF Current
<1>9. TypeOK'
  <2>1. Len(toServer') <= Prefix + Body /\ Len(toClient') <= Prefix + Body
    BY <1>1, <1>5, <1>6, SizeAssumption, Facts DEF TypeOK
  <2>. QED
    BY <1>1, <1>4, <1>5, <1>6, <2>1 DEF TypeOK
<1>10. Turns'
  BY <1>1, <1>4 DEF Turns
<1>11. Numbered'
  BY <1>1, <1>4, NumberedKept
<1>12. RequestUnderWay'
  BY <1>1, <1>4, <1>5, <1>7, <1>8, Facts DEF RequestUnderWay
<1>13. ReplyUnderWay'
  BY <1>1, <1>4, <1>6, <1>7, <1>8, Facts DEF ReplyUnderWay
<1>14. NothingLost'
  BY <1>4 DEF NothingLost
<1>15. Answered'
  BY <1>1, <1>4, <1>8 DEF Answered
<1>. QED
  BY <1>9, <1>10, <1>11, <1>12, <1>13, <1>14, <1>15 DEF IInv

\* Nothing happens.
LEMMA StutterStep == ASSUME IInv, UNCHANGED vars PROVE IInv'
<1>1. TypeOK' /\ Turns' /\ Answered'
  BY DEF IInv, vars, streams, TypeOK, Turns, Answered, Current
<1>2. Numbered'
  BY DEF IInv, vars, Numbered, Asked, NotAhead, Ascending, HandledFirst
<1>3. RequestUnderWay' /\ ReplyUnderWay'
  BY DEF IInv, vars, streams, RequestUnderWay, ReplyUnderWay, Upward, Downward,
     Current
<1>4. NothingLost'
  BY DEF IInv, vars, streams, NothingLost, Quiet, Requesting, Replying, Upward,
     Downward, Current
<1>. QED
  BY <1>1, <1>2, <1>3, <1>4 DEF IInv

LEMMA InvStep == IInv /\ [Next]_vars => IInv'
BY CallStep, LockStep, WriteStep, ReceiveStep, FinishStep, FailStep,
   ServerReceiveStep, HandleStep, ReplyStep, LeaveStep, BreakStep, StutterStep
   DEF Next, Serve, Request

-----------------------------------------------------------------------------
(* What follows from the invariant. *)

\* A request's record, and the reply to it, which is no error.
LEMMA RequestFacts ==
    ASSUME NEW r \in Requests
    PROVE  /\ r = [from |-> r.from, call |-> r.call, reply |-> FALSE]
           /\ r.from \in Callers /\ r.call \in Nat \ {0}
           /\ ReplyTo(r) \in Messages /\ ReplyTo(r) \notin {None, Error}
<1>1. /\ r = [from |-> r.from, call |-> r.call, reply |-> FALSE]
      /\ r.from \in Callers /\ r.call \in 1 .. MaxCalls
  BY DEF Requests
<1>2. ReplyTo(r) \in [from : Callers, call : 1 .. MaxCalls, reply : {TRUE}]
  BY <1>1 DEF ReplyTo
<1>3. ReplyTo(r) \in Messages
  BY <1>2, Zenon DEF Messages
<1>. QED
  BY <1>1, <1>3, CallerAssumption

\* What was handled is the beginning of what was sent, each request once.
LEMMA InOrderInv == IInv => InOrder
<1> SUFFICES ASSUME IInv PROVE InOrder
  OBVIOUS
<1>1. TypeOK /\ Numbered /\ Answered
  BY DEF IInv
<1>2. Len(handled) \in Nat /\ Len(sent) \in Nat /\ Len(handled) <= Len(sent)
  BY <1>1, Facts DEF Numbered, HandledFirst
<1>3. IsPrefix(handled, sent)
  <2> DEFINE k == Len(handled)
  <2>1. \A i \in 1 .. k : handled[i] \in Requests /\ sent[i] = handled[i]
    BY <1>1, HandledIsSent, Facts
  <2>2. /\ SubSeq(handled, 1, k) \in Seq(Requests) /\ Len(SubSeq(handled, 1, k)) = k
        /\ \A i \in 1 .. k : SubSeq(handled, 1, k)[i] = handled[i]
    BY <1>2, <2>1, SubSeqProperties
  <2>3. /\ SubSeq(sent, 1, k) \in Seq(Requests) /\ Len(SubSeq(sent, 1, k)) = k
        /\ \A i \in 1 .. k : SubSeq(sent, 1, k)[i] = sent[i]
    BY <1>2, <2>1, SubSeqProperties
  <2>4. SubSeq(handled, 1, k) = SubSeq(sent, 1, k)
    BY <2>1, <2>2, <2>3, SeqEqual
  <2>. QED
    BY <1>2, <2>4 DEF IsPrefix
<1>4. IsInjective(handled)
  <2>1. SUFFICES ASSUME NEW i \in 1 .. Len(handled), NEW j \in 1 .. Len(handled),
                        handled[i] = handled[j]
                 PROVE  i = j
    BY <1>1, Facts DEF IsInjective
  <2>2. /\ sent[i] = sent[j] /\ i \in DOMAIN sent /\ j \in DOMAIN sent
        /\ sent[i].call \in Nat
    BY <1>1, <2>1, HandledIsSent, Facts
  <2>3. ~(i < j) /\ ~(j < i)
    BY <1>1, <2>2 DEF Numbered, Ascending
  <2>. QED
    BY <1>2, <2>1, <2>3
<1>5. ASSUME NEW c \in Callers, answer[c] \notin {None, Error}
      PROVE  \E i \in DOMAIN handled : handled[i] = Current(c)
  BY <1>1, <1>5, Facts DEF Answered
<1>. QED
  BY <1>3, <1>4, <1>5 DEF InOrder

\* An error says that the connection failed.
LEMMA FramesHoldInv == IInv => FramesHold
<1> SUFFICES ASSUME IInv PROVE FramesHold
  OBVIOUS
<1>1. TypeOK /\ Turns /\ Answered
  BY DEF IInv
<1>2. ASSUME NEW c \in Callers, answer[c] = Error PROVE broken
  <2>1. SUFFICES ASSUME answer[c] = ReplyTo(Current(c)),
                        Current(c) \in ToSet(handled)
                 PROVE  FALSE
    BY <1>1, <1>2, CallerAssumption DEF Answered
  <2>2. Current(c) \in Requests
    BY <1>1, <2>1, Facts
  <2>. QED
    BY <1>2, <2>1, <2>2, RequestFacts
<1>. QED
  BY <1>1, <1>2 DEF FramesHold, Turns

-----------------------------------------------------------------------------
(* The ends never wait for each other. *)

\* Nothing is lost, so what the one waits for is on its way or still to come
\* from the other.
LEMMA NeverBothWaitInv == IInv => NeverBothWait
<1>1. SUFFICES ASSUME IInv, NEW c \in Callers, mu = c, ~Down
               PROVE  CanMove(c, toClient) \/ CanMove(Server, toServer)
  BY DEF NeverBothWait
<1>2. TypeOK /\ Turns /\ NothingLost /\ ~broken
  BY <1>1 DEF IInv, Down
<1>3. pc[c] \in Holding /\ (Requesting(c) \/ Replying(c))
  BY <1>1, <1>2 DEF Turns, NothingLost
<1>4. /\ Whole \in Nat \ {0} /\ Whole = Prefix + Body
      /\ Prefix \in Nat \ {0} /\ c \in Readers /\ Server \in Readers
  BY <1>2, Facts
<1>6. CASE pc[c] \in {"prefix", "body"}
  BY <1>6 DEF CanMove
<1>7. CASE pc[c] = "read" /\ Requesting(c)
  <2>1. pc[Server] = "read" /\ Len(buf[Server]) + Len(toServer) = Whole
    BY <1>7 DEF Requesting, Written, Upward
  <2>2. Len(toServer) = 0 <=> toServer = <<>>
    BY <1>2, Facts
  <2>3. Len(buf[Server]) \in Nat
    BY <1>2, <1>4, Facts
  <2>. QED
    BY <1>4, <2>1, <2>2, <2>3 DEF CanMove, Complete
<1>8. CASE pc[c] = "read" /\ Replying(c)
  <2>1. Len(buf[c]) + Len(toClient) = Written(pc[Server])
    BY <1>8 DEF Replying, Downward
  <2>2. CASE pc[Server] \in {"prefix", "body"}
    BY <2>2 DEF CanMove
  <2>3. CASE pc[Server] \notin {"prefix", "body"}
    <3>1. Len(buf[c]) + Len(toClient) = Whole
      BY <2>1, <2>3 DEF Written
    <3>2. (Len(toClient) = 0 <=> toClient = <<>>) /\ Len(buf[c]) \in Nat
      BY <1>2, <1>4, Facts
    <3>. QED
      BY <1>4, <1>8, <3>1, <3>2 DEF CanMove, Complete
  <2>. QED
    BY <2>2, <2>3
<1>. QED
  BY <1>3, <1>6, <1>7, <1>8 DEF Holding

-----------------------------------------------------------------------------
(* The theorems. *)

\* The invariant, for any number of callers and requests and any lengths.
THEOREM Inductive == Spec => []IInv
BY InitInv, InvStep, PTL DEF Spec

\* Every reachable state is well typed; no more than one frame is in flight
\* each way (request, serveControl).
THEOREM TypeCorrect == Spec => []TypeOK
<1>1. IInv => TypeOK
  BY DEF IInv
<1>. QED
  BY <1>1, Inductive, PTL

\* A request that returns a message returns the reply to itself (request).
THEOREM RepliesAreOwn == Spec => []OwnReply
<1>1. IInv => OwnReply
  BY DEF IInv, Answered, OwnReply
<1>. QED
  BY <1>1, Inductive, PTL

\* Requests are handled once, in the order in which they were written
\* (serveControl).
THEOREM HandledOnceInOrder == Spec => []InOrder
BY InOrderInv, Inductive, PTL

\* No frame is mistaken, however the bytes arrive (readFrame, writeFrame).
THEOREM NoFrameMistaken == Spec => []FramesHold
BY FramesHoldInv, Inductive, PTL

\* No caller and the server wait for each other, with any number of callers
\* behind the one that has the mutex (request, serveControl).
THEOREM EndsNeverBothWait == Spec => []NeverBothWait
BY NeverBothWaitInv, Inductive, PTL

-----------------------------------------------------------------------------
(* The channel for remote calls. *)

LEMMA RPCInit == Init => RPC!Init
<1> SUFFICES ASSUME Init PROVE RPC!Init
  OBVIOUS
<1>1. ToSet(handled) = {}
  BY EmptySeq DEF Init, ToSet
<1>2. {c \in Callers : pc[c] # "idle"} = {}
  BY CallerAssumption DEF Init, Readers
<1>. QED
  BY <1>1, <1>2 DEF Init, RPC!Init

\* A caller begins to wait, or ceases to, and nobody else does.
LEMMA WaitingFacts ==
    ASSUME TypeOK, TypeOK', NEW c \in Callers,
           \A d \in Callers : d # c => pc'[d] = pc[d]
    PROVE  /\ pc[c] = "idle" /\ pc'[c] # "idle" =>
                 {d \in Callers : pc[d] # "idle"}' =
                     {d \in Callers : pc[d] # "idle"} \cup {c}
           /\ pc'[c] = "idle" =>
                 {d \in Callers : pc[d] # "idle"}' =
                     {d \in Callers : pc[d] # "idle"} \ {c}
           /\ (pc[c] = "idle" <=> pc'[c] = "idle") =>
                 {d \in Callers : pc[d] # "idle"}' =
                     {d \in Callers : pc[d] # "idle"}
OBVIOUS

\* Call begins a call, Finish and Fail end one, the bytes in between are not
\* seen.
LEMMA RPCCallerStep ==
    ASSUME IInv, IInv', NEW c \in Callers, Call(c) \/ Request(c)
    PROVE  [RPC!Next]_RPC!vars
<1>1. TypeOK /\ TypeOK'
  BY DEF IInv
<1>2. c \in Readers /\ \A d \in Callers : d \in Readers
  BY DEF Readers
<1> DEFINE waiting == {d \in Callers : pc[d] # "idle"}
<1>3. CASE Call(c)
  <2>1. /\ pc[c] = "idle" /\ pc'[c] = "lock"
        /\ \A d \in Callers : d # c => pc'[d] = pc[d]
        /\ calls' = [calls EXCEPT ![c] = @ + 1]
        /\ answer' = [answer EXCEPT ![c] = None]
        /\ UNCHANGED <<handled, broken>>
    BY <1>1, <1>2, <1>3 DEF Call, Goto, streams, TypeOK
  <2>2. waiting' = waiting \cup {c} /\ c \notin waiting
    BY <1>1, <2>1, WaitingFacts
  <2>3. RPC!Ask(c)
    BY <2>1, <2>2 DEF RPC!Ask
  <2>. QED
    BY <2>3 DEF RPC!Next
<1>4. CASE Lock(c) \/ Write(c) \/ Receive(c)
  <2>1. /\ pc[c] # "idle" /\ pc'[c] # "idle"
        /\ \A d \in Callers : d # c => pc'[d] = pc[d]
        /\ UNCHANGED <<calls, handled, answer, broken>>
    BY <1>1, <1>2, <1>4 DEF Lock, Write, Receive, Read, Goto, streams, TypeOK
  <2>2. waiting' = waiting
    BY <1>1, <2>1, WaitingFacts
  <2>. QED
    BY <2>1, <2>2 DEF RPC!vars
<1>5. ASSUME Finish(c) \/ Fail(c)
      PROVE  /\ c \in waiting /\ waiting' = waiting \ {c}
             /\ UNCHANGED <<calls, handled, broken>>
  <2>1. /\ pc[c] # "idle" /\ pc'[c] = "idle"
        /\ \A d \in Callers : d # c => pc'[d] = pc[d]
        /\ UNCHANGED <<calls, handled, broken>>
    BY <1>1, <1>2, <1>5 DEF Finish, Fail, Failing, Return, streams, TypeOK
  <2>. QED
    BY <1>1, <2>1, WaitingFacts
<1>6. CASE Finish(c)
  <2>1. answer' = [answer EXCEPT ![c] = Decoded(buf[c])]
    BY <1>6 DEF Finish, Return
  <2>2. Decoded(buf[c]) = ReplyTo(Current(c)) /\ Current(c) \in ToSet(handled)
    BY <1>6, WholeReply DEF Finish
  <2>3. Current(c) = RPC!Asked(c) /\ ReplyTo(Current(c)) = RPC!Message(c, calls[c], TRUE)
    BY DEF Current, ReplyTo, RPC!Asked, RPC!Message
  <2>4. RPC!Answer(c)
    BY <1>5, <1>6, <2>1, <2>2, <2>3 DEF RPC!Answer, RPC!Return
  <2>. QED
    BY <2>4 DEF RPC!Next
<1>7. CASE Fail(c)
  <2>1. broken /\ answer' = [answer EXCEPT ![c] = Error]
    BY <1>7 DEF Fail, Failing, Return, Down, IInv, Turns
  <2>2. RPC!Fail(c)
    BY <1>5, <1>7, <2>1 DEF RPC!Fail, RPC!Return
  <2>. QED
    BY <2>2 DEF RPC!Next
<1>. QED
  BY <1>3, <1>4, <1>6, <1>7 DEF Request

\* Handle handles a call that waits, or one whose caller was given an error.
LEMMA RPCHandle == ASSUME IInv, IInv', Handle PROVE RPC!Next
<1>1. TypeOK /\ TypeOK' /\ Turns /\ Numbered /\ RequestUnderWay /\ NothingLost
  BY DEF IInv
<1> DEFINE m == sent[Len(handled) + 1]
<1> DEFINE waiting == {d \in Callers : pc[d] # "idle"}
<1>2. /\ Complete(buf[Server]) /\ pc' = [pc EXCEPT ![Server] = "prefix"]
      /\ handled' = Append(handled, Decoded(buf[Server]))
      /\ UNCHANGED <<calls, answer, broken>>
  BY DEF Handle, Goto, streams
<1>3. /\ Upward > 0 /\ Len(handled) < Len(sent)
      /\ Decoded(buf[Server]) = m /\ m \in Requests
  BY <1>2, WholeRequest
<1>4. /\ Len(handled) + 1 \in DOMAIN sent /\ Len(handled) \in Nat
      /\ DOMAIN handled = 1 .. Len(handled)
  BY <1>1, <1>3, Facts
<1>5. ToSet(handled') = ToSet(handled) \cup {m}
  <2>1. handled' = Append(handled, m)
    BY <1>2, <1>3
  <2> HIDE DEF m
  <2>2. /\ DOMAIN handled' = 1 .. Len(handled) + 1
        /\ \A i \in 1 .. Len(handled) : handled'[i] = handled[i]
        /\ handled'[Len(handled) + 1] = m
    BY <1>1, <1>3, <2>1, AppendProperties, LenProperties DEF TypeOK
  <2>. QED
    BY <1>4, <2>2 DEF ToSet
<1>6. m = RPC!Message(m.from, m.call, FALSE) /\ m.from \in Callers /\ m.call \in Nat \ {0}
  BY <1>3, RequestFacts DEF RPC!Message
<1>7. m.call \in 1 .. calls[m.from]
  <2>1. m.from \in Callers /\ calls[m.from] \in Nat
    BY <1>1, <1>6, Facts
  <2>. QED
    BY <1>1, <1>4, <1>6, <2>1 DEF Numbered, NotAhead
<1>8. waiting' = waiting
  <2>1. \A d \in Callers : d \in Readers /\ d # Server
    BY <1>1, Facts
  <2>. QED
    BY <1>1, <1>2, <2>1 DEF TypeOK
<1>9. broken \/ (m.from \in waiting /\ m.call = calls[m.from])
  <2>1. SUFFICES ASSUME ~broken PROVE m.from \in waiting /\ m.call = calls[m.from]
    OBVIOUS
  <2>2. mu \in Callers /\ Requesting(mu)
    BY <1>1, <1>3, <2>1 DEF NothingLost, Quiet, Replying, TypeOK
  <2>3. m = Current(mu)
    BY <2>2 DEF Requesting, Last
  <2>. QED
    BY <1>1, <2>2, <2>3 DEF Current, Turns, Holding
<1>10. \A r \in ToSet(handled) : r.from = m.from => r.call < m.call
  <2>1. ASSUME NEW i \in 1 .. Len(handled), handled[i].from = m.from
        PROVE  handled[i].call < m.call
    <3>1. handled[i] = sent[i] /\ i \in DOMAIN sent /\ i < Len(handled) + 1
      BY <1>1, <1>4, HandledIsSent
    <3>. QED
      BY <1>1, <1>4, <2>1, <3>1 DEF Numbered, Ascending
  <2>. QED
    BY <1>1, <2>1, Facts
<1>11. \A d \in waiting : RPC!Asked(d) \notin ToSet(handled)
  BY <1>1, <1>3 DEF RequestUnderWay, Current, RPC!Asked, RPC!Message
<1>12. RPC!Handle(m.from, m.call)
  BY <1>2, <1>5, <1>6, <1>8, <1>9, <1>10, <1>11 DEF RPC!Handle
<1>. QED
  BY <1>6, <1>7, <1>12 DEF RPC!Next

\* Of the server's loop only Handle is seen, and a connection that breaks.
LEMMA RPCServerStep ==
    ASSUME IInv, IInv', Serve \/ Break
    PROVE  [RPC!Next]_RPC!vars
<1>1. TypeOK /\ Server \notin Callers
  BY CallerAssumption DEF IInv
<1> DEFINE waiting == {d \in Callers : pc[d] # "idle"}
<1>2. CASE ServerReceive \/ Reply \/ Leave
  <2>1. /\ \A d \in Callers : pc'[d] = pc[d]
        /\ UNCHANGED <<calls, handled, answer, broken>>
    <3>1. CASE ServerReceive
      BY <3>1 DEF ServerReceive
    <3>2. CASE Reply
      <4>1. \E place \in {"body", "read"} : pc' = [pc EXCEPT ![Server] = place]
        BY <3>2 DEF Reply, Goto
      <4>2. UNCHANGED <<calls, handled, answer, broken>>
        BY <3>2 DEF Reply
      <4>. QED
        BY <1>1, <4>1, <4>2 DEF TypeOK
    <3>3. CASE Leave
      BY <1>1, <3>3 DEF Leave, TypeOK
    <3>. QED
      BY <1>2, <3>1, <3>2, <3>3
  <2>2. waiting' = waiting
    BY <2>1
  <2>. QED
    BY <2>1, <2>2 DEF RPC!vars
<1>3. CASE Handle
  BY <1>3, RPCHandle
<1>4. CASE Break
  <2>1. broken' = TRUE /\ UNCHANGED <<pc, calls, handled, answer>>
    BY <1>4 DEF Break
  <2>2. RPC!Break
    BY <2>1 DEF RPC!Break
  <2>. QED
    BY <2>2 DEF RPC!Next
<1>. QED
  BY <1>2, <1>3, <1>4 DEF Serve

\* Bytes, frames, the mutex and the loop together are a channel for remote
\* calls: every step is one of it or is not seen (request, serveControl).
THEOREM ImplementsRemoteCall == Spec => RPCSpec
<1>1. ASSUME IInv, IInv', [Next]_vars PROVE [RPC!Next]_RPC!vars
  <2>1. CASE Serve \/ Break
    BY <1>1, <2>1, RPCServerStep
  <2>2. ASSUME NEW c \in Callers, Call(c) \/ Request(c)
        PROVE  [RPC!Next]_RPC!vars
    BY <1>1, <2>2, RPCCallerStep
  <2>3. CASE UNCHANGED vars
    BY <2>3 DEF vars, streams, RPC!vars
  <2>. QED
    BY <1>1, <2>1, <2>2, <2>3 DEF Next
<1>. QED
  BY RPCInit, <1>1, Inductive, PTL DEF Spec, RPCSpec, RPC!Spec
=============================================================================
