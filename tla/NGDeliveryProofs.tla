-------------------------- MODULE NGDeliveryProofs --------------------------
(***************************************************************************)
(* What arrives on a connection, for all values of its constants: input,   *)
(* output and the answer are under way as chunks, in the order they were   *)
(* sent (InputInv, OutputInv), and so nothing is lost, repeated or out of  *)
(* order, and the client ends with the status it was sent.                 *)
(***************************************************************************)
EXTENDS NGConnectionProofs

-----------------------------------------------------------------------------
(* What is on its way to the server: the rest of a chunk, whole chunks,    *)
(* and of the last of them as much as the client has still to send.        *)

Inputs == {CHUNKTYPE_STDIN, CHUNKTYPE_STDIN_EOF}

InputsOnly(cs) == \A i \in 1 .. Len(cs) : cs[i].type \in Inputs

(* The input ends once, and nothing comes after that.                      *)
EndsOnce(cs, ended) ==
  \A i \in 1 .. Len(cs) : cs[i].type = CHUNKTYPE_STDIN_EOF => i = Len(cs) /\ ended

RequestThenInput(cs) ==
  \E k \in 1 .. Len(cs) : \A i \in 1 .. Len(cs) :
    /\ i < k => cs[i].type \in RequestTypes
    /\ i = k => cs[i].type = CHUNKTYPE_COMMAND
    /\ i > k => cs[i].type \in Inputs

ToServer(cs, rem, lost) ==
  /\ toServer \o lost = rem \o Stream(cs)
  /\ Len(rem) = remaining
  /\ ~clientClosed => lost = unsent
  /\ got \o (rem \o Payload(CHUNKTYPE_STDIN, cs)) = Take(read, Stdin)
  /\ EndsOnce(cs, eof)
  /\ spc = "request" => RequestThenInput(cs)
  /\ spc = "nail" => InputsOnly(cs)

InputArrives == \/ toServer = <<>> /\ clientClosed
                \/ \E cs \in Seq(WireChunk), rem \in Bytes, lost \in Bytes :
                     ToServer(cs, rem, lost)

InputInOrder == /\ IsPrefix(got, Stdin)
                /\ inEof /\ ~clientClosed => got = Stdin
                /\ eof => read = Len(Stdin)

InputInv == /\ InputInOrder
            /\ spc \in {"request", "nail"} /\ ~inEof => InputArrives

(* The types of chunks are different.                                      *)
LEMMA TypesDiffer ==
  /\ CHUNKTYPE_STDIN # CHUNKTYPE_STDIN_EOF
  /\ CHUNKTYPE_COMMAND # CHUNKTYPE_STDIN /\ CHUNKTYPE_STDIN \notin RequestTypes
  /\ CHUNKTYPE_COMMAND # CHUNKTYPE_STDIN_EOF /\ CHUNKTYPE_STDIN_EOF \notin RequestTypes
  /\ CHUNKTYPE_COMMAND \notin RequestTypes
  BY DEF CHUNKTYPE_STDIN, CHUNKTYPE_STDIN_EOF, CHUNKTYPE_COMMAND, RequestTypes,
         CHUNKTYPE_ARGUMENT, CHUNKTYPE_ENVIRONMENT, CHUNKTYPE_WORKINGDIRECTORY

(* The order of the chunks when the first is read, and when one is sent.   *)
LEMMA OrderTail ==
  ASSUME NEW cs \in Seq(WireChunk), cs # <<>>, NEW ended
  PROVE  /\ EndsOnce(cs, ended) => EndsOnce(Tail(cs), ended)
         /\ EndsOnce(cs, ended) /\ Head(cs).type = CHUNKTYPE_STDIN_EOF
              => Tail(cs) = <<>> /\ ended
         /\ InputsOnly(cs) => Head(cs).type \in Inputs /\ InputsOnly(Tail(cs))
         /\ RequestThenInput(cs) =>
              \/ Head(cs).type = CHUNKTYPE_COMMAND /\ InputsOnly(Tail(cs))
              \/ Head(cs).type \in RequestTypes /\ RequestThenInput(Tail(cs))
<1> DEFINE rest == Tail(cs)
<1>1. /\ rest \in Seq(WireChunk) /\ Len(rest) = Len(cs) - 1 /\ Len(cs) \in Nat \ {0}
      /\ cs[1] = Head(cs)
      /\ \A i \in 1 .. Len(rest) : rest[i] = cs[i + 1]
  BY StreamCons
<1> HIDE DEF rest
<1>2. /\ 1 \in 1 .. Len(cs) /\ Len(rest) \in Nat
      /\ \A i \in 1 .. Len(rest) : i + 1 \in 1 .. Len(cs) /\ rest[i] = cs[i + 1]
  BY <1>1
<1>3. EndsOnce(cs, ended) => EndsOnce(rest, ended)
  <2> SUFFICES ASSUME EndsOnce(cs, ended), NEW i \in 1 .. Len(rest),
                      rest[i].type = CHUNKTYPE_STDIN_EOF
               PROVE  i = Len(rest) /\ ended
    BY DEF EndsOnce
  <2>1. i + 1 = Len(cs) /\ ended
    BY <1>2 DEF EndsOnce
  <2> QED
    BY <1>1, <2>1
<1>4. EndsOnce(cs, ended) /\ Head(cs).type = CHUNKTYPE_STDIN_EOF => rest = <<>> /\ ended
  <2> SUFFICES ASSUME EndsOnce(cs, ended), cs[1].type = CHUNKTYPE_STDIN_EOF
               PROVE  rest = <<>> /\ ended
    BY <1>1
  <2>1. 1 = Len(cs) /\ ended
    BY <1>2 DEF EndsOnce
  <2>2. Len(rest) = 0
    BY <1>1, <2>1
  <2> QED
    BY <1>1, <2>1, <2>2, EmptySeq
<1>5. InputsOnly(cs) => Head(cs).type \in Inputs /\ InputsOnly(rest)
  BY <1>1, <1>2 DEF InputsOnly
<1>6. ASSUME RequestThenInput(cs)
      PROVE  \/ Head(cs).type = CHUNKTYPE_COMMAND /\ InputsOnly(rest)
             \/ Head(cs).type \in RequestTypes /\ RequestThenInput(rest)
  <2>1. PICK k \in 1 .. Len(cs) : \A i \in 1 .. Len(cs) :
          /\ i < k => cs[i].type \in RequestTypes
          /\ i = k => cs[i].type = CHUNKTYPE_COMMAND
          /\ i > k => cs[i].type \in Inputs
    BY <1>6 DEF RequestThenInput
  <2>2. CASE k = 1
    <3>1. Head(cs).type = CHUNKTYPE_COMMAND
      BY <1>1, <1>2, <2>1, <2>2
    <3>2. ASSUME NEW i \in 1 .. Len(rest) PROVE rest[i].type \in Inputs
      <4>1. i + 1 \in 1 .. Len(cs) /\ i + 1 > k /\ rest[i] = cs[i + 1]
        BY <1>2, <2>2
      <4> QED
        BY <2>1, <4>1
    <3> QED
      BY <3>1, <3>2 DEF InputsOnly
  <2>3. CASE k # 1
    <3>1. Head(cs).type \in RequestTypes
      BY <1>1, <1>2, <2>1, <2>3
    <3>2. k - 1 \in 1 .. Len(rest)
      BY <1>1, <2>3
    <3>3. ASSUME NEW i \in 1 .. Len(rest)
          PROVE  /\ i < k - 1 => rest[i].type \in RequestTypes
                 /\ i = k - 1 => rest[i].type = CHUNKTYPE_COMMAND
                 /\ i > k - 1 => rest[i].type \in Inputs
      <4>1. /\ i + 1 \in 1 .. Len(cs) /\ rest[i] = cs[i + 1]
            /\ i < k - 1 => i + 1 < k
            /\ i = k - 1 => i + 1 = k
            /\ i > k - 1 => i + 1 > k
        BY <1>2
      <4> QED
        BY <2>1, <4>1
    <3> QED
      BY <3>1, <3>2, <3>3 DEF RequestThenInput
  <2> QED
    BY <2>2, <2>3
<1> QED
  BY <1>3, <1>4, <1>5, <1>6 DEF rest

(* A chunk of input at the end of the others keeps them in order.          *)
LEMMA OrderAppend ==
  ASSUME NEW cs \in Seq(WireChunk), NEW c \in WireChunk, c.type \in Inputs,
         NEW ended, c.type = CHUNKTYPE_STDIN_EOF => ended, EndsOnce(cs, FALSE)
  PROVE  /\ EndsOnce(Append(cs, c), ended)
         /\ InputsOnly(cs) => InputsOnly(Append(cs, c))
         /\ RequestThenInput(cs) => RequestThenInput(Append(cs, c))
<1> DEFINE long == Append(cs, c)
<1>1. /\ long \in Seq(WireChunk) /\ Len(long) = Len(cs) + 1 /\ Len(cs) \in Nat
      /\ long[Len(cs) + 1] = c /\ \A i \in 1 .. Len(cs) : long[i] = cs[i]
  BY AppendProperties, LenProperties
<1> HIDE DEF long
<1>2. \A i \in 1 .. Len(long) : i \in 1 .. Len(cs) \/ i = Len(cs) + 1
  BY <1>1
<1>3. EndsOnce(long, ended)
  <2> SUFFICES ASSUME NEW i \in 1 .. Len(long), long[i].type = CHUNKTYPE_STDIN_EOF
               PROVE  i = Len(long) /\ ended
    BY DEF EndsOnce
  <2>1. i \notin 1 .. Len(cs)
    BY <1>1 DEF EndsOnce
  <2> QED
    BY <1>1, <1>2, <2>1
<1>4. InputsOnly(cs) => InputsOnly(long)
  BY <1>1, <1>2 DEF InputsOnly
<1>5. ASSUME RequestThenInput(cs) PROVE RequestThenInput(long)
  <2>1. PICK k \in 1 .. Len(cs) : \A i \in 1 .. Len(cs) :
          /\ i < k => cs[i].type \in RequestTypes
          /\ i = k => cs[i].type = CHUNKTYPE_COMMAND
          /\ i > k => cs[i].type \in Inputs
    BY <1>5 DEF RequestThenInput
  <2>2. k \in 1 .. Len(long) /\ k < Len(cs) + 1
    BY <1>1
  <2>3. ASSUME NEW i \in 1 .. Len(long)
        PROVE  /\ i < k => long[i].type \in RequestTypes
               /\ i = k => long[i].type = CHUNKTYPE_COMMAND
               /\ i > k => long[i].type \in Inputs
    <3>1. CASE i \in 1 .. Len(cs)
      BY <1>1, <2>1, <3>1
    <3>2. CASE i = Len(cs) + 1
      BY <1>1, <2>2, <3>2
    <3> QED
      BY <1>2, <3>1, <3>2
  <2> QED
    BY <2>2, <2>3 DEF RequestThenInput
<1> QED
  BY <1>3, <1>4, <1>5 DEF long

(* What the invariants say of types, for the steps below.                  *)
LEMMA ToServerFacts ==
  ASSUME TypeInv
  PROVE  /\ toServer \in Bytes /\ unsent \in Bytes /\ got \in Bytes /\ Stdin \in Bytes
         /\ remaining \in Nat /\ read \in 0 .. Len(Stdin) /\ Len(Stdin) \in Nat
         /\ Len(toServer) \in Nat
         /\ clientClosed \in BOOLEAN /\ serverClosed \in BOOLEAN
         /\ inEof \in BOOLEAN /\ eof \in BOOLEAN
         /\ Take(read, Stdin) \in Bytes
         /\ Take(read, Stdin) \o Skip(read, Stdin) = Stdin /\ Skip(read, Stdin) \in Bytes
<1>1. Stdin \in Bytes /\ read \in 0 .. Len(Stdin)
  BY ClientAssumption DEF TypeInv, TypeOK, ClientTypeOK
<1>2. /\ Take(read, Stdin) \in Bytes /\ Skip(read, Stdin) \in Bytes
      /\ Take(read, Stdin) \o Skip(read, Stdin) = Stdin
  BY <1>1, TakeSkip
<1> QED
  BY <1>1, <1>2 DEF TypeInv, TypeOK, SocketTypeOK, ClientTypeOK, NailTypeOK, Bytes

(* At the start the whole request is still to send.                        *)
LEMMA InputInvInit == Init => InputInv
<1> SUFFICES ASSUME Init PROVE InputInv
  OBVIOUS
<1>1. /\ toServer = <<>> /\ clientClosed = FALSE /\ read = 0 /\ eof = FALSE
      /\ spc = "request" /\ remaining = 0 /\ inEof = FALSE /\ got = <<>>
  BY DEF Init, SocketInit, ClientInit, NailInit
<1>2. PICK request \in Requests : unsent = RequestBytes(request)
  BY DEF Init, ClientInit
<1>3. request \in Seq(WireChunk) /\ Len(request) \in Nat /\ DOMAIN request = 1 .. Len(request)
  BY RequestChunks, LenProperties
<1>4. unsent = Stream(request) /\ Stream(request) \in Bytes
  BY <1>2, <1>3, StreamType DEF RequestBytes, Stream
<1>5. PICK last \in 1 .. Len(request) : \A i \in 1 .. Len(request) :
        i <= last /\ (request[i].type = CHUNKTYPE_COMMAND <=> i = last)
  <2>1. \E last \in DOMAIN request : \A i \in DOMAIN request :
          i <= last /\ (request[i].type = CHUNKTYPE_COMMAND <=> i = last)
    BY ClientAssumption, Zenon
  <2> QED
    BY <1>3, <2>1
<1>6. \A i \in 1 .. Len(request) : request[i].type \in RequestTypes \cup {CHUNKTYPE_COMMAND}
  BY <1>3, RequestChunks
<1>7. EndsOnce(request, eof) /\ RequestThenInput(request)
  <2>1. EndsOnce(request, eof)
    BY <1>6, TypesDiffer DEF EndsOnce
  <2>2. \A i \in 1 .. Len(request) :
          /\ i < last => request[i].type \in RequestTypes
          /\ i = last => request[i].type = CHUNKTYPE_COMMAND
          /\ i > last => request[i].type \in Inputs
    BY <1>5, <1>6
  <2> QED
    BY <2>1, <2>2 DEF RequestThenInput
<1>8. Payload(CHUNKTYPE_STDIN, request) = <<>>
  BY <1>3, <1>6, TypesDiffer, PayloadOfOthers
<1>9. Take(read, Stdin) = <<>>
  BY <1>1, SubSeqEmpty DEF Take
<1>10. <<>> \o unsent = <<>> \o Stream(request) /\ <<>> \o (<<>> \o <<>>) = <<>>
  BY <1>4, EmptyBytes, ConcatEmpty
<1>11. ToServer(request, <<>>, unsent)
  BY <1>1, <1>7, <1>8, <1>9, <1>10, EmptyBytes DEF ToServer
<1>12. InputArrives
  BY <1>3, <1>4, <1>11, EmptyBytes, Zenon DEF InputArrives
<1>13. IsPrefix(got, Stdin)
  <2>1. <<>> \o Stdin = Stdin /\ <<>> \in Bytes /\ Stdin \in Bytes
    BY ClientAssumption, EmptyBytes, ConcatEmpty
  <2>2. IsPrefix(<<>>, <<>> \o Stdin)
    BY <2>1, PrefixIntro, Zenon
  <2> QED
    BY <1>1, <2>1, <2>2
<1> QED
  BY <1>1, <1>12, <1>13 DEF InputInv, InputInOrder

(* A step that touches nothing of this.                                    *)
LEMMA InputUntouched ==
  ASSUME InputInv, UNCHANGED <<toServer, unsent, read, eof, clientClosed>>,
         UNCHANGED <<spc, inputVars>>
  PROVE  InputInv'
<1>1. ASSUME NEW cs, NEW rem, NEW lost, ToServer(cs, rem, lost)
      PROVE  ToServer(cs, rem, lost)'
  BY <1>1 DEF ToServer, inputVars
<1>2. InputArrives => InputArrives'
  BY <1>1 DEF InputArrives
<1> QED
  BY <1>2 DEF InputInv, InputInOrder, inputVars

(* A send moves bytes from the client into the stream.                     *)
LEMMA SendKeepsInput ==
  ASSUME TypeInv, Ends, InputInv, Send, UNCHANGED nailVars
  PROVE  InputInv'
<1>0. UNCHANGED <<spc, inputVars, read, eof, clientClosed>> /\ ~ clientClosed
  BY DEF Send, nailVars, Ends
<1>a. /\ toServer \in Bytes /\ Len(toServer) <= Capacity /\ unsent \in Bytes
  BY DEF TypeInv, TypeOK, SocketTypeOK, ClientTypeOK
<1>1. PICK n : n = Fits(toServer, unsent) /\ toServer' = toServer \o Take(n, unsent)
               /\ unsent' = Skip(n, unsent)
  BY DEF Send
<1>2. n \in 0 .. Len(unsent)
  BY <1>a, <1>1, FitsTypes
<1>3. /\ Take(n, unsent) \in Bytes /\ Skip(n, unsent) \in Bytes
      /\ Take(n, unsent) \o Skip(n, unsent) = unsent
  BY <1>a, <1>2, TakeSkip
<1>4. toServer' \o unsent' = toServer \o unsent
  <2>1. (toServer \o Take(n, unsent)) \o Skip(n, unsent)
          = toServer \o (Take(n, unsent) \o Skip(n, unsent))
    BY <1>a, <1>3, ConcatAssoc, Zenon
  <2> QED
    BY <1>1, <1>3, <2>1, Zenon
<1>5. ASSUME NEW cs \in Seq(WireChunk), NEW rem \in Bytes, NEW lost \in Bytes,
             ToServer(cs, rem, lost)
      PROVE  ToServer(cs, rem, unsent)'
  <2>1. lost = unsent
    BY <1>0, <1>5 DEF ToServer
  <2> QED
    BY <1>0, <1>4, <1>5, <2>1 DEF ToServer, inputVars
<1>6. InputArrives => InputArrives'
  BY <1>0, <1>1, <1>3, <1>5 DEF InputArrives
<1> QED
  BY <1>0, <1>6 DEF InputInv, InputInOrder, inputVars

(* A chunk of input is under way once it is passed to sendChunk().         *)
LEMMA InputSent ==
  ASSUME TypeInv, Ends, InputInv, cpc = "select", ~eof, UNCHANGED nailVars,
         NEW c \in WireChunk, c.type \in Inputs,
         Forward(Chunk(c.type, c.text)),
         c.type = CHUNKTYPE_STDIN_EOF => eof',
         eof' \in BOOLEAN, eof' => read' = Len(Stdin),
         Take(read', Stdin) = Take(read, Stdin) \o Of(CHUNKTYPE_STDIN, c)
  PROVE  InputInv'
<1>0. /\ UNCHANGED <<spc, inputVars, toServer, clientClosed>> /\ ~ clientClosed /\ unsent = <<>>
      /\ unsent' = Chunk(c.type, c.text) /\ eof = FALSE
  BY DEF Forward, nailVars, socketVars, Ends, TypeInv, TypeOK, ClientTypeOK
<1>1. /\ Chunk(c.type, c.text) \in Bytes /\ Of(CHUNKTYPE_STDIN, c) \in Bytes
      /\ toServer \in Bytes /\ got \in Bytes /\ Take(read, Stdin) \in Bytes
  BY ChunkParts, OfType, ToServerFacts
<1>2. ASSUME NEW cs \in Seq(WireChunk), NEW rem \in Bytes, NEW lost \in Bytes,
             ToServer(cs, rem, lost)
      PROVE  /\ Append(cs, c) \in Seq(WireChunk)
             /\ ToServer(Append(cs, c), rem, unsent)'
  <2> DEFINE long == Append(cs, c)
             bytes == Chunk(c.type, c.text)
             text == Of(CHUNKTYPE_STDIN, c)
             P == Payload(CHUNKTYPE_STDIN, cs)
  <2>1. /\ long \in Seq(WireChunk)
        /\ Stream(long) = Stream(cs) \o bytes
        /\ Payload(CHUNKTYPE_STDIN, long) = P \o text
    BY StreamAppend
  <2>2. lost = <<>> /\ toServer \o lost = rem \o Stream(cs) /\ EndsOnce(cs, FALSE)
        /\ got \o (rem \o P) = Take(read, Stdin)
        /\ (spc = "request" => RequestThenInput(cs)) /\ (spc = "nail" => InputsOnly(cs))
        /\ Len(rem) = remaining
    BY <1>0, <1>2 DEF ToServer
  <2>3. /\ EndsOnce(long, eof') /\ (spc = "request" => RequestThenInput(long))
        /\ (spc = "nail" => InputsOnly(long))
    BY <2>2, OrderAppend
  <2>4. Stream(cs) \in Bytes /\ P \in Bytes
    BY StreamType
  <2>b. bytes \in Bytes /\ text \in Bytes
    BY <1>1
  <2> HIDE DEF long, bytes, text, P
  <2>5. toServer \o bytes = rem \o Stream(long)
    <3>1. toServer = rem \o Stream(cs)
      BY <1>1, <2>2, ConcatEmpty
    <3>2. (rem \o Stream(cs)) \o bytes = rem \o (Stream(cs) \o bytes)
      BY <2>4, <2>b, ConcatAssoc, Zenon
    <3> QED
      BY <2>1, <3>1, <3>2, Zenon
  <2>6. got \o (rem \o Payload(CHUNKTYPE_STDIN, long)) = Take(read, Stdin) \o text
    <3>1. (rem \o P) \o text = rem \o (P \o text)
      BY <2>4, <2>b, ConcatAssoc, Zenon
    <3> DEFINE mid == rem \o P
    <3>2. mid \in Bytes /\ got \in Bytes
      BY <1>1, <2>4, Concat
    <3> HIDE DEF mid
    <3>3. Assoc(got, mid, text)
      BY <2>b, <3>2, Associates
    <3> QED
      BY <2>1, <2>2, <3>1, <3>3, Zenon DEF mid, Assoc
  <2>7. ToServer(long, rem, unsent)'
    <3>1. unsent' = bytes /\ UNCHANGED <<toServer, clientClosed, got, remaining, spc>>
          /\ Take(read', Stdin) = Take(read, Stdin) \o text
      BY <1>0 DEF bytes, text, inputVars
    <3> QED
      BY <2>2, <2>3, <2>5, <2>6, <3>1 DEF ToServer
  <2> QED
    BY <2>1, <2>7 DEF long
<1>3. unsent' \in Bytes
  BY <1>0, <1>1
<1>4. InputArrives => InputArrives'
  <2>1. ASSUME NEW cs \in Seq(WireChunk), NEW rem \in Bytes, NEW lost \in Bytes,
               ToServer(cs, rem, lost)
        PROVE  InputArrives'
    BY <1>2, <1>3, <2>1, Zenon DEF InputArrives
  <2> QED
    BY <1>0, <2>1 DEF InputArrives
<1> QED
  BY <1>0, <1>4 DEF InputInv, InputInOrder, inputVars

(* processStdin() passes on what it has read.                              *)
LEMMA ReadStdinKeepsInput ==
  ASSUME TypeInv, Ends, InputInv, ReadStdin, UNCHANGED nailVars
  PROVE  InputInv'
<1>0. /\ read \in 0 .. Len(Stdin) /\ Len(Stdin) \in Nat /\ Stdin \in Bytes
      /\ eof \in BOOLEAN /\ cpc = "select" /\ ~ eof /\ UNCHANGED eof
  BY ToServerFacts DEF ReadStdin
<1>1. PICK n \in 1 .. Min({BUFSIZE, Len(Stdin) - read}) :
        /\ Forward(Chunk(CHUNKTYPE_STDIN, SubSeq(Stdin, read + 1, read + n)))
        /\ read' = read + n
  BY DEF ReadStdin
<1> DEFINE part == SubSeq(Stdin, read + 1, read + n)
           c == [type |-> CHUNKTYPE_STDIN, text |-> part]
<1>2. /\ read + n \in 0 .. Len(Stdin) /\ part \in Bytes /\ Len(part) = n /\ n <= MaxInt
      /\ n \in Nat
  <2>1. ClientTypes
    BY DEF TypeInv, TypeOK, ClientTypes
  <2>2. /\ read + n \in 0 .. Len(Stdin) /\ part \in Bytes /\ Len(part) = n /\ n <= MaxInt
    BY <2>1, StdinChunk
  <2> HIDE DEF part
  <2> QED
    BY <2>2, Concat
<1>3. Take(read + n, Stdin) = Take(read, Stdin) \o part
  <2>1. 1 \in 1 .. Len(Stdin) + 1 /\ read \in 1 - 1 .. Len(Stdin) /\ read + n \in read .. Len(Stdin)
    BY <1>0, <1>2
  <2>2. SubSeq(Stdin, 1, read) \o SubSeq(Stdin, read + 1, read + n) = SubSeq(Stdin, 1, read + n)
    BY <1>0, <2>1, ConcatAdjacentSubSeq DEF Bytes
  <2> QED
    BY <2>2, Zenon DEF Take
<1> HIDE DEF part
<1>4. c \in WireChunk /\ c.type = CHUNKTYPE_STDIN /\ c.text = part
  BY <1>2 DEF WireChunk, CHUNKTYPE_STDIN, Byte
<1>5. Of(CHUNKTYPE_STDIN, c) = part
  BY <1>4, Zenon DEF Of
<1>6. Forward(Chunk(c.type, c.text))
  BY <1>1, <1>4 DEF part
<1>7. Take(read', Stdin) = Take(read, Stdin) \o Of(CHUNKTYPE_STDIN, c)
  BY <1>1, <1>3, <1>5
<1>8. c.type \in Inputs /\ c.type # CHUNKTYPE_STDIN_EOF
  BY <1>4, TypesDiffer DEF Inputs
<1>9. eof' \in BOOLEAN /\ ~ eof'
  BY <1>0
<1> HIDE DEF c
<1> QED
  BY <1>0, <1>4, <1>6, <1>7, <1>8, <1>9, InputSent

(* At the end of input the client sends the empty chunk that says so.      *)
LEMMA StdinEndsKeepsInput ==
  ASSUME TypeInv, Ends, InputInv, StdinEnds, UNCHANGED nailVars
  PROVE  InputInv'
<1>0. /\ cpc = "select" /\ ~ eof /\ eof' = TRUE /\ read = Len(Stdin) /\ UNCHANGED read
      /\ Forward(Chunk(CHUNKTYPE_STDIN_EOF, <<>>))
  BY DEF StdinEnds
<1> DEFINE c == [type |-> CHUNKTYPE_STDIN_EOF, text |-> <<>>]
<1>1. c \in WireChunk /\ c.type = CHUNKTYPE_STDIN_EOF /\ c.text = <<>>
  BY EmptyBytes, MaxIntIsLarge DEF WireChunk, CHUNKTYPE_STDIN_EOF, Byte
<1>2. Of(CHUNKTYPE_STDIN, c) = <<>>
  BY <1>1, TypesDiffer, Zenon DEF Of
<1>3. Take(read', Stdin) = Take(read, Stdin) \o Of(CHUNKTYPE_STDIN, c)
  BY <1>0, <1>2, ToServerFacts, ConcatEmpty
<1>4. c.type \in Inputs
  BY <1>1 DEF Inputs
<1>5. Forward(Chunk(c.type, c.text))
  BY <1>0, <1>1
<1> HIDE DEF c
<1>6. eof' \in BOOLEAN /\ eof' /\ (eof' => read' = Len(Stdin))
  BY <1>0
<1> QED
  BY <1>0, <1>1, <1>3, <1>4, <1>5, <1>6, InputSent

(* The client ends: of what it has sent some may be lost.                  *)
LEMMA ExitKeepsInput ==
  ASSUME TypeInv, Ends, InputInv, NEW why, NEW code, Exit(why, code),
         UNCHANGED <<unsent, read, eof>>, UNCHANGED nailVars
  PROVE  InputInv'
<1>0. clientClosed' = TRUE /\ UNCHANGED <<spc, inputVars>>
  BY DEF Exit, CloseClientEnd, nailVars
<1>1. toServer \in Bytes
  BY ToServerFacts
<1>2. PICK dropped \in Bytes : toServer = toServer' \o dropped /\ toServer' \in Bytes
  <2>1. CASE UNCHANGED toServer
    BY <1>1, <2>1, EmptyBytes, ConcatEmpty
  <2>2. CASE \E n \in 0 .. Len(toServer) : toServer' = Take(n, toServer)
    <3>1. PICK n \in 0 .. Len(toServer) : toServer' = Take(n, toServer)
      BY <2>2
    <3>2. /\ Take(n, toServer) \in Bytes /\ Skip(n, toServer) \in Bytes
          /\ Take(n, toServer) \o Skip(n, toServer) = toServer
      BY <1>1, TakeSkip
    <3> QED
      BY <3>1, <3>2
  <2> QED
    BY <2>1, <2>2 DEF Exit, CloseClientEnd
<1>3. ASSUME NEW cs \in Seq(WireChunk), NEW rem \in Bytes, NEW lost \in Bytes,
             ToServer(cs, rem, lost)
      PROVE  InputArrives'
  <2> DEFINE all == dropped \o lost
  <2>1. all \in Bytes
    BY Concat
  <2>2. (toServer' \o dropped) \o lost = toServer' \o all
    BY <1>2, ConcatAssoc, Zenon
  <2>3. toServer \o lost = (toServer' \o dropped) \o lost
    BY <1>2, Zenon
  <2> HIDE DEF all
  <2>4. ToServer(cs, rem, all)'
    BY <1>0, <1>3, <2>2, <2>3 DEF ToServer, inputVars
  <2> QED
    BY <2>1, <2>4, Zenon DEF InputArrives
<1>4. ASSUME toServer = <<>>, clientClosed PROVE InputArrives'
  <2>1. toServer' = <<>>
    <3>1. Len(toServer' \o dropped) = Len(toServer') + Len(dropped)
          /\ Len(toServer') \in Nat /\ Len(dropped) \in Nat
      BY <1>2, Concat
    <3>2. Len(toServer) = 0
      BY <1>4, EmptyBytes
    <3>3. Len(toServer') = 0
      BY <1>2, <3>1, <3>2
    <3> QED
      BY <1>2, <3>3, LenZero
  <2>2. clientClosed'
    BY <1>0
  <2> QED
    BY <2>1, <2>2, Zenon DEF InputArrives
<1>5. InputArrives => InputArrives'
  BY <1>3, <1>4, Zenon DEF InputArrives
<1> QED
  BY <1>0, <1>5 DEF InputInv, InputInOrder, inputVars

(* Every step of the client.                                               *)
LEMMA InputInvClient ==
  ASSUME TypeInv, Ends, InputInv, ClientActions, UNCHANGED nailVars
  PROVE  InputInv'
<1>1. CASE BrokenPipe \/ RecvHeaderFails \/ ProcessExit \/ ProcessExitFails \/ Killed
  <2>1. \E why, code : Exit(why, code) /\ UNCHANGED <<unsent, read, eof>>
    BY <1>1, Zenon DEF BrokenPipe, RecvHeaderFails, ProcessExit, ProcessExitFails, Killed
  <2> QED
    BY <2>1, ExitKeepsInput
<1>2. CASE RecvHeader
  <2>1. UNCHANGED <<unsent, read, eof>>
    BY <1>2 DEF RecvHeader
  <2>2. CASE Exit("unexpected", NAILGUN_UNEXPECTED_CHUNKTYPE)
    BY <2>1, <2>2, ExitKeepsInput
  <2>3. CASE UNCHANGED <<toServer, clientClosed>>
    BY <2>1, <2>3, InputUntouched DEF nailVars
  <2> QED
    BY <1>2, <2>2, <2>3 DEF RecvHeader
<1>3. CASE RecvToFD \/ RecvToFDFails
  <2>1. UNCHANGED <<toServer, unsent, read, eof, clientClosed>>
    BY <1>3 DEF RecvToFD, RecvToFDFails, socketVars
  <2> QED
    BY <2>1, InputUntouched DEF nailVars
<1>4. CASE SendToClosed
  <2>1. /\ serverClosed /\ UNCHANGED <<toServer, read, eof, clientClosed>>
        /\ UNCHANGED <<spc, inputVars>>
    BY <1>4 DEF SendToClosed, nailVars
  <2>2. spc \in {"closed", "dead"}
    BY <2>1 DEF Ends
  <2> QED
    BY <2>1, <2>2 DEF InputInv, InputInOrder, inputVars
<1> QED
  BY <1>1, <1>2, <1>3, <1>4, SendKeepsInput, ReadStdinKeepsInput, StdinEndsKeepsInput
  DEF ClientActions, ClientSteps

(* A header at the front of the stream to the server.                      *)
LEMMA ServerReadsHeader ==
  ASSUME TypeInv, remaining = 0, Len(toServer) >= CHUNK_HEADER_LEN,
         NEW cs \in Seq(WireChunk), NEW rem \in Bytes, NEW lost \in Bytes,
         ToServer(cs, rem, lost)
  PROVE  /\ cs # <<>> /\ rem = <<>>
         /\ Head(cs) \in WireChunk /\ Tail(cs) \in Seq(WireChunk)
         /\ toServer[CHUNK_HEADER_LEN] = Head(cs).type
         /\ FromArray(toServer) = Len(Head(cs).text)
         /\ toServer \o lost = Chunk(Head(cs).type, Head(cs).text) \o Stream(Tail(cs))
         /\ Stream(Tail(cs)) \in Bytes
         /\ Skip(CHUNK_HEADER_LEN, toServer) \o lost = Head(cs).text \o Stream(Tail(cs))
         /\ Payload(CHUNKTYPE_STDIN, cs)
              = Of(CHUNKTYPE_STDIN, Head(cs)) \o Payload(CHUNKTYPE_STDIN, Tail(cs))
         /\ Payload(CHUNKTYPE_STDIN, Tail(cs)) \in Bytes
         /\ Of(CHUNKTYPE_STDIN, Head(cs)) \in Bytes
<1>1. rem = <<>>
  BY LenZero DEF ToServer
<1>2. toServer \in Bytes /\ Len(toServer) \in Nat
  BY ToServerFacts
<1>3. Stream(cs) \in Bytes
  BY StreamType
<1>4. toServer \o lost = Stream(cs)
  BY <1>1, <1>3, ConcatEmpty DEF ToServer
<1>5. cs # <<>>
  <2>1. SUFFICES ASSUME cs = <<>> PROVE FALSE
    OBVIOUS
  <2>2. Len(toServer \o lost) = 0
    BY <1>4, <2>1, StreamEmpty, EmptyBytes
  <2>3. Len(toServer \o lost) = Len(toServer) + Len(lost) /\ Len(lost) \in Nat
    BY <1>2, Concat
  <2>4. CHUNK_HEADER_LEN > 0
    BY DEF CHUNK_HEADER_LEN
  <2> QED
    BY <1>2, <2>2, <2>3, <2>4, Capacities
<1> DEFINE c == Head(cs)
           rest == Tail(cs)
<1>6. /\ c \in WireChunk /\ rest \in Seq(WireChunk)
      /\ Stream(cs) = Chunk(c.type, c.text) \o Stream(rest)
      /\ Payload(CHUNKTYPE_STDIN, cs) = Of(CHUNKTYPE_STDIN, c) \o Payload(CHUNKTYPE_STDIN, rest)
  BY <1>5, StreamCons
<1> HIDE DEF c, rest
<1>7. Stream(rest) \in Bytes /\ Payload(CHUNKTYPE_STDIN, rest) \in Bytes
      /\ Of(CHUNKTYPE_STDIN, c) \in Bytes
  BY <1>6, StreamType, OfType
<1> DEFINE d == Stream(rest)
<1>8. d \in Bytes /\ toServer \o lost = Chunk(c.type, c.text) \o d
  BY <1>4, <1>6, <1>7
<1> HIDE DEF d
<1>9. /\ toServer[CHUNK_HEADER_LEN] = c.type
      /\ FromArray(toServer) = Len(c.text)
      /\ Skip(CHUNK_HEADER_LEN, toServer) \o lost = c.text \o d
  <2>1. HeaderRead(toServer, lost, c, d)
    BY <1>2, <1>6, <1>8, HeaderArrives, Zenon
  <2> QED
    BY <2>1, Zenon DEF HeaderRead
<1> QED
  BY <1>1, <1>5, <1>6, <1>7, <1>8, <1>9, Zenon DEF c, rest, d

(* readRequest: the session takes a chunk of the request off the stream.   *)
LEMMA ReadRequestKeepsInput ==
  ASSUME TypeInv, Ends, InputInv, ReadRequest, UNCHANGED clientVars
  PROVE  InputInv'
<1>0. /\ spc = "request" /\ ~ inEof /\ remaining = 0 /\ got = <<>> /\ ChunkArrived
      /\ toServer' = Skip(CHUNK_HEADER_LEN + Len(FirstChunk.text), toServer)
      /\ UNCHANGED <<inputVars, clientClosed, unsent, read, eof>>
      /\ spc' = IF FirstChunk.type = CHUNKTYPE_COMMAND THEN "nail" ELSE "request"
  BY DEF ReadRequest, Ends, clientVars
<1>1. toServer \in Bytes /\ Len(toServer) \in Nat /\ got \in Bytes
  BY ToServerFacts
<1>2. /\ Len(toServer) >= CHUNK_HEADER_LEN
      /\ FirstChunk.type = toServer[CHUNK_HEADER_LEN]
      /\ Len(FirstChunk.text) = FromArray(toServer)
      /\ CHUNK_HEADER_LEN + Len(FirstChunk.text) \in 0 .. Len(toServer)
  BY <1>0, <1>1, ArrivedChunk DEF ChunkArrived
<1>3. toServer # <<>>
  <2>1. SUFFICES ASSUME Len(toServer) = 0 PROVE FALSE
    BY EmptyBytes
  <2> QED
    BY <1>2, <2>1 DEF CHUNK_HEADER_LEN
<1>4. ASSUME NEW cs \in Seq(WireChunk), NEW rem \in Bytes, NEW lost \in Bytes,
             ToServer(cs, rem, lost)
      PROVE  InputArrives'
  <2> DEFINE c == Head(cs)
             rest == Tail(cs)
             d == Stream(rest)
             whole == Chunk(c.type, c.text)
             n == CHUNK_HEADER_LEN + Len(FirstChunk.text)
  <2>1. /\ cs # <<>> /\ rem = <<>> /\ c \in WireChunk /\ rest \in Seq(WireChunk)
        /\ toServer[CHUNK_HEADER_LEN] = c.type /\ FromArray(toServer) = Len(c.text)
        /\ toServer \o lost = whole \o d /\ d \in Bytes
        /\ Payload(CHUNKTYPE_STDIN, cs) = Of(CHUNKTYPE_STDIN, c) \o Payload(CHUNKTYPE_STDIN, rest)
        /\ Payload(CHUNKTYPE_STDIN, rest) \in Bytes
    BY <1>0, <1>2, <1>4, ServerReadsHeader
  <2>2. /\ EndsOnce(rest, eof)
        /\ \/ c.type = CHUNKTYPE_COMMAND /\ InputsOnly(rest)
           \/ c.type \in RequestTypes /\ RequestThenInput(rest)
    BY <1>0, <1>4, <2>1, OrderTail DEF ToServer
  <2>a. got \o (rem \o Payload(CHUNKTYPE_STDIN, cs)) = Take(read, Stdin)
    BY <1>4 DEF ToServer
  <2> HIDE DEF c, rest, d, n
  <2>3. whole \in Bytes /\ Len(whole) = n
    <3>1. whole \in Bytes /\ Len(whole) = CHUNK_HEADER_LEN + Len(c.text)
      BY <2>1, ChunkParts
    <3> QED
      BY <1>2, <2>1, <3>1 DEF n
  <2> HIDE DEF whole
  <2>4. n \in Nat /\ n <= Len(toServer) /\ n <= Len(whole)
    BY <1>1, <1>2, <2>3 DEF n
  <2>5. Advanced(n, toServer, lost, whole, d)
    BY <1>1, <2>1, <2>3, <2>4, Advance, Zenon
  <2>6. Skip(n, whole) = <<>>
    BY <2>3, SkipAll
  <2>7. Skip(n, toServer) \o lost = <<>> \o d
    BY <2>5, <2>6, Zenon DEF Advanced
  <2>8. Of(CHUNKTYPE_STDIN, c) = <<>>
    BY <2>2, TypesDiffer, Zenon DEF Of
  <2>9. Payload(CHUNKTYPE_STDIN, cs) = Payload(CHUNKTYPE_STDIN, rest)
    BY <2>1, <2>8, ConcatEmpty
  <2>10. toServer' \o lost = <<>> \o Stream(rest)
    BY <1>0, <2>7, Zenon DEF n, d
  <2>11. got \o (<<>> \o Payload(CHUNKTYPE_STDIN, rest)) = Take(read, Stdin)
    BY <2>1, <2>9, <2>a, Zenon
  <2>12. /\ spc' = "request" => RequestThenInput(rest)
         /\ spc' = "nail" => InputsOnly(rest)
    BY <1>0, <1>2, <2>1, <2>2, TypesDiffer
  <2>13. /\ Len(<<>>) = remaining /\ (~ clientClosed => lost = unsent)
    BY <1>0, <1>4, EmptyBytes DEF ToServer
  <2>14. ToServer(rest, <<>>, lost)'
    BY <1>0, <2>2, <2>10, <2>11, <2>12, <2>13 DEF ToServer, inputVars
  <2> QED
    BY <2>1, <2>14, EmptyBytes, Zenon DEF InputArrives
<1>a. InputArrives
  BY <1>0 DEF InputInv
<1>5. InputArrives'
  BY <1>a, <1>3, <1>4, Zenon DEF InputArrives
<1> QED
  BY <1>0, <1>5 DEF InputInv, InputInOrder, inputVars

(* readHeader: the nail takes the header of a chunk of input off it.       *)
LEMMA ReadHeaderKeepsInput ==
  ASSUME TypeInv, Ends, InputInv, ReadHeader, UNCHANGED clientVars
  PROVE  InputInv'
<1>0. /\ spc = "nail" /\ remaining = 0 /\ ~ inEof
      /\ UNCHANGED <<spc, got, clientClosed, unsent, read, eof>>
  BY DEF ReadHeader, Reading, Alive, clientVars
<1>1. toServer \in Bytes /\ Len(toServer) \in Nat /\ got \in Bytes
  BY ToServerFacts
<1>2. CASE Len(toServer) < CHUNK_HEADER_LEN
  <2>1. inEof' /\ clientClosed
    BY <1>0, <1>1, <1>2, Capacities DEF ReadHeader
  <2> QED
    BY <1>0, <2>1 DEF InputInv, InputInOrder
<1>3. CASE Len(toServer) >= CHUNK_HEADER_LEN
  <2>1. /\ IF toServer[CHUNK_HEADER_LEN] = CHUNKTYPE_STDIN
           THEN remaining' = FromArray(toServer) /\ UNCHANGED inEof
           ELSE inEof' = TRUE /\ UNCHANGED remaining
        /\ toServer' = Skip(CHUNK_HEADER_LEN, toServer)
    BY <1>1, <1>3, Capacities DEF ReadHeader
  <2>2. ~ (toServer = <<>> /\ clientClosed)
    <3>1. CHUNK_HEADER_LEN > 0
      BY DEF CHUNK_HEADER_LEN
    <3> QED
      BY <1>3, <3>1, EmptyBytes, Capacities
  <2>3. PICK cs \in Seq(WireChunk), rem \in Bytes, lost \in Bytes : ToServer(cs, rem, lost)
    BY <1>0, <2>2, Zenon DEF InputInv, InputArrives
  <2> DEFINE c == Head(cs)
             rest == Tail(cs)
             text == c.text
             P == Payload(CHUNKTYPE_STDIN, rest)
  <2>4. /\ cs # <<>> /\ rem = <<>> /\ c \in WireChunk /\ rest \in Seq(WireChunk)
        /\ toServer[CHUNK_HEADER_LEN] = c.type /\ FromArray(toServer) = Len(text)
        /\ Skip(CHUNK_HEADER_LEN, toServer) \o lost = text \o Stream(rest)
        /\ Payload(CHUNKTYPE_STDIN, cs) = Of(CHUNKTYPE_STDIN, c) \o P
        /\ P \in Bytes /\ Of(CHUNKTYPE_STDIN, c) \in Bytes
    BY <1>0, <1>3, <2>3, ServerReadsHeader
  <2>5. /\ EndsOnce(rest, eof) /\ c.type \in Inputs /\ InputsOnly(rest)
        /\ c.type = CHUNKTYPE_STDIN_EOF => rest = <<>> /\ eof
    BY <1>0, <2>3, <2>4, OrderTail DEF ToServer
  <2>6. got \o (rem \o Payload(CHUNKTYPE_STDIN, cs)) = Take(read, Stdin)
        /\ (~ clientClosed => lost = unsent)
    BY <2>3 DEF ToServer
  <2>7. got \o (Of(CHUNKTYPE_STDIN, c) \o P) = Take(read, Stdin)
    <3> DEFINE Q == Of(CHUNKTYPE_STDIN, c) \o P
    <3>1. Q \in Bytes
      BY <2>4, Concat
    <3> HIDE DEF Q
    <3>2. rem \o Q = Q
      BY <2>4, <3>1, ConcatEmpty
    <3> QED
      BY <2>4, <2>6, <3>2, Zenon DEF Q
  <2>8. text \in Bytes
    BY <2>4, ChunkParts
  <2> HIDE DEF c, rest, text, P
  <2>9. CASE c.type = CHUNKTYPE_STDIN
    <3>1. Of(CHUNKTYPE_STDIN, c) = text
      BY <2>9, Zenon DEF Of, text
    <3>2. remaining' = Len(text) /\ UNCHANGED inEof
      BY <2>1, <2>4, <2>9
    <3>3. got \o (text \o P) = Take(read, Stdin)
      BY <2>7, <3>1, Zenon
    <3>4. toServer' \o lost = text \o Stream(rest)
      BY <2>1, <2>4
    <3>5. ToServer(rest, text, lost)'
      BY <1>0, <2>5, <2>6, <3>2, <3>3, <3>4 DEF ToServer, P
    <3>6. InputArrives'
      BY <2>4, <2>8, <3>5, Zenon DEF InputArrives
    <3> QED
      BY <1>0, <3>2, <3>6 DEF InputInv, InputInOrder
  <2>10. CASE c.type # CHUNKTYPE_STDIN
    <3>1. c.type = CHUNKTYPE_STDIN_EOF
      BY <2>5, <2>10 DEF Inputs
    <3>2. rest = <<>> /\ eof
      BY <2>5, <3>1
    <3>3. P = <<>>
      BY <3>2, StreamEmpty DEF P
    <3>4. Of(CHUNKTYPE_STDIN, c) = <<>>
      BY <2>10, Zenon DEF Of
    <3>5. got = Take(read, Stdin)
      <4>1. <<>> \o <<>> = <<>> /\ got \o <<>> = got
        BY <1>1, EmptyBytes, ConcatEmpty
      <4> QED
        BY <2>7, <3>3, <3>4, <4>1, Zenon
    <3>6. read = Len(Stdin)
      BY <3>2 DEF InputInv, InputInOrder
    <3>7. Take(read, Stdin) = Stdin
      BY <3>6, ToServerFacts, SkipAll
    <3>8. inEof' /\ UNCHANGED <<remaining, got>>
      BY <1>0, <2>1, <2>4, <2>10
    <3> QED
      BY <1>0, <3>5, <3>7, <3>8 DEF InputInv, InputInOrder
  <2> QED
    BY <2>9, <2>10
<1> QED
  BY <1>1, <1>2, <1>3, Capacities

(* The nail gets the next bytes of the chunk it is in.                     *)
LEMMA ReadDataKeepsInput ==
  ASSUME TypeInv, InputInv, ReadData, UNCHANGED clientVars
  PROVE  InputInv'
<1>0. /\ spc = "nail" /\ ~ inEof /\ toServer # <<>>
      /\ UNCHANGED <<spc, inEof, clientClosed, unsent, read, eof>>
  BY DEF ReadData, Reading, Alive, clientVars
<1>1. /\ toServer \in Bytes /\ Len(toServer) \in Nat /\ got \in Bytes /\ remaining \in Nat
      /\ Take(read, Stdin) \in Bytes /\ Skip(read, Stdin) \in Bytes
      /\ Take(read, Stdin) \o Skip(read, Stdin) = Stdin
  BY ToServerFacts
<1>2. PICK n : /\ n \in 0 .. Len(toServer) /\ n <= remaining
               /\ got' = got \o Take(n, toServer)
               /\ toServer' = Skip(n, toServer)
               /\ remaining' = remaining - n
  <2>1. PICK length \in ReadSizes :
          LET m == Min({remaining, length, Len(toServer)})
          IN  /\ ReadReturns(Take(m, toServer))
              /\ toServer' = Skip(m, toServer)
              /\ remaining' = remaining - m
    BY Zenon DEF ReadData
  <2> DEFINE m == Min({remaining, length, Len(toServer)})
  <2>2. m \in 0 .. Len(toServer) /\ m <= remaining
    BY ReadSize DEF TypeInv, TypeOK, NailTypeOK, InputTypes
  <2>3. /\ got' = got \o Take(m, toServer)
        /\ toServer' = Skip(m, toServer)
        /\ remaining' = remaining - m
    BY <2>1 DEF ReadReturns
  <2> HIDE DEF m
  <2> QED
    BY <2>2, <2>3
<1>3. n \in 0 .. Len(toServer) /\ n <= remaining
  BY <1>2
<1>4. /\ got' = got \o Take(n, toServer)
      /\ toServer' = Skip(n, toServer)
      /\ remaining' = remaining - n
  BY <1>2
<1>5. PICK cs \in Seq(WireChunk), rem \in Bytes, lost \in Bytes : ToServer(cs, rem, lost)
  BY <1>0, Zenon DEF InputInv, InputArrives
<1> DEFINE d == Stream(cs)
           P == Payload(CHUNKTYPE_STDIN, cs)
           t == Take(n, rem)
           k == Skip(n, rem)
<1>6. /\ toServer \o lost = rem \o d /\ Len(rem) = remaining
      /\ got \o (rem \o P) = Take(read, Stdin)
      /\ ~ clientClosed => lost = unsent
      /\ EndsOnce(cs, eof) /\ InputsOnly(cs)
  BY <1>0, <1>5 DEF ToServer
<1>7. d \in Bytes /\ P \in Bytes
  BY StreamType
<1>8. /\ n \in Nat /\ n <= Len(toServer) /\ n <= Len(rem) /\ n \in 0 .. Len(rem)
  BY <1>1, <1>3, <1>6
<1>9. t \in Bytes /\ k \in Bytes /\ t \o k = rem /\ Len(k) = Len(rem) - n
  BY <1>8, TakeSkip
<1> HIDE DEF d, P, t, k
<1>10. Advanced(n, toServer, lost, rem, d)
  BY <1>1, <1>6, <1>7, <1>8, Advance, Zenon
<1>11. Take(n, toServer) = t /\ toServer' \o lost = k \o d
  BY <1>4, <1>10, Zenon DEF Advanced, t, k
<1>12. (got \o t) \o (k \o P) = Take(read, Stdin) /\ k \o P \in Bytes /\ got \o t \in Bytes
  <2> DEFINE kP == k \o P
  <2>1. kP \in Bytes /\ got \o t \in Bytes
    BY <1>1, <1>7, <1>9, Concat
  <2>b. t \in Bytes /\ k \in Bytes /\ P \in Bytes /\ got \in Bytes
    BY <1>1, <1>7, <1>9
  <2>2. (t \o k) \o P = t \o (k \o P)
    BY <2>b, ConcatAssoc, Zenon
  <2> HIDE DEF kP
  <2>3. (got \o t) \o kP = got \o (t \o kP)
    BY <2>b, <2>1, ConcatAssoc, Zenon
  <2> QED
    BY <1>6, <1>9, <2>1, <2>2, <2>3, Zenon DEF kP
<1>13. got' = got \o t
  BY <1>4, <1>11, Zenon
<1>14. got' \o (k \o P) = Take(read, Stdin)
  BY <1>12, <1>13, Zenon
<1>15. Len(k) = remaining'
  BY <1>4, <1>6, <1>9
<1>16. ToServer(cs, k, lost)'
  BY <1>0, <1>6, <1>11, <1>14, <1>15 DEF ToServer, d, P
<1>17. InputArrives'
  BY <1>5, <1>9, <1>16, Zenon DEF InputArrives
<1>18. IsPrefix(got', Stdin)
  <2>1. IsPrefix(got', Take(read, Stdin))
    <3> DEFINE kP == k \o P
               g == got \o t
    <3>1. kP \in Bytes /\ g \in Bytes
      BY <1>12
    <3> HIDE DEF kP, g
    <3>2. IsPrefix(g, g \o kP)
      BY <3>1, PrefixIntro
    <3> QED
      BY <1>12, <1>13, <3>2, Zenon DEF kP, g
  <2> DEFINE T == Take(read, Stdin)
             S == Skip(read, Stdin)
  <2>2. T \in Bytes /\ S \in Bytes /\ got' \in Bytes
    BY <1>1, <1>12, <1>13
  <2>3. IsPrefix(got', T)
    BY <2>1
  <2> HIDE DEF T, S
  <2>4. IsPrefix(got', T \o S)
    BY <2>2, <2>3, PrefixExtend
  <2> QED
    BY <1>1, <2>4, Zenon DEF T, S
<1> QED
  BY <1>0, <1>17, <1>18 DEF InputInv, InputInOrder

(* Every step of the server.                                               *)
LEMMA InputInvServer ==
  ASSUME TypeInv, Ends, InputInv, ServerActions, UNCHANGED clientVars
  PROVE  InputInv'
<1>0. UNCHANGED <<unsent, read, eof>> /\ got \in Bytes
  BY ToServerFacts DEF clientVars
<1>1. CASE StreamActions
  BY <1>0, <1>1, StreamFrame, InputUntouched
<1>2. CASE CloseActions
  <2>1. UNCHANGED <<inputVars, clientClosed>> /\ spc' \notin {"request", "nail"}
    BY <1>2, CloseFrame
  <2> QED
    BY <1>0, <2>1 DEF InputInv, InputInOrder, inputVars
<1>3. CASE AbandonRequest
  <2>1. UNCHANGED <<inputVars, clientClosed>> /\ spc' = "abandoned"
    BY <1>3 DEF AbandonRequest
  <2> QED
    BY <1>0, <2>1 DEF InputInv, InputInOrder, inputVars
<1>4. CASE ReadCut
  <2>1. /\ toServer = <<>> /\ clientClosed /\ UNCHANGED <<toServer, clientClosed, inEof>>
        /\ got' = got \o <<>>
    BY <1>4 DEF ReadCut, socketVars, ReadReturns
  <2>2. UNCHANGED got
    BY <1>0, <2>1, ConcatEmpty
  <2>3. InputArrives'
    BY <2>1, Zenon DEF InputArrives
  <2> QED
    BY <1>0, <2>1, <2>2, <2>3 DEF InputInv, InputInOrder
<1>5. CASE ReadEof
  <2>1. inEof /\ UNCHANGED <<clientClosed, inEof>> /\ got' = got \o <<>>
    BY <1>5 DEF ReadEof, Reading, socketVars, ReadReturns
  <2>2. UNCHANGED got
    BY <1>0, <2>1, ConcatEmpty
  <2> QED
    BY <1>0, <2>1, <2>2 DEF InputInv, InputInOrder
<1>6. CASE ReadFails
  <2>1. /\ toServer' = <<>> /\ clientClosed /\ UNCHANGED <<clientClosed, inEof>>
        /\ got' = got \o <<>>
    BY <1>6 DEF ReadFails, ReadReturns
  <2>2. UNCHANGED got
    BY <1>0, <2>1, ConcatEmpty
  <2>3. InputArrives'
    BY <2>1, Zenon DEF InputArrives
  <2> QED
    BY <1>0, <2>1, <2>2, <2>3 DEF InputInv, InputInOrder
<1> QED
  BY <1>1, <1>2, <1>3, <1>4, <1>5, <1>6, ServerActionKinds, ReadRequestKeepsInput,
     ReadHeaderKeepsInput, ReadDataKeepsInput DEF ReadActions

(* InputInv is inductive where types and control are as they should be.    *)
LEMMA InputInvStep == TypeInv /\ Control /\ InputInv /\ [Next]_vars => InputInv'
<1> SUFFICES ASSUME TypeInv, Control, InputInv, [Next]_vars PROVE InputInv'
  OBVIOUS
<1>0. Ends
  BY DEF Control
<1>1. CASE UNCHANGED vars
  BY <1>1, InputUntouched DEF vars, socketVars, clientVars, nailVars
<1> QED
  BY <1>0, <1>1, Sides, InputInvClient, InputInvServer

-----------------------------------------------------------------------------
(* What is on its way to the client: the rest of a chunk, whole chunks of  *)
(* output, and, when the answer is given, the exit chunk and whatever      *)
(* comes after it; `lost` is what has not entered the stream or never will.*)

Unwritten == IF holder = NoThread THEN <<>> ELSE pending[holder]

Ending(text, after) ==
  IF ~answer.given THEN <<>>
  ELSE IF cpc = "processExit" THEN text \o after
  ELSE Chunk(CHUNKTYPE_EXIT, text) \o after

Due(s) == IF answer.given THEN answer.due[s] ELSE written[s]

InChunk(s, rem) == IF cpc = "recvToFD" /\ s = chunk.type THEN rem ELSE <<>>

(* The session has written its answer, and no reset has taken it back.     *)
Answered == \/ ~serverClosed /\ phase[Session] = "answered" /\ printing[Session] = <<>>
            \/ spc = "closed" /\ ~reset

ToClient(cs, rem, text, after, lost) ==
  /\ toClient \o lost = rem \o (Stream(cs) \o Ending(text, after))
  /\ \A i \in 1 .. Len(cs) : cs[i].type \in Outputs
  /\ cpc = "recvToFD" => Len(rem) = chunk.len - chunk.bytesRead
  /\ cpc # "recvToFD" => rem = <<>>
  /\ \A s \in Outputs : copied[s] \o (InChunk(s, rem) \o Payload(s, cs)) = Due(s)
  /\ answer.given => Len(text) \in 1 .. 3 /\ atoi(text) = answer.status
  /\ cpc = "processExit" => answer.given /\ cs = <<>> /\ chunk.len = Len(text)
  /\ ~serverClosed => lost = Unwritten
  /\ Answered => answer.given /\ Len(lost) <= Len(after)

(* Or a reset has ended the stream within a chunk.                         *)
Cut == cpc = "select" /\ toClient = <<>> /\ serverClosed /\ reset

OutputArrives ==
  \/ Cut
  \/ \E cs \in Seq(WireChunk), rem \in Bytes, text \in Bytes, after \in Bytes, lost \in Bytes :
       ToClient(cs, rem, text, after, lost)

OutputInOrder == \A s \in Outputs :
  /\ IsPrefix(copied[s], written[s])
  /\ answer.given => IsPrefix(answer.due[s], written[s])

OutputInv == /\ OutputInOrder
             /\ cpc # "ended" => OutputArrives
             /\ AnswerIsTrue

(* The types the provers need.                                             *)
LEMMA ToClientFacts ==
  ASSUME TypeInv, PrintInv
  PROVE  /\ toClient \in Bytes /\ Len(toClient) \in Nat
         /\ Unwritten \in Bytes
         /\ pending \in [Threads -> Bytes]
         /\ printing \in [Threads -> Seq(PrintCall)]
         /\ Session \in Threads /\ NoThread \notin Threads
         /\ copied \in [Outputs -> Bytes] /\ written \in [Outputs -> Bytes]
         /\ \A s \in Outputs : /\ copied[s] \in Bytes /\ written[s] \in Bytes
                               /\ answer.due[s] \in Bytes /\ Due(s) \in Bytes
         /\ answer.due \in [Outputs -> Bytes]
         /\ clientClosed \in BOOLEAN /\ serverClosed \in BOOLEAN /\ reset \in BOOLEAN
<1>1. /\ toClient \in Bytes /\ holder \in Threads \cup {NoThread}
      /\ pending \in [Threads -> Bytes] /\ copied \in [Outputs -> Bytes]
      /\ written \in [DOMAIN Texts -> Bytes]
      /\ answer \in [given : BOOLEAN, status : Nat, due : [DOMAIN Texts -> Bytes]]
      /\ clientClosed \in BOOLEAN /\ serverClosed \in BOOLEAN /\ reset \in BOOLEAN
  BY DEF TypeInv, TypeOK, SocketTypeOK, ClientTypeOK, NailTypeOK
<1>2. printing \in [Threads -> Seq(PrintCall)]
  BY DEF PrintInv, PrintTypes
<1>3. DOMAIN Texts = Outputs /\ Session \in Threads /\ NoThread \notin Threads
  BY PrintableTexts
<1>4. answer.due \in [Outputs -> Bytes] /\ written \in [Outputs -> Bytes]
  BY <1>1, <1>3
<1>5. \A s \in Outputs : /\ copied[s] \in Bytes /\ written[s] \in Bytes
                         /\ answer.due[s] \in Bytes
  BY <1>1, <1>4
<1>6. \A s \in Outputs : Due(s) \in Bytes
  BY <1>5 DEF Due
<1>7. Unwritten \in Bytes
  BY <1>1, EmptyBytes DEF Unwritten
<1>8. Len(toClient) \in Nat
  BY <1>1, Concat
<1> QED
  BY <1>1, <1>2, <1>3, <1>4, <1>5, <1>6, <1>7, <1>8

(* What is under way to the client are bytes.                              *)
LEMMA EndingType ==
  ASSUME NEW cs \in Seq(WireChunk), NEW rem \in Bytes, NEW text \in Bytes,
         NEW after \in Bytes, NEW lost \in Bytes, ToClient(cs, rem, text, after, lost)
  PROVE  /\ Stream(cs) \in Bytes /\ Ending(text, after) \in Bytes
         /\ Stream(cs) \o Ending(text, after) \in Bytes
         /\ \A s \in Outputs : /\ Payload(s, cs) \in Bytes /\ InChunk(s, rem) \in Bytes
                               /\ InChunk(s, rem) \o Payload(s, cs) \in Bytes
<1>1. Stream(cs) \in Bytes /\ \A s \in Outputs : Payload(s, cs) \in Bytes
  BY StreamType
<1>2. answer.given => [type |-> CHUNKTYPE_EXIT, text |-> text] \in WireChunk
  <2>1. answer.given => Len(text) <= MaxInt
    <3>1. answer.given => Len(text) \in 1 .. 3
      BY Zenon DEF ToClient
    <3>2. \A k \in 1 .. 3 : k <= MaxInt
      BY MaxIntIsLarge
    <3> QED
      BY <3>1, <3>2, Zenon
  <2>2. CHUNKTYPE_EXIT \in Byte
    BY DEF CHUNKTYPE_EXIT, Byte
  <2> QED
    BY <2>1, <2>2 DEF WireChunk
<1> DEFINE whole == Chunk(CHUNKTYPE_EXIT, text)
<1>3. answer.given => whole \in Bytes
  <2> DEFINE c == [type |-> CHUNKTYPE_EXIT, text |-> text]
  <2>1. c.type = CHUNKTYPE_EXIT /\ c.text = text
    OBVIOUS
  <2>2. answer.given => c \in WireChunk
    BY <1>2
  <2> HIDE DEF c
  <2>3. answer.given => Chunk(c.type, c.text) \in Bytes
    BY <2>2, ChunkParts
  <2> QED
    BY <2>1, <2>3
<1> HIDE DEF whole
<1>4. text \o after \in Bytes /\ (answer.given => whole \o after \in Bytes)
  BY <1>3, Concat
<1>5. Ending(text, after) \in Bytes
  BY <1>4, EmptyBytes DEF Ending, whole
<1>6. \A s \in Outputs : InChunk(s, rem) \in Bytes
  BY EmptyBytes DEF InChunk
<1>7. ASSUME NEW s \in Outputs PROVE InChunk(s, rem) \o Payload(s, cs) \in Bytes
  BY <1>1, <1>6, Concat
<1>8. Stream(cs) \o Ending(text, after) \in Bytes
  BY <1>1, <1>5, Concat
<1> QED
  BY <1>1, <1>5, <1>6, <1>7, <1>8

(* What is copied is at the front of what is due.                          *)
LEMMA FrontOfDue ==
  ASSUME NEW front \in Bytes, NEW more \in Bytes, NEW due \in Bytes, NEW all \in Bytes,
         front \o more = due, IsPrefix(due, all)
  PROVE  IsPrefix(front, all)
<1>1. PICK u \in Bytes : all = due \o u
  BY PrefixElim
<1>2. IsPrefix(front, front \o more)
  BY PrefixIntro
<1>3. IsPrefix(front, due)
  BY <1>2, Zenon
<1>4. IsPrefix(front, due \o u)
  BY <1>3, PrefixExtend
<1> QED
  BY <1>1, <1>4, Zenon

(* Output that is due before the answer has been written.                  *)
LEMMA DueIsWritten ==
  ASSUME TypeInv, PrintInv, OutputInOrder, NEW s \in Outputs
  PROVE  IsPrefix(Due(s), written[s])
<1>1. CASE answer.given
  BY <1>1, Zenon DEF Due, OutputInOrder
<1>2. CASE ~ answer.given
  <2>1. written[s] \in Bytes /\ <<>> \in Bytes
    BY ToClientFacts, EmptyBytes
  <2>2. IsPrefix(written[s], written[s] \o <<>>)
    BY <2>1, PrefixIntro
  <2>3. written[s] \o <<>> = written[s]
    BY <2>1, ConcatEmpty
  <2> QED
    BY <1>2, <2>2, <2>3, Zenon DEF Due
<1> QED
  BY <1>1, <1>2

(* Once the client has ended, its answer stays.                            *)
LEMMA AnswerIsTrueStays ==
  ASSUME AnswerIsTrue, UNCHANGED clientVars, spc = "dead" => spc' = "dead",
         reset => reset', answer.given => answer' = answer
  PROVE  AnswerIsTrue'
<1>1. UNCHANGED <<cpc, exit, copied>>
  BY DEF clientVars
<1> QED
  BY <1>1, Zenon DEF AnswerIsTrue

(* The server does not change what the client has ended with.              *)
LEMMA ServerKeepsAnswer ==
  ASSUME AnswerIsTrue, PrintInv, ServerActions, UNCHANGED clientVars
  PROVE  AnswerIsTrue'
<1>1. answer.given => answer' = answer
  <2>1. CASE UNCHANGED <<written, answer>>
    BY <2>1
  <2>2. ASSUME NEW t \in Threads, BeginWrite(t) PROVE answer.given => answer' = answer
    BY <2>2, RecordsExit DEF BeginWrite
  <2> QED
    BY <2>1, <2>2, AnswerStays
<1>2. (spc = "dead" => spc' = "dead") /\ (reset => reset')
  <2>1. CASE StreamActions
    BY <2>1, StreamFrame
  <2>2. CASE ReadActions
    BY <2>2, ReadFrame
  <2>3. CASE CloseActions
    <3>1. spc = "dead" => spc' = "dead"
      BY <2>3, CloseFrame
    <3>2. UNCHANGED reset \/ reset' = TRUE
      BY <2>3, CloseFrame, Zenon DEF Reset
    <3>3. reset' = TRUE => reset'
      OBVIOUS
    <3>4. UNCHANGED reset => (reset => reset')
      OBVIOUS
    <3> QED
      BY <3>1, <3>2, <3>3, <3>4
  <2> QED
    BY <2>1, <2>2, <2>3, ServerActionKinds
<1> QED
  BY <1>1, <1>2, AnswerIsTrueStays

(* A step of the server that puts nothing into the stream.                 *)
LEMMA OutputUntouched ==
  ASSUME OutputInv, UNCHANGED clientVars,
         UNCHANGED <<toClient, written, answer, serverClosed, reset>>,
         cpc # "ended" /\ ~ serverClosed => Unwritten' = Unwritten,
         Answered' => Answered
  PROVE  OutputInOrder' /\ (cpc' # "ended" => OutputArrives')
<1>1. UNCHANGED <<cpc, chunk, copied>>
  BY DEF clientVars
<1>2. \A text, after : Ending(text, after)' = Ending(text, after)
  BY <1>1 DEF Ending
<1>3. /\ \A s : Due(s)' = Due(s)
      /\ \A s, rem : InChunk(s, rem)' = InChunk(s, rem)
  BY <1>1 DEF Due, InChunk
<1>4. ASSUME cpc # "ended",
             NEW cs \in Seq(WireChunk), NEW rem \in Bytes, NEW text \in Bytes,
             NEW after \in Bytes, NEW lost \in Bytes, ToClient(cs, rem, text, after, lost)
      PROVE  OutputArrives'
  <2>1. ToClient(cs, rem, text, after, lost)'
    BY <1>1, <1>2, <1>3, <1>4, Zenon DEF ToClient
  <2> QED
    BY <2>1, Zenon DEF OutputArrives
<1>5. Cut => OutputArrives'
  BY <1>1 DEF Cut, OutputArrives
<1>6. cpc # "ended" /\ OutputArrives => OutputArrives'
  BY <1>4, <1>5, Zenon DEF OutputArrives
<1>7. OutputInOrder'
  BY <1>1 DEF OutputInv, OutputInOrder
<1> QED
  BY <1>1, <1>6, <1>7 DEF OutputInv

(* write() begins: the chunk is what is still to put into the stream.      *)
LEMMA RecordsKinds ==
  ASSUME NEW t, Records(t), NEW c, c = Head(printing[t]), c.type \in Types
  PROVE  \/ /\ c.type \in Outputs /\ c.type # CHUNKTYPE_EXIT /\ UNCHANGED answer
            /\ written' = [written EXCEPT ![c.type] = @ \o c.text]
         \/ /\ c.type = CHUNKTYPE_EXIT /\ c.type \notin Outputs
            /\ answer.given /\ UNCHANGED <<answer, written>>
         \/ /\ c.type = CHUNKTYPE_EXIT /\ c.type \notin Outputs
            /\ ~ answer.given /\ UNCHANGED written
            /\ answer'.given /\ answer'.status = atoi(c.text) /\ answer'.due = written
<1>1. CHUNKTYPE_EXIT \notin Outputs /\ c.type \in Outputs \cup {CHUNKTYPE_EXIT}
  BY PrintableTexts DEF Types, Outputs, CHUNKTYPE_EXIT, CHUNKTYPE_STDOUT, CHUNKTYPE_STDERR
<1> DEFINE first == [given |-> TRUE, status |-> atoi(c.text), due |-> written]
<1>2. first.given /\ first.status = atoi(c.text) /\ first.due = written
  BY Zenon
<1>3. \/ /\ c.type = CHUNKTYPE_EXIT /\ UNCHANGED written
         /\ answer' = IF answer.given THEN answer ELSE first
      \/ /\ c.type # CHUNKTYPE_EXIT /\ UNCHANGED answer
         /\ written' = [written EXCEPT ![c.type] = @ \o c.text]
  BY Zenon DEF Records
<1> HIDE DEF first
<1> QED
  BY <1>1, <1>2, <1>3, Zenon

(* Bytes added to what was lost are added at the end of the stream.        *)
Grown(cs, rem, text, after, lost, bytes) ==
  toClient \o (lost \o bytes) = rem \o (Stream(cs) \o (Ending(text, after) \o bytes))

(* A chunk of output that is written after the others ...                  *)
LEMMA StreamGrows ==
  ASSUME NEW cs \in Seq(WireChunk), NEW rem \in Bytes, NEW text \in Bytes,
         NEW after \in Bytes, NEW lost \in Bytes, ToClient(cs, rem, text, after, lost),
         toClient \in Bytes, NEW bytes \in Bytes
  PROVE  Grown(cs, rem, text, after, lost, bytes)
<1> DEFINE S == Stream(cs)
           E == Ending(text, after)
           SE == S \o E
           Eb == E \o bytes
<1>1. S \in Bytes /\ E \in Bytes /\ SE \in Bytes
  BY EndingType
<1>2. toClient \o lost = rem \o SE
  BY DEF ToClient
<1>3. (toClient \o lost) \o bytes = toClient \o (lost \o bytes)
  BY ConcatAssoc, Zenon
<1> HIDE DEF S, E, SE
<1>4. Assoc(rem, SE, bytes) /\ Assoc(S, E, bytes)
  BY <1>1, Associates, Zenon
<1> QED
  BY <1>2, <1>3, <1>4, Zenon DEF S, E, SE, Assoc, Grown

Longer(text, after, bytes) == Ending(text, after) \o bytes = Ending(text, after \o bytes)

(* ... or after the answer, where no one reads it.                         *)
LEMMA EndingGrows ==
  ASSUME NEW cs \in Seq(WireChunk), NEW rem \in Bytes, NEW text \in Bytes,
         NEW after \in Bytes, NEW lost \in Bytes, ToClient(cs, rem, text, after, lost),
         NEW bytes \in Bytes, answer.given
  PROVE  Longer(text, after, bytes)
<1> DEFINE c == [type |-> CHUNKTYPE_EXIT, text |-> text]
           whole == Chunk(CHUNKTYPE_EXIT, text)
<1>1. c.type = CHUNKTYPE_EXIT /\ c.text = text
  OBVIOUS
<1>2. c \in WireChunk
  <2>1. Len(text) \in 1 .. 3
    BY Zenon DEF ToClient
  <2>2. Len(text) <= MaxInt
    <3>1. \A k \in 1 .. 3 : k <= MaxInt
      BY MaxIntIsLarge
    <3> QED
      BY <2>1, <3>1, Zenon
  <2>3. CHUNKTYPE_EXIT \in Byte
    BY DEF CHUNKTYPE_EXIT, Byte
  <2> QED
    BY <2>2, <2>3 DEF WireChunk
<1> HIDE DEF c
<1>3. Chunk(c.type, c.text) \in Bytes
  BY <1>2, ChunkParts
<1>4. whole \in Bytes
  BY <1>1, <1>3
<1> HIDE DEF whole
<1>5. (whole \o after) \o bytes = whole \o (after \o bytes)
  BY <1>4, ConcatAssoc, Zenon
<1>6. (text \o after) \o bytes = text \o (after \o bytes)
  BY ConcatAssoc, Zenon
<1> QED
  BY <1>5, <1>6, Zenon DEF Ending, Longer, whole

(* write() has begun to write c.                                           *)
Begun(t, c) ==
  /\ UNCHANGED clientVars
  /\ UNCHANGED <<toClient, serverClosed, reset, spc, phase, printing>>
  /\ printing[t] # <<>> /\ c = Head(printing[t])
  /\ Unwritten = <<>> /\ Unwritten' = Chunk(c.type, c.text)
  /\ Records(t)

(* A thread that begins to write has one chunk to write.                   *)
LEMMA WriteBegun ==
  ASSUME TypeInv, PrintInv, NEW t \in Threads, BeginWrite(t), UNCHANGED clientVars
  PROVE  \E c \in WireChunk :
           Begun(t, c) /\ c.type \in Types /\ c.text \in Printed(c.type)
<1>1. PICK c : c = Head(printing[t])
  OBVIOUS
<1>2. /\ printing[t] # <<>> /\ holder = NoThread /\ holder' = t /\ Records(t)
      /\ pending' = [pending EXCEPT ![t] = Chunk(c.type, c.text)]
      /\ UNCHANGED <<toClient, serverClosed, reset, spc, phase, printing>>
  BY <1>1, ChunkOfFilled DEF BeginWrite, HeadChunk, socketVars
<1>3. c \in WireChunk /\ c.type \in Types /\ c.text \in Printed(c.type)
  BY <1>1, <1>2, HeadToWrite
<1>4. pending \in [Threads -> Bytes] /\ NoThread \notin Threads
  BY ToClientFacts
<1>5. holder' # NoThread /\ pending'[holder'] = Chunk(c.type, c.text)
  BY <1>2, <1>4
<1>6. Unwritten = <<>> /\ Unwritten' = Chunk(c.type, c.text)
  BY <1>2, <1>5 DEF Unwritten
<1> QED
  BY <1>1, <1>2, <1>3, <1>6 DEF Begun

(* What beginning to write changes.                                        *)
LEMMA BegunFrame ==
  ASSUME NEW t, NEW c, Begun(t, c)
  PROVE  /\ UNCHANGED <<cpc, chunk, copied>>
         /\ Answered' = Answered
         /\ \A s, rem : InChunk(s, rem)' = InChunk(s, rem)
         /\ Cut => Cut'
         /\ UNCHANGED <<toClient, serverClosed>>
<1>1. UNCHANGED <<cpc, chunk, copied, toClient, serverClosed, reset, spc, phase, printing>>
  BY DEF Begun, clientVars
<1> QED
  BY <1>1 DEF Answered, InChunk, Cut

(* A chunk of output before the answer.                                    *)
LEMMA OutputWritten ==
  ASSUME TypeInv, PrintInv, NEW t, NEW c \in WireChunk, Begun(t, c),
         c.type \in Outputs, UNCHANGED answer, ~ answer.given,
         written' = [written EXCEPT ![c.type] = @ \o c.text],
         NEW cs \in Seq(WireChunk), NEW rem \in Bytes, NEW text \in Bytes,
         NEW after \in Bytes, NEW lost \in Bytes, ToClient(cs, rem, text, after, lost)
  PROVE  OutputArrives'
<1> DEFINE bytes == Chunk(c.type, c.text)
           long == Append(cs, c)
           more == lost \o bytes
<1>1. /\ bytes \in Bytes /\ toClient \in Bytes
      /\ \A s \in Outputs : copied[s] \in Bytes /\ written[s] \in Bytes
      /\ written \in [Outputs -> Bytes]
  BY ChunkParts, ToClientFacts
<1>2. more \in Bytes
  BY <1>1, Concat
<1>3. long \in Seq(WireChunk) /\ Stream(long) = Stream(cs) \o bytes /\ Stream(long) \in Bytes
  BY StreamAppend, StreamType
<1>4. Ending(text, after) = <<>> /\ Ending(text, after)' = <<>>
  BY DEF Ending
<1> HIDE DEF bytes
<1>5. toClient' \o more = rem \o (Stream(long) \o Ending(text, after)')
  <2>1. toClient \o more = rem \o (Stream(cs) \o (Ending(text, after) \o bytes))
    <3>1. Grown(cs, rem, text, after, lost, bytes)
      BY <1>1, StreamGrows, Zenon
    <3> QED
      BY <3>1, Zenon DEF Grown
  <2>2. <<>> \o bytes = bytes /\ Stream(long) \o <<>> = Stream(long)
    BY <1>1, <1>3, ConcatEmpty
  <2>3. toClient' = toClient
    BY BegunFrame
  <2> HIDE DEF long, more
  <2> QED
    BY <1>3, <1>4, <2>1, <2>2, <2>3, Zenon
<1>6. \A i \in 1 .. Len(long) : long[i].type \in Outputs
  <2>1. /\ long[Len(cs) + 1] = c /\ \A i \in 1 .. Len(cs) : long[i] = cs[i]
        /\ Len(long) = Len(cs) + 1 /\ Len(cs) \in Nat
    BY AppendProperties, LenProperties
  <2> HIDE DEF long
  <2>2. \A i \in 1 .. Len(long) : i \in 1 .. Len(cs) \/ i = Len(cs) + 1
    BY <2>1
  <2>3. \A i \in 1 .. Len(cs) : cs[i].type \in Outputs
    BY Zenon DEF ToClient
  <2> QED
    BY <2>1, <2>2, <2>3
<1>7. ASSUME NEW s \in Outputs
      PROVE  copied'[s] \o (InChunk(s, rem)' \o Payload(s, long)) = Due(s)'
  <2> DEFINE P == Payload(s, cs)
             I == InChunk(s, rem)
             o == Of(s, c)
             IP == I \o P
  <2>1. P \in Bytes /\ I \in Bytes /\ IP \in Bytes /\ o \in Bytes /\ copied[s] \in Bytes
    BY <1>1, EndingType, OfType
  <2>2. Payload(s, long) = P \o o
    BY StreamAppend
  <2>3. copied[s] \o IP = written[s]
    BY Zenon DEF ToClient, Due
  <2>4. Due(s)' = written'[s]
    BY Zenon DEF Due
  <2>5. written'[s] = written[s] \o o
    <3>1. CASE s = c.type
      BY <1>1, <3>1, Zenon DEF Of
    <3>2. CASE s # c.type
      <4>1. written'[s] = written[s]
        BY <1>1, <3>2
      <4>2. o = <<>>
        BY <3>2, Zenon DEF Of
      <4> QED
        BY <1>1, <4>1, <4>2, ConcatEmpty
    <3> QED
      BY <3>1, <3>2
  <2>6. copied'[s] = copied[s] /\ InChunk(s, rem)' = I
    BY BegunFrame
  <2> HIDE DEF long, P, I, o, IP
  <2>7. Assoc(I, P, o) /\ Assoc(copied[s], IP, o)
    BY <2>1, Associates, Zenon
  <2> QED
    BY <2>2, <2>3, <2>4, <2>5, <2>6, <2>7, Zenon DEF IP, Assoc
<1>8. ~ serverClosed' => more = Unwritten'
  <2>1. ~ serverClosed => lost = <<>>
    BY Zenon DEF ToClient, Begun
  <2>2. <<>> \o bytes = bytes /\ Unwritten' = bytes
    BY <1>1, ConcatEmpty DEF Begun, bytes
  <2> QED
    BY <2>1, <2>2, BegunFrame
<1> HIDE DEF long, more
<1>9. ToClient(long, rem, text, after, more)'
  <2>1. /\ cpc = "recvToFD" => Len(rem) = chunk.len - chunk.bytesRead
        /\ cpc # "recvToFD" => rem = <<>>
        /\ cpc # "processExit" /\ ~ Answered
    BY Zenon DEF ToClient
  <2> QED
    BY <1>5, <1>6, <1>7, <1>8, <2>1, BegunFrame, Zenon DEF ToClient
<1> QED
  BY <1>2, <1>3, <1>9, Zenon DEF OutputArrives, long, more

(* A chunk after the answer.                                               *)
LEMMA MoreWritten ==
  ASSUME TypeInv, PrintInv, NEW t, NEW c \in WireChunk, Begun(t, c),
         UNCHANGED answer, answer.given,
         NEW cs \in Seq(WireChunk), NEW rem \in Bytes, NEW text \in Bytes,
         NEW after \in Bytes, NEW lost \in Bytes, ToClient(cs, rem, text, after, lost)
  PROVE  OutputArrives'
<1> DEFINE bytes == Chunk(c.type, c.text)
           more == lost \o bytes
           later == after \o bytes
<1>1. bytes \in Bytes /\ toClient \in Bytes
  BY ChunkParts, ToClientFacts
<1>2. /\ more \in Bytes /\ Len(more) = Len(lost) + Len(bytes) /\ Len(lost) \in Nat
      /\ later \in Bytes /\ Len(later) = Len(after) + Len(bytes) /\ Len(after) \in Nat
      /\ Len(bytes) \in Nat
  BY <1>1, Concat
<1> HIDE DEF bytes
<1>3. Ending(text, after) \o bytes = Ending(text, later)
  <2>1. Longer(text, after, bytes)
    BY <1>1, EndingGrows, Zenon
  <2> QED
    BY <2>1, Zenon DEF Longer
<1>4. toClient \o more = rem \o (Stream(cs) \o Ending(text, later))
  <2>1. Grown(cs, rem, text, after, lost, bytes)
    BY <1>1, StreamGrows, Zenon
  <2> QED
    BY <1>3, <2>1, Zenon DEF Grown
<1> HIDE DEF more, later
<1>5. /\ Ending(text, later)' = Ending(text, later)
      /\ \A s : Due(s)' = Due(s)
  BY BegunFrame, Zenon DEF Ending, Due
<1>6. ~ serverClosed' => more = Unwritten'
  <2>1. ~ serverClosed => lost = <<>>
    BY Zenon DEF ToClient, Begun
  <2>2. <<>> \o bytes = bytes /\ Unwritten' = bytes
    BY <1>1, ConcatEmpty DEF Begun, bytes
  <2> QED
    BY <2>1, <2>2, BegunFrame, Zenon DEF more
<1>7. Answered' => answer'.given /\ Len(more) <= Len(later)
  <2>1. Answered => Len(lost) <= Len(after)
    BY Zenon DEF ToClient
  <2>2. Len(lost) <= Len(after) => Len(more) <= Len(later)
    BY <1>2
  <2> QED
    BY <2>1, <2>2, BegunFrame, Zenon
<1>8. ToClient(cs, rem, text, later, more)'
  BY <1>4, <1>5, <1>6, <1>7, BegunFrame, Zenon DEF ToClient
<1> QED
  BY <1>2, <1>8, Zenon DEF OutputArrives

(* The first exit chunk.                                                   *)
LEMMA AnswerWritten ==
  ASSUME TypeInv, PrintInv, NEW t, NEW c \in WireChunk, Begun(t, c),
         c.type = CHUNKTYPE_EXIT, c.text \in Printed(CHUNKTYPE_EXIT),
         ~ answer.given, UNCHANGED written,
         answer'.given, answer'.status = atoi(c.text), answer'.due = written,
         NEW cs \in Seq(WireChunk), NEW rem \in Bytes, NEW text \in Bytes,
         NEW after \in Bytes, NEW lost \in Bytes, ToClient(cs, rem, text, after, lost)
  PROVE  OutputArrives'
<1> DEFINE bytes == Chunk(c.type, c.text)
           more == lost \o bytes
<1>1. bytes \in Bytes /\ toClient \in Bytes
  BY ChunkParts, ToClientFacts
<1>2. more \in Bytes /\ c.text \in Bytes
  BY <1>1, ChunkParts, Concat
<1>3. Ending(text, after) = <<>> /\ cpc # "processExit" /\ ~ Answered
  BY Zenon DEF Ending, ToClient
<1> HIDE DEF bytes
<1>4. Ending(c.text, <<>>)' = bytes
  <2>1. Ending(c.text, <<>>)' = Chunk(CHUNKTYPE_EXIT, c.text) \o <<>>
    BY <1>3, BegunFrame, Zenon DEF Ending
  <2>2. bytes \o <<>> = bytes
    BY <1>1, ConcatEmpty
  <2> QED
    BY <2>1, <2>2, Zenon DEF bytes
<1>5. toClient \o more = rem \o (Stream(cs) \o Ending(c.text, <<>>)')
  <2>1. Grown(cs, rem, text, after, lost, bytes)
    BY <1>1, StreamGrows, Zenon
  <2>2. <<>> \o bytes = bytes
    BY <1>1, ConcatEmpty
  <2> QED
    BY <1>3, <1>4, <2>1, <2>2, Zenon DEF Grown
<1> HIDE DEF more
<1>6. \A s : Due(s)' = Due(s)
  BY Zenon DEF Due
<1>7. ~ serverClosed' => more = Unwritten'
  <2>1. ~ serverClosed => lost = <<>>
    BY Zenon DEF ToClient, Begun
  <2>2. <<>> \o bytes = bytes /\ Unwritten' = bytes
    BY <1>1, ConcatEmpty DEF Begun, bytes
  <2> QED
    BY <2>1, <2>2, BegunFrame, Zenon DEF more
<1>8. Len(c.text) \in 1 .. 3
  <2>1. Len(c.text) \in 1 .. MaxInt /\ Len(c.text) <= 3
    BY Zenon DEF Printed
  <2>2. \A k \in 1 .. MaxInt : k <= 3 => k \in 1 .. 3
    BY MaxIntIsLarge
  <2> QED
    BY <2>1, <2>2, Zenon
<1>9. ToClient(cs, rem, c.text, <<>>, more)'
  BY <1>3, <1>5, <1>6, <1>7, <1>8, BegunFrame, Zenon DEF ToClient
<1> QED
  BY <1>2, <1>9, EmptyBytes, Zenon DEF OutputArrives

(* The chunk goes to the end of what is under way.                         *)
LEMMA BeginWriteKeepsOutput ==
  ASSUME TypeInv, PrintInv, OutputInv, NEW t \in Threads, BeginWrite(t),
         UNCHANGED clientVars
  PROVE  OutputInOrder' /\ (cpc' # "ended" => OutputArrives')
<1>1. PICK c \in WireChunk : Begun(t, c) /\ c.type \in Types /\ c.text \in Printed(c.type)
  BY WriteBegun
<1>2. Records(t) /\ c = Head(printing[t])
  BY <1>1 DEF Begun
<1>3. /\ UNCHANGED <<cpc, copied>> /\ (Cut => Cut')
      /\ \A s \in Outputs : copied[s] \in Bytes /\ written[s] \in Bytes
      /\ written \in [Outputs -> Bytes]
  BY <1>1, BegunFrame, ToClientFacts
<1>4. CASE /\ c.type \in Outputs /\ c.type # CHUNKTYPE_EXIT /\ UNCHANGED answer
           /\ written' = [written EXCEPT ![c.type] = @ \o c.text]
  <2>1. ASSUME NEW cs \in Seq(WireChunk), NEW rem \in Bytes, NEW text \in Bytes,
               NEW after \in Bytes, NEW lost \in Bytes, ToClient(cs, rem, text, after, lost)
        PROVE  OutputArrives'
    <3>1. CASE answer.given
      BY <1>1, <1>4, <2>1, <3>1, MoreWritten
    <3>2. CASE ~ answer.given
      BY <1>1, <1>4, <2>1, <3>2, OutputWritten
    <3> QED
      BY <3>1, <3>2
  <2>2. Cut => OutputArrives'
    BY <1>3, Zenon DEF OutputArrives
  <2>3. cpc # "ended" => OutputArrives
    BY DEF OutputInv
  <2>4. cpc' # "ended" => OutputArrives'
    BY <1>3, <2>1, <2>2, <2>3, Zenon DEF OutputArrives
  <2>5. ASSUME NEW s \in Outputs
        PROVE  /\ IsPrefix(copied[s], written[s]) => IsPrefix(copied[s], written'[s])
               /\ answer.given /\ IsPrefix(answer.due[s], written[s])
                    => IsPrefix(answer.due[s], written'[s])
    <3>1. CASE s = c.type
      <4>1. c.text \in Bytes /\ written'[s] = written[s] \o c.text
        BY <1>3, <1>4, <3>1, ChunkParts, Zenon
      <4>2. written[s] \in Bytes /\ copied[s] \in Bytes /\ answer.due[s] \in Bytes
        BY ToClientFacts
      <4>3. ASSUME NEW a \in Bytes, IsPrefix(a, written[s]) PROVE IsPrefix(a, written'[s])
        <5>1. IsPrefix(a, written[s] \o c.text)
          BY <4>1, <4>2, <4>3, PrefixExtend
        <5> QED
          BY <4>1, <5>1, Zenon
      <4> QED
        BY <4>2, <4>3
    <3>2. CASE s # c.type
      <4>1. written'[s] = written[s]
        BY <1>3, <1>4, <3>2
      <4> QED
        BY <4>1, Zenon
    <3> QED
      BY <3>1, <3>2
  <2>6. OutputInOrder'
    BY <1>3, <1>4, <2>5, Zenon DEF OutputInv, OutputInOrder
  <2> QED
    BY <2>4, <2>6
<1>5. CASE answer.given /\ UNCHANGED <<answer, written>>
  <2>1. ASSUME NEW cs \in Seq(WireChunk), NEW rem \in Bytes, NEW text \in Bytes,
               NEW after \in Bytes, NEW lost \in Bytes, ToClient(cs, rem, text, after, lost)
        PROVE  OutputArrives'
    BY <1>1, <1>5, <2>1, MoreWritten
  <2>2. Cut => OutputArrives'
    BY <1>3, Zenon DEF OutputArrives
  <2>3. cpc # "ended" => OutputArrives
    BY DEF OutputInv
  <2>4. cpc' # "ended" => OutputArrives'
    BY <1>3, <2>1, <2>2, <2>3, Zenon DEF OutputArrives
  <2> QED
    BY <1>3, <1>5, <2>4 DEF OutputInv, OutputInOrder
<1>6. CASE /\ c.type = CHUNKTYPE_EXIT /\ ~ answer.given /\ UNCHANGED written
           /\ answer'.given /\ answer'.status = atoi(c.text) /\ answer'.due = written
  <2>1. ASSUME NEW cs \in Seq(WireChunk), NEW rem \in Bytes, NEW text \in Bytes,
               NEW after \in Bytes, NEW lost \in Bytes, ToClient(cs, rem, text, after, lost)
        PROVE  OutputArrives'
    BY <1>1, <1>6, <2>1, AnswerWritten
  <2>2. Cut => OutputArrives'
    BY <1>3, Zenon DEF OutputArrives
  <2>3. cpc # "ended" => OutputArrives
    BY DEF OutputInv
  <2>4. cpc' # "ended" => OutputArrives'
    BY <1>3, <2>1, <2>2, <2>3, Zenon DEF OutputArrives
  <2>5. ASSUME NEW s \in Outputs PROVE IsPrefix(written[s], written[s])
    <3>1. written[s] \in Bytes /\ <<>> \in Bytes
      BY <1>3, EmptyBytes
    <3>2. IsPrefix(written[s], written[s] \o <<>>)
      BY <3>1, PrefixIntro
    <3> QED
      BY <3>1, <3>2, ConcatEmpty
  <2>6. OutputInOrder'
    BY <1>3, <1>6, <2>5, Zenon DEF OutputInv, OutputInOrder
  <2> QED
    BY <2>4, <2>6
<1> QED
  BY <1>1, <1>2, <1>4, <1>5, <1>6, RecordsKinds

(* Bytes enter the stream.                                                 *)
LEMMA WriteKeepsOutput ==
  ASSUME TypeInv, PrintInv, Control, OutputInv, NEW t \in Threads, Write(t),
         UNCHANGED clientVars
  PROVE  OutputInOrder' /\ (cpc' # "ended" => OutputArrives')
<1>0. /\ UNCHANGED <<cpc, chunk, copied, written, answer, spc, phase, serverClosed, reset>>
      /\ ~ serverClosed /\ pending[t] # <<>> /\ holder = t
  BY DEF Write, InWrite, clientVars, PrintInv, OneWriter
<1>1. PICK p : p = pending[t]
  OBVIOUS
<1>2. PICK n : n = Fits(toClient, p)
  OBVIOUS
<1>3. /\ toClient' = toClient \o Take(n, p)
      /\ pending' = [pending EXCEPT ![t] = Skip(n, p)]
      /\ IF pending'[t] # <<>> THEN UNCHANGED <<holder, printing>> ELSE EndWrite(t)
  BY <1>1, <1>2 DEF Write, InWrite
<1>4. /\ pending \in [Threads -> Bytes] /\ p \in Bytes /\ toClient \in Bytes
      /\ printing \in [Threads -> Seq(PrintCall)] /\ Session \in Threads /\ NoThread \notin Threads
  BY <1>1, ToClientFacts
<1>5. n \in 0 .. Len(p)
  <2>1. Len(toClient) <= Capacity
    BY DEF TypeInv, TypeOK, SocketTypeOK
  <2> QED
    BY <1>2, <1>4, <2>1, FitsTypes
<1> DEFINE left == Skip(n, p)
           part == Take(n, p)
<1>6. part \in Bytes /\ left \in Bytes /\ part \o left = p /\ Len(left) = Len(p) - n
      /\ Len(p) \in Nat
  BY <1>4, <1>5, TakeSkip, Concat
<1> HIDE DEF left, part
<1>7. toClient' = toClient \o part /\ pending' = [pending EXCEPT ![t] = left]
  BY <1>3 DEF left, part
<1>8. pending'[t] = left
  BY <1>4, <1>7
<1>9. Unwritten = p /\ Unwritten' = left
  <2>1. Unwritten = p
    BY <1>0, <1>1, <1>4 DEF Unwritten
  <2>2. CASE left # <<>>
    <3>1. UNCHANGED holder
      BY <1>3, <1>8, <2>2
    <3>2. holder' # NoThread /\ pending'[holder'] = left
      BY <1>0, <1>4, <1>8, <3>1
    <3> QED
      BY <2>1, <3>2 DEF Unwritten
  <2>3. CASE left = <<>>
    <3>1. holder' = NoThread
      BY <1>3, <1>8, <2>3 DEF EndWrite
    <3> QED
      BY <2>1, <2>3, <3>1 DEF Unwritten
  <2> QED
    BY <2>2, <2>3
<1>10. ~ Cut
  BY <1>0 DEF Cut
<1>11. Answered' => answer.given /\ (Answered \/ Len(left) = 0)
  <2>1. SUFFICES ASSUME Answered' PROVE answer.given /\ (Answered \/ Len(left) = 0)
    OBVIOUS
  <2>2. spc # "closed"
    BY <1>0 DEF Control, Ends
  <2>3. phase[Session] = "answered" /\ printing'[Session] = <<>>
    BY <1>0, <2>1, <2>2 DEF Answered
  <2>4. CASE printing[Session] = <<>>
    <3>1. Answered
      BY <1>0, <2>3, <2>4 DEF Answered
    <3>2. answer.given
      BY <2>3, <2>4, Zenon DEF Control, Answering
    <3> QED
      BY <3>1, <3>2
  <2>5. CASE printing[Session] # <<>>
    <3>1. ~ UNCHANGED printing
      BY <2>3, <2>5
    <3>2. left = <<>> /\ EndWrite(t)
      BY <1>3, <1>8, <3>1
    <3>3. t = Session
      BY <1>4, <2>3, <2>5, <3>2 DEF EndWrite
    <3>4. answer.given
      BY <1>0, <2>3, <3>3, Zenon DEF Control, Answering
    <3> QED
      BY <3>2, <3>4, EmptyBytes
  <2> QED
    BY <2>4, <2>5
<1>12. ASSUME NEW cs \in Seq(WireChunk), NEW rem \in Bytes, NEW text \in Bytes,
              NEW after \in Bytes, NEW lost \in Bytes, ToClient(cs, rem, text, after, lost)
       PROVE  OutputArrives'
  <2>1. lost = p /\ Len(after) \in Nat
    BY <1>0, <1>9, <1>12, Concat DEF ToClient
  <2>2. toClient' \o left = toClient \o lost
    <3>1. Assoc(toClient, part, left)
      BY <1>4, <1>6, Associates, Zenon
    <3> QED
      BY <1>6, <1>7, <2>1, <3>1, Zenon DEF Assoc
  <2>3. /\ Ending(text, after)' = Ending(text, after)
        /\ \A s : Due(s)' = Due(s)
        /\ \A s : InChunk(s, rem)' = InChunk(s, rem)
    BY <1>0, Zenon DEF Ending, Due, InChunk
  <2>4. Answered' => answer'.given /\ Len(left) <= Len(after)
    <3>1. Answered => Len(lost) <= Len(after)
      BY <1>12, Zenon DEF ToClient
    <3>2. Len(left) <= Len(p) /\ Len(left) \in Nat
      BY <1>5, <1>6
    <3>3. Answered => Len(left) <= Len(after)
      BY <1>6, <2>1, <3>1, <3>2
    <3>4. Len(left) = 0 => Len(left) <= Len(after)
      BY <2>1
    <3> QED
      BY <1>0, <1>11, <3>3, <3>4, Zenon
  <2>5. ToClient(cs, rem, text, after, left)'
    BY <1>0, <1>9, <1>12, <2>2, <2>3, <2>4, Zenon DEF ToClient
  <2> QED
    BY <1>6, <2>5, Zenon DEF OutputArrives
<1>13. cpc' # "ended" => OutputArrives'
  <2>1. cpc # "ended" => OutputArrives
    BY DEF OutputInv
  <2> QED
    BY <1>0, <1>10, <1>12, <2>1, Zenon DEF OutputArrives
<1>14. OutputInOrder'
  BY <1>0, Zenon DEF OutputInv, OutputInOrder
<1> QED
  BY <1>13, <1>14

(* A write to a closed socket loses its bytes, and those of no one else.   *)
LEMMA WriteFailsKeepsOutput ==
  ASSUME TypeInv, PrintInv, Control, OutputInv, NEW t \in Threads, WriteFails(t),
         UNCHANGED clientVars
  PROVE  OutputInOrder' /\ (cpc' # "ended" => OutputArrives')
<1>1. /\ UNCHANGED <<toClient, written, answer, spc, phase, serverClosed, reset>>
      /\ clientClosed \/ serverClosed
  BY DEF WriteFails, socketVars
<1>2. CASE cpc = "ended"
  <2>1. UNCHANGED <<cpc, copied>>
    BY DEF clientVars
  <2> QED
    BY <1>1, <1>2, <2>1, Zenon DEF OutputInv, OutputInOrder
<1>3. CASE cpc # "ended"
  <2>1. serverClosed
    BY <1>1, <1>3 DEF Control, Ends
  <2>2. Answered' => Answered
    BY <1>1, <2>1 DEF Answered
  <2> QED
    BY <1>1, <2>1, <2>2, OutputUntouched
<1> QED
  BY <1>2, <1>3

(* The calls of the nail, and what the session reads.                      *)
LEMMA CallKeepsOutput ==
  ASSUME TypeInv, PrintInv, Control, OutputInv, UNCHANGED clientVars,
         \/ NailReturns \/ NailThrows \/ Answer \/ StartRead
         \/ \E t \in Threads : \/ \E type \in DOMAIN Texts : PrintText(t, type)
                               \/ \E n \in Statuses : SystemExit(t, n)
                               \/ ExitPropagates(t) \/ ExitCaught(t) \/ FillHeader(t)
  PROVE  OutputInOrder' /\ (cpc' # "ended" => OutputArrives')
<1>0. /\ phase \in [Threads -> SessionPhases] /\ Session \in Threads
      /\ printing \in [Threads -> Seq(PrintCall)]
  BY ToClientFacts DEF TypeInv, TypeOK, NailTypeOK
<1>1. CASE NailReturns \/ NailThrows \/ Answer \/ StartRead
  <2>1. /\ UNCHANGED <<toClient, written, answer, holder, pending, serverClosed, reset, spc>>
        /\ phase' \in {[phase EXCEPT ![Session] = "answering"],
                       [phase EXCEPT ![Session] = "reading"]} \/ Answer
    BY <1>1 DEF NailReturns, NailThrows, Answer, StartRead, socketVars, outputVars,
                Prints, PrintStatus
  <2>2. Unwritten' = Unwritten
    BY <2>1 DEF Unwritten
  <2>3. Answered' => Answered
    <3>1. CASE Answer
      <4> DEFINE texts == <<Decimal[status[Session]], NewLine>>
                 call == [i \in DOMAIN texts |-> [type |-> CHUNKTYPE_EXIT, text |-> texts[i]]]
      <4>1. printing' = [printing EXCEPT ![Session] = call]
        BY <3>1 DEF Answer, PrintStatus, Prints
      <4>2. DOMAIN texts = 1 .. 2
        OBVIOUS
      <4> HIDE DEF texts
      <4>3. call # <<>>
        <5>1. DOMAIN call = 1 .. 2
          BY <4>2
        <5> QED
          BY <5>1
      <4> HIDE DEF call
      <4>5. printing'[Session] # <<>>
        BY <1>0, <4>1, <4>3
      <4> QED
        BY <2>1, <4>5 DEF Answered
    <3>2. CASE phase' \in {[phase EXCEPT ![Session] = "answering"],
                           [phase EXCEPT ![Session] = "reading"]}
      BY <1>0, <2>1, <3>2 DEF Answered
    <3> QED
      BY <2>1, <3>1, <3>2
  <2> QED
    BY <2>1, <2>2, <2>3, OutputUntouched
<1>2. ASSUME NEW t \in Threads,
             \/ \E type \in DOMAIN Texts : PrintText(t, type)
             \/ \E n \in Statuses : SystemExit(t, n)
             \/ ExitPropagates(t) \/ ExitCaught(t)
      PROVE  OutputInOrder' /\ (cpc' # "ended" => OutputArrives')
  <2>1. /\ UNCHANGED <<toClient, written, answer, holder, pending, serverClosed, reset, spc>>
        /\ phase[t] \in {"run", "thrown"}
        /\ \/ UNCHANGED phase
           \/ \E p \in {"run", "thrown", "answering", "ended"} : phase' = [phase EXCEPT ![t] = p]
        /\ \/ UNCHANGED printing
           \/ \E call : printing' = [printing EXCEPT ![t] = call]
    BY <1>2 DEF PrintText, SystemExit, MayCall, Free, PrintStatus, Prints,
                ExitPropagates, ExitCaught, outputVars, socketVars
  <2>2. Unwritten' = Unwritten
    BY <2>1 DEF Unwritten
  <2>3. Answered' => Answered
    BY <1>0, <2>1 DEF Answered
  <2> QED
    BY <2>1, <2>2, <2>3, OutputUntouched
<1>3. ASSUME NEW t \in Threads, FillHeader(t)
      PROVE  OutputInOrder' /\ (cpc' # "ended" => OutputArrives')
  <2>1. /\ UNCHANGED <<toClient, written, answer, holder, pending, serverClosed, reset, spc>>
        /\ UNCHANGED <<phase, printing>>
    BY <1>3 DEF FillHeader, socketVars
  <2>2. Unwritten' = Unwritten /\ Answered' = Answered
    BY <2>1 DEF Unwritten, Answered
  <2> QED
    BY <2>1, <2>2, OutputUntouched
<1> QED
  BY <1>1, <1>2, <1>3

(* Reading leaves the output alone.                                        *)
LEMMA ReadKeepsOutput ==
  ASSUME TypeInv, PrintInv, OutputInv, ReadActions, UNCHANGED clientVars
  PROVE  OutputInOrder' /\ (cpc' # "ended" => OutputArrives')
<1>0. phase \in [Threads -> SessionPhases] /\ Session \in Threads
  BY ToClientFacts DEF TypeInv, TypeOK, NailTypeOK
<1>1. /\ UNCHANGED <<toClient, written, answer, holder, pending, printing, serverClosed, reset>>
      /\ UNCHANGED phase \/ phase' = [phase EXCEPT ![Session] = "run"]
      /\ spc' = "closed" => spc = "closed"
  BY ReadFrame DEF outputVars
<1>2. Unwritten' = Unwritten
  BY <1>1 DEF Unwritten
<1>3. Answered' => Answered
  BY <1>0, <1>1 DEF Answered
<1> QED
  BY <1>1, <1>2, <1>3, OutputUntouched

(* A reset takes bytes from the end of the stream.                         *)
LEMMA ResetKeepsOutput ==
  ASSUME TypeInv, PrintInv, Reset, UNCHANGED <<chunk, copied, written, answer>>,
         serverClosed', OutputArrives, ~ Cut,
         UNCHANGED cpc \/ (cpc \in {"send", "select"} /\ cpc' \in {"send", "select"})
  PROVE  OutputArrives'
<1>1. PICK n \in 0 .. Len(toClient) : toClient' = Take(n, toClient)
  BY DEF Reset
<1>2. toClient \in Bytes
  BY ToClientFacts
<1> DEFINE kept == Take(n, toClient)
           dropped == Skip(n, toClient)
<1>3. kept \in Bytes /\ dropped \in Bytes /\ kept \o dropped = toClient
  BY <1>1, <1>2, TakeSkip
<1>4. PICK k \in Bytes, d \in Bytes : k = toClient' /\ k \o d = toClient
  <2>1. kept = toClient'
    BY <1>1
  <2> HIDE DEF kept, dropped
  <2> QED
    BY <1>3, <2>1
<1>5. ~ Answered'
  <2>1. reset'
    BY Zenon DEF Reset
  <2> QED
    BY <2>1, Zenon DEF Answered
<1>6. ASSUME NEW cs \in Seq(WireChunk), NEW rem \in Bytes, NEW text \in Bytes,
             NEW after \in Bytes, NEW lost \in Bytes, ToClient(cs, rem, text, after, lost)
      PROVE  OutputArrives'
  <2> DEFINE more == d \o lost
  <2>1. more \in Bytes
    BY Concat
  <2>2. toClient' \o more = toClient \o lost
    <3>1. Assoc(k, d, lost)
      BY Associates, Zenon
    <3> QED
      BY <1>4, <3>1, Zenon DEF Assoc
  <2> HIDE DEF more
  <2>3. /\ (cpc' = "recvToFD") = (cpc = "recvToFD")
        /\ (cpc' = "processExit") = (cpc = "processExit")
    OBVIOUS
  <2>4. /\ Ending(text, after)' = Ending(text, after)
        /\ \A s : Due(s)' = Due(s)
        /\ \A s : InChunk(s, rem)' = InChunk(s, rem)
    BY <2>3 DEF Ending, Due, InChunk
  <2>5. /\ toClient' \o more = rem \o (Stream(cs) \o Ending(text, after)')
        /\ \A i \in 1 .. Len(cs) : cs[i].type \in Outputs
        /\ \A s \in Outputs : copied'[s] \o (InChunk(s, rem)' \o Payload(s, cs)) = Due(s)'
        /\ answer'.given => Len(text) \in 1 .. 3 /\ atoi(text) = answer'.status
    BY <1>6, <2>2, <2>4, Zenon DEF ToClient
  <2>6. /\ cpc' = "recvToFD" => Len(rem) = chunk'.len - chunk'.bytesRead
        /\ cpc' # "recvToFD" => rem = <<>>
        /\ cpc' = "processExit" => answer'.given /\ cs = <<>> /\ chunk'.len = Len(text)
    BY <1>6, <2>3 DEF ToClient
  <2>7. ToClient(cs, rem, text, after, more)'
    BY <1>5, <2>5, <2>6, Zenon DEF ToClient
  <2> QED
    BY <2>1, <2>7, Zenon DEF OutputArrives
<1> QED
  BY <1>6, Zenon DEF OutputArrives

(* After the close nothing is added; a reset may cut what has arrived.     *)
LEMMA CloseKeepsOutput ==
  ASSUME TypeInv, PrintInv, Control, OutputInv, CloseActions, UNCHANGED clientVars
  PROVE  OutputInOrder' /\ (cpc' # "ended" => OutputArrives')
<1>1. /\ UNCHANGED <<phase, written, answer, printing, cpc, chunk, copied>>
      /\ serverClosed' = TRUE
      /\ UNCHANGED <<toClient, reset>> \/ Reset
      /\ \/ spc' = "dead"
         \/ /\ spc = "nail" /\ phase[Session] = "answered" /\ printing[Session] = <<>>
            /\ spc' = "closed"
  BY CloseFrame DEF outputVars, clientVars
<1>2. ~ serverClosed
  BY DEF CloseActions, CloseSocket, Die, Control, Ends
<1>3. ~ Cut
  BY <1>2 DEF Cut
<1>4. OutputInOrder'
  BY <1>1, Zenon DEF OutputInv, OutputInOrder
<1>5. cpc # "ended" => OutputArrives
  BY DEF OutputInv
<1>6. CASE Reset
  <2>1. OutputArrives => OutputArrives'
    BY <1>1, <1>3, <1>6, ResetKeepsOutput
  <2> QED
    BY <1>1, <1>4, <1>5, <2>1, Zenon
<1>7. CASE UNCHANGED <<toClient, reset>>
  <2>1. Answered' => Answered
    BY <1>1, <1>2 DEF Answered
  <2>2. /\ \A text, after : Ending(text, after)' = Ending(text, after)
        /\ \A s : Due(s)' = Due(s)
        /\ \A s, rem : InChunk(s, rem)' = InChunk(s, rem)
    BY <1>1 DEF Ending, Due, InChunk
  <2>3. ASSUME NEW cs \in Seq(WireChunk), NEW rem \in Bytes, NEW text \in Bytes,
               NEW after \in Bytes, NEW lost \in Bytes, ToClient(cs, rem, text, after, lost)
        PROVE  OutputArrives'
    <3>1. serverClosed'
      BY <1>1
    <3>2. ToClient(cs, rem, text, after, lost)'
      BY <1>1, <1>7, <2>1, <2>2, <2>3, <3>1, Zenon DEF ToClient
    <3> QED
      BY <3>2, Zenon DEF OutputArrives
  <2>4. OutputArrives => OutputArrives'
    BY <1>3, <2>3, Zenon DEF OutputArrives
  <2> QED
    BY <1>1, <1>4, <1>5, <2>4, Zenon
<1> QED
  BY <1>1, <1>6, <1>7

(* Every step of the server.                                               *)
LEMMA OutputInvServer ==
  ASSUME TypeInv, PrintInv, Control, OutputInv, ServerActions, UNCHANGED clientVars
  PROVE  OutputInv'
<1>1. OutputInOrder' /\ (cpc' # "ended" => OutputArrives')
  <2>1. CASE StreamActions
    BY <2>1, CallKeepsOutput, BeginWriteKeepsOutput, WriteKeepsOutput,
       WriteFailsKeepsOutput DEF StreamActions
  <2> QED
    BY <2>1, ReadKeepsOutput, CloseKeepsOutput, ServerActionKinds
<1>2. AnswerIsTrue'
  BY ServerKeepsAnswer DEF OutputInv
<1> QED
  BY <1>1, <1>2 DEF OutputInv

(* The client sends, or looks for input.                                   *)
LEMMA SendingKeepsOutput ==
  ASSUME OutputInv, cpc \in {"send", "select"}, cpc' \in {"send", "select"}, ~ Cut,
         UNCHANGED <<toClient, serverClosed, reset, chunk, copied>>, UNCHANGED nailVars
  PROVE  OutputInv'
<1>1. UNCHANGED <<written, answer, spc, phase, printing, holder, pending>>
  BY DEF nailVars, outputVars
<1>2. /\ cpc # "recvToFD" /\ cpc' # "recvToFD" /\ cpc # "processExit" /\ cpc' # "processExit"
      /\ cpc # "ended" /\ cpc' # "ended"
  OBVIOUS
<1>3. /\ \A text, after : Ending(text, after)' = Ending(text, after)
      /\ \A s : Due(s)' = Due(s)
      /\ \A s, rem : InChunk(s, rem)' = InChunk(s, rem)
      /\ Answered' = Answered /\ Unwritten' = Unwritten
  BY <1>1, <1>2 DEF Ending, Due, InChunk, Answered, Unwritten
<1>4. ASSUME NEW cs \in Seq(WireChunk), NEW rem \in Bytes, NEW text \in Bytes,
             NEW after \in Bytes, NEW lost \in Bytes, ToClient(cs, rem, text, after, lost)
      PROVE  OutputArrives'
  <2>1. ToClient(cs, rem, text, after, lost)'
    BY <1>1, <1>2, <1>3, <1>4, Zenon DEF ToClient
  <2> QED
    BY <2>1, Zenon DEF OutputArrives
<1>5. OutputArrives
  BY <1>2 DEF OutputInv
<1>6. OutputArrives'
  BY <1>4, <1>5, Zenon DEF OutputArrives
<1>7. OutputInOrder'
  BY <1>1, Zenon DEF OutputInv, OutputInOrder
<1>8. AnswerIsTrue'
  BY <1>2, Zenon DEF AnswerIsTrue
<1> QED
  BY <1>6, <1>7, <1>8 DEF OutputInv

(* The client ends: its connection is broken.                              *)
LEMMA SendToClosedKeepsOutput ==
  ASSUME TypeInv, PrintInv, OutputInv, SendToClosed, UNCHANGED nailVars
  PROVE  OutputInv'
<1>1. /\ cpc = "send" /\ cpc' \in {"send", "select"} /\ Reset /\ serverClosed
      /\ UNCHANGED <<serverClosed, chunk, copied, written, answer>>
  BY DEF SendToClosed, nailVars, outputVars
<1>2. ~ Cut /\ cpc # "ended" /\ cpc' # "ended" /\ serverClosed'
  BY <1>1 DEF Cut
<1>3. OutputArrives
  BY <1>2 DEF OutputInv
<1>4. OutputArrives'
  BY <1>1, <1>2, <1>3, ResetKeepsOutput
<1>5. OutputInOrder'
  BY <1>1, Zenon DEF OutputInv, OutputInOrder
<1>6. AnswerIsTrue'
  BY <1>2, Zenon DEF AnswerIsTrue
<1> QED
  BY <1>4, <1>5, <1>6 DEF OutputInv

(* The client ends for another reason than the status; what it takes for   *)
(* broken has been reset or its server has ended.                          *)
LEMMA ExitKeepsOutput ==
  ASSUME OutputInv, NEW why, why # "status", why # "unexpected", NEW code, Exit(why, code),
         why = "broken" => spc = "dead" \/ reset,
         UNCHANGED copied, UNCHANGED nailVars
  PROVE  OutputInv'
<1>1. cpc' = "ended" /\ exit' = [why |-> why, code |-> code % 256]
  BY DEF Exit
<1>2. exit'.why = why
  BY <1>1
<1>3. UNCHANGED <<spc, reset>>
  BY DEF nailVars, Exit, CloseClientEnd
<1>4. AnswerIsTrue'
  BY <1>2, <1>3, Zenon DEF AnswerIsTrue
<1>5. UNCHANGED <<written, answer, copied>>
  BY DEF nailVars, outputVars
<1>6. OutputInOrder'
  BY <1>5, Zenon DEF OutputInv, OutputInOrder
<1> QED
  BY <1>1, <1>4, <1>6 DEF OutputInv

(* A header at the front of the stream to the client.                      *)
LEMMA ChunkOfExit ==
  ASSUME NEW cs \in Seq(WireChunk), NEW rem \in Bytes, NEW text \in Bytes,
         NEW after \in Bytes, NEW lost \in Bytes, ToClient(cs, rem, text, after, lost),
         answer.given
  PROVE  [type |-> CHUNKTYPE_EXIT, text |-> text] \in WireChunk
<1>1. Len(text) \in 1 .. 3
  BY Zenon DEF ToClient
<1>2. \A k \in 1 .. 3 : k <= MaxInt
  BY MaxIntIsLarge
<1>3. Len(text) <= MaxInt
  BY <1>1, <1>2, Zenon
<1>4. CHUNKTYPE_EXIT \in Byte
  BY DEF CHUNKTYPE_EXIT, Byte
<1> QED
  BY <1>3, <1>4 DEF WireChunk

(* The client at the header of a chunk of output.                          *)
LEMMA ClientReadsOutput ==
  ASSUME TypeInv, PrintInv, cpc = "select", Len(toClient) >= CHUNK_HEADER_LEN,
         NEW cs \in Seq(WireChunk), NEW rem \in Bytes, NEW text \in Bytes,
         NEW after \in Bytes, NEW lost \in Bytes, ToClient(cs, rem, text, after, lost),
         cs # <<>>
  PROVE  /\ Head(cs) \in WireChunk /\ Tail(cs) \in Seq(WireChunk)
         /\ HeaderRead(toClient, lost, Head(cs), Stream(Tail(cs)) \o Ending(text, after))
         /\ Head(cs).type \in Outputs
         /\ \A i \in 1 .. Len(Tail(cs)) : Tail(cs)[i].type \in Outputs
<1> DEFINE c == Head(cs)
           rest == Tail(cs)
           S == Stream(rest)
           E == Ending(text, after)
           SE == S \o E
           bytes == Chunk(c.type, c.text)
<1>1. /\ c \in WireChunk /\ rest \in Seq(WireChunk) /\ Stream(cs) = bytes \o S
      /\ cs[1] = c /\ Len(rest) = Len(cs) - 1 /\ Len(cs) \in Nat \ {0}
      /\ \A i \in 1 .. Len(rest) : rest[i] = cs[i + 1]
  BY StreamCons
<1>2. rem = <<>> /\ toClient \in Bytes /\ toClient \o lost = rem \o (Stream(cs) \o E)
  BY ToClientFacts DEF ToClient
<1>3. E \in Bytes /\ Stream(cs) \o E \in Bytes
  BY EndingType
<1>4. S \in Bytes
  BY <1>1, StreamType
<1>5. bytes \in Bytes
  BY <1>1, ChunkParts
<1>6. \A i \in 1 .. Len(cs) : cs[i].type \in Outputs
  BY Zenon DEF ToClient
<1> HIDE DEF rest, S, E, bytes
<1>7. SE \in Bytes
  BY <1>3, <1>4, Concat
<1> HIDE DEF SE
<1>8. Assoc(bytes, S, E)
  BY <1>3, <1>4, <1>5, Associates, Zenon
<1>9. <<>> \o (Stream(cs) \o E) = Stream(cs) \o E
  BY <1>3, ConcatEmpty
<1>10. toClient \o lost = bytes \o SE
  BY <1>1, <1>2, <1>8, <1>9, Zenon DEF Assoc, SE
<1> HIDE DEF c
<1>11. HeaderRead(toClient, lost, c, SE)
  BY <1>1, <1>2, <1>7, <1>10, HeaderArrives, Zenon DEF bytes
<1>12. c.type \in Outputs
  <2>1. 1 \in 1 .. Len(cs)
    BY <1>1
  <2> QED
    BY <1>1, <1>6, <2>1, Zenon
<1>13. \A i \in 1 .. Len(rest) : rest[i].type \in Outputs
  <2>1. \A i \in 1 .. Len(rest) : i + 1 \in 1 .. Len(cs)
    BY <1>1
  <2> QED
    BY <1>1, <1>6, <2>1, Zenon
<1> QED
  BY <1>1, <1>11, <1>12, <1>13, Zenon DEF c, rest, S, E, SE

(* The client at the header of the exit chunk.                             *)
LEMMA ClientReadsExit ==
  ASSUME TypeInv, PrintInv, cpc = "select", Len(toClient) >= CHUNK_HEADER_LEN,
         NEW cs \in Seq(WireChunk), NEW rem \in Bytes, NEW text \in Bytes,
         NEW after \in Bytes, NEW lost \in Bytes, ToClient(cs, rem, text, after, lost),
         cs = <<>>
  PROVE  /\ answer.given
         /\ HeaderRead(toClient, lost, [type |-> CHUNKTYPE_EXIT, text |-> text], after)
<1> DEFINE E == Ending(text, after)
           bytes == Chunk(CHUNKTYPE_EXIT, text)
<1>1. rem = <<>> /\ toClient \in Bytes /\ toClient \o lost = rem \o (Stream(cs) \o E)
      /\ E \in Bytes
  BY ToClientFacts, EndingType DEF ToClient
<1>2. Stream(cs) = <<>>
  BY StreamEmpty
<1> HIDE DEF E
<1>3. <<>> \o E = E
  BY <1>1, ConcatEmpty
<1>4. toClient \o lost = E
  BY <1>1, <1>2, <1>3, Zenon
<1>5. answer.given
  <2>1. SUFFICES ASSUME ~ answer.given PROVE FALSE
    OBVIOUS
  <2>2. E = <<>>
    BY <2>1, Zenon DEF E, Ending
  <2>3. Len(toClient \o lost) = Len(toClient) + Len(lost) /\ Len(lost) \in Nat
        /\ Len(toClient) \in Nat
    BY <1>1, Concat
  <2>4. Len(toClient \o lost) = 0
    BY <1>4, <2>2, EmptyBytes
  <2> QED
    BY <2>3, <2>4 DEF CHUNK_HEADER_LEN
<1>6. E = bytes \o after
  BY <1>5, Zenon DEF E, Ending
<1> DEFINE c == [type |-> CHUNKTYPE_EXIT, text |-> text]
<1>7. c \in WireChunk /\ c.type = CHUNKTYPE_EXIT /\ c.text = text
  BY <1>5, ChunkOfExit
<1> HIDE DEF c
<1>8. toClient \o lost = Chunk(c.type, c.text) \o after
  BY <1>4, <1>6, <1>7, Zenon
<1>9. HeaderRead(toClient, lost, c, after)
  BY <1>1, <1>7, <1>8, HeaderArrives, Zenon
<1> QED
  BY <1>5, <1>9 DEF c

(* The client takes a header off the stream.                               *)
LEMMA RecvHeaderKeepsOutput ==
  ASSUME TypeInv, PrintInv, OutputInv, RecvHeader, UNCHANGED nailVars
  PROVE  OutputInv'
<1>0. /\ cpc = "select" /\ Len(toClient) >= CHUNK_HEADER_LEN
      /\ UNCHANGED <<copied, written, answer, spc, phase, printing, holder, pending>>
  BY DEF RecvHeader, nailVars, outputVars
<1>1. ~ Cut /\ OutputArrives
  <2>1. toClient # <<>>
    BY <1>0, EmptyBytes DEF CHUNK_HEADER_LEN
  <2> QED
    BY <1>0, <2>1 DEF Cut, OutputInv
<1>2. PICK cs \in Seq(WireChunk), rem \in Bytes, text \in Bytes, after \in Bytes, lost \in Bytes :
        ToClient(cs, rem, text, after, lost)
  BY <1>1, Zenon DEF OutputArrives
<1>3. toClient[CHUNK_HEADER_LEN] \in Outputs \cup {CHUNKTYPE_EXIT} =>
        /\ chunk' = [type |-> toClient[CHUNK_HEADER_LEN], len |-> FromArray(toClient),
                     bytesRead |-> 0]
        /\ toClient' = Skip(CHUNK_HEADER_LEN, toClient)
        /\ cpc' = Receiver(toClient[CHUNK_HEADER_LEN])
        /\ UNCHANGED <<serverClosed, reset>>
  BY DEF RecvHeader
<1>4. OutputInOrder'
  BY <1>0, Zenon DEF OutputInv, OutputInOrder
<1>5. /\ \A s : Due(s)' = Due(s)
      /\ Unwritten' = Unwritten
      /\ UNCHANGED <<serverClosed, reset>> => Answered' = Answered
  BY <1>0 DEF Due, Unwritten, Answered
<1>6. /\ rem = <<>>
      /\ \A i \in 1 .. Len(cs) : cs[i].type \in Outputs
      /\ \A s \in Outputs : copied[s] \o (<<>> \o Payload(s, cs)) = Due(s)
      /\ answer.given => Len(text) \in 1 .. 3 /\ atoi(text) = answer.status
      /\ ~serverClosed => lost = Unwritten
      /\ Answered => answer.given /\ Len(lost) <= Len(after)
  <2>1. cpc # "recvToFD"
    BY <1>0
  <2> QED
    BY <1>2, <2>1, Zenon DEF ToClient, InChunk
<1>9. UNCHANGED <<serverClosed, reset>> =>
        /\ answer'.given => Len(text) \in 1 .. 3 /\ atoi(text) = answer'.status
        /\ ~ serverClosed' => lost = Unwritten'
        /\ Answered' => answer'.given /\ Len(lost) <= Len(after)
  BY <1>0, <1>5, <1>6
<1>7. CASE cs # <<>>
  <2> DEFINE c == Head(cs)
             rest == Tail(cs)
             whole == Stream(rest) \o Ending(text, after)
  <2>1. /\ c \in WireChunk /\ rest \in Seq(WireChunk)
        /\ HeaderRead(toClient, lost, c, whole)
        /\ c.type \in Outputs
        /\ \A i \in 1 .. Len(rest) : rest[i].type \in Outputs
    BY <1>0, <1>2, <1>7, ClientReadsOutput
  <2>2. c.text \in Bytes /\ Len(c.text) \in Nat
    BY <2>1, ChunkParts
  <2>3. \A s : /\ Payload(s, cs) = Of(s, c) \o Payload(s, rest)
               /\ Payload(s, cs) \in Bytes
    BY <1>7, StreamCons, StreamType
  <2> HIDE DEF c, rest
  <2>4. /\ toClient[CHUNK_HEADER_LEN] = c.type /\ FromArray(toClient) = Len(c.text)
        /\ Skip(CHUNK_HEADER_LEN, toClient) \o lost = c.text \o whole
    BY <2>1, Zenon DEF HeaderRead
  <2>5. /\ chunk' = [type |-> c.type, len |-> Len(c.text), bytesRead |-> 0]
        /\ toClient' = Skip(CHUNK_HEADER_LEN, toClient)
        /\ cpc' = "recvToFD" /\ UNCHANGED <<serverClosed, reset>>
    <3>1. Receiver(c.type) = "recvToFD"
      BY <2>1 DEF Receiver
    <3> QED
      BY <1>3, <2>1, <2>4, <3>1
  <2>6. Ending(text, after)' = Ending(text, after)
    BY <1>0, <2>5 DEF Ending
  <2>7. toClient' \o lost = c.text \o (Stream(rest) \o Ending(text, after)')
    BY <2>4, <2>5, <2>6, Zenon
  <2>8. chunk'.type = c.type /\ Len(c.text) = chunk'.len - chunk'.bytesRead
    BY <2>2, <2>5
  <2>9. ASSUME NEW s \in Outputs
        PROVE  copied'[s] \o (InChunk(s, c.text)' \o Payload(s, rest)) = Due(s)'
    <3>1. InChunk(s, c.text)' = Of(s, c)
      BY <2>5, <2>8 DEF InChunk, Of
    <3>2. <<>> \o Payload(s, cs) = Payload(s, cs)
      BY <2>3, ConcatEmpty
    <3> QED
      BY <1>0, <1>5, <1>6, <2>3, <3>1, <3>2, Zenon
  <2>10. cpc' # "processExit" /\ (cpc' # "recvToFD" => FALSE)
    BY <2>5
  <2>11. ToClient(rest, c.text, text, after, lost)'
    BY <1>9, <2>1, <2>5, <2>7, <2>8, <2>9, <2>10, Zenon DEF ToClient
  <2>12. OutputArrives'
    BY <1>2, <2>1, <2>2, <2>11, Zenon DEF OutputArrives
  <2>13. AnswerIsTrue'
    BY <2>5 DEF AnswerIsTrue
  <2> QED
    BY <1>4, <2>12, <2>13 DEF OutputInv
<1>8. CASE cs = <<>>
  <2> DEFINE c == [type |-> CHUNKTYPE_EXIT, text |-> text]
  <2>1. /\ answer.given /\ HeaderRead(toClient, lost, c, after)
        /\ c.type = CHUNKTYPE_EXIT /\ c.text = text
    BY <1>0, <1>2, <1>8, ClientReadsExit
  <2> HIDE DEF c
  <2>2. /\ toClient[CHUNK_HEADER_LEN] = CHUNKTYPE_EXIT /\ FromArray(toClient) = Len(text)
        /\ Skip(CHUNK_HEADER_LEN, toClient) \o lost = text \o after
    BY <2>1, Zenon DEF HeaderRead
  <2>3. /\ chunk' = [type |-> CHUNKTYPE_EXIT, len |-> Len(text), bytesRead |-> 0]
        /\ toClient' = Skip(CHUNK_HEADER_LEN, toClient)
        /\ cpc' = "processExit" /\ UNCHANGED <<serverClosed, reset>>
    <3>1. Receiver(CHUNKTYPE_EXIT) = "processExit"
      BY DEF Receiver, Outputs, CHUNKTYPE_EXIT, CHUNKTYPE_STDOUT, CHUNKTYPE_STDERR
    <3> QED
      BY <1>3, <2>2, <3>1
  <2>4. Ending(text, after)' = text \o after
    BY <1>0, <2>1, <2>3, Zenon DEF Ending
  <2>5. toClient' \o lost = <<>> \o (Stream(<<>>) \o Ending(text, after)')
    <3> DEFINE ta == text \o after
    <3>1. ta \in Bytes
      BY Concat
    <3> HIDE DEF ta
    <3>2. <<>> \o ta = ta /\ Stream(<<>>) = <<>>
      BY <3>1, ConcatEmpty, StreamEmpty
    <3> QED
      BY <2>2, <2>3, <2>4, <3>2, Zenon DEF ta
  <2>6. chunk'.len = Len(text) /\ cpc' # "recvToFD"
    BY <2>3
  <2>7. \A s \in Outputs : copied'[s] \o (InChunk(s, <<>>)' \o Payload(s, <<>>)) = Due(s)'
    <3>1. \A s : InChunk(s, <<>>)' = <<>>
      BY Zenon DEF InChunk
    <3> QED
      BY <1>0, <1>5, <1>6, <1>8, <3>1, Zenon
  <2>8. \A i \in 1 .. Len(<<>>) : <<>>[i].type \in Outputs
    BY <1>6, <1>8, Zenon
  <2>9. ToClient(<<>>, <<>>, text, after, lost)'
    <3>1. answer'.given
      BY <1>0, <2>1
    <3> QED
      BY <1>9, <2>3, <2>5, <2>6, <2>7, <2>8, <3>1, Zenon DEF ToClient
  <2>10. OutputArrives'
    BY <1>2, <1>8, <2>9, EmptyBytes, Zenon DEF OutputArrives
  <2>11. AnswerIsTrue'
    BY <2>3 DEF AnswerIsTrue
  <2> QED
    BY <1>4, <2>10, <2>11 DEF OutputInv
<1> QED
  BY <1>7, <1>8

(* The client copies what has arrived of the chunk it is in.               *)
LEMMA RecvToFDKeepsOutput ==
  ASSUME TypeInv, PrintInv, OutputInv, RecvToFD, UNCHANGED nailVars
  PROVE  OutputInv'
<1>0. /\ cpc = "recvToFD"
      /\ UNCHANGED <<written, answer, spc, phase, printing, holder, pending, serverClosed, reset>>
  BY DEF RecvToFD, nailVars, outputVars
<1>1. PICK n \in 0 .. Len(toClient) :
        /\ n <= chunk.len - chunk.bytesRead
        /\ Take(n, toClient) \in Bytes
        /\ copied' = [copied EXCEPT ![chunk.type] = copied[chunk.type] \o Take(n, toClient)]
        /\ toClient' = Skip(n, toClient)
        /\ toClient' \in Bytes /\ Len(toClient') = Len(toClient) - n
        /\ chunk' = [chunk EXCEPT !.bytesRead = chunk.bytesRead + n]
        /\ cpc' = IF chunk.bytesRead + n < chunk.len THEN "recvToFD" ELSE "select"
  <2>1. ClientTypes
    BY DEF TypeInv, TypeOK, ClientTypes
  <2> QED
    BY <2>1, RecvToFDBytes
<1>2. PICK cs \in Seq(WireChunk), rem \in Bytes, text \in Bytes, after \in Bytes, lost \in Bytes :
        ToClient(cs, rem, text, after, lost)
  <2>1. OutputArrives /\ ~ Cut
    BY <1>0 DEF OutputInv, Cut
  <2> QED
    BY <2>1, Zenon DEF OutputArrives
<1>3. /\ toClient \in Bytes /\ Len(toClient) \in Nat
      /\ chunk.len \in Nat /\ chunk.bytesRead \in Nat /\ chunk.type \in Outputs
      /\ chunk \in [type : Byte, len : Nat, bytesRead : Nat]
      /\ copied \in [Outputs -> Bytes]
      /\ \A s \in Outputs : copied[s] \in Bytes /\ written[s] \in Bytes /\ Due(s) \in Bytes
  BY <1>0, ToClientFacts DEF TypeInv, TypeOK, ClientTypeOK
<1> DEFINE W == Stream(cs) \o Ending(text, after)
           t == Take(n, rem)
           k == Skip(n, rem)
<1>4. /\ toClient \o lost = rem \o W /\ Len(rem) = chunk.len - chunk.bytesRead
      /\ \A i \in 1 .. Len(cs) : cs[i].type \in Outputs
      /\ \A s \in Outputs : copied[s] \o (InChunk(s, rem) \o Payload(s, cs)) = Due(s)
      /\ answer.given => Len(text) \in 1 .. 3 /\ atoi(text) = answer.status
      /\ ~serverClosed => lost = Unwritten
      /\ Answered => answer.given /\ Len(lost) <= Len(after)
  BY <1>0, <1>2, Zenon DEF ToClient
<1>5. W \in Bytes /\ \A s \in Outputs : Payload(s, cs) \in Bytes
  BY <1>2, EndingType
<1>6. n \in Nat /\ n <= Len(toClient) /\ n <= Len(rem) /\ n \in 0 .. Len(rem)
  BY <1>1, <1>3, <1>4
<1>7. t \in Bytes /\ k \in Bytes /\ t \o k = rem /\ Len(k) = Len(rem) - n
  BY <1>6, TakeSkip
<1> HIDE DEF t, k
<1>8. Ending(text, after)' = Ending(text, after)
  BY <1>0, <1>1 DEF Ending
<1>9. Take(n, toClient) = t /\ toClient' \o lost = k \o (Stream(cs) \o Ending(text, after)')
  <2> HIDE DEF W
  <2>1. Advanced(n, toClient, lost, rem, W)
    BY <1>3, <1>4, <1>5, <1>6, Advance, Zenon
  <2> QED
    BY <1>1, <1>8, <2>1, Zenon DEF Advanced, t, k, W
<1> HIDE DEF W
<1>10. copied' = [copied EXCEPT ![chunk.type] = copied[chunk.type] \o t]
  BY <1>1, <1>9
<1>11. /\ chunk'.type = chunk.type /\ chunk'.len = chunk.len
       /\ chunk'.bytesRead = chunk.bytesRead + n
  BY <1>1, <1>3
<1>12. /\ cpc' = "recvToFD" => Len(k) = chunk'.len - chunk'.bytesRead
       /\ cpc' # "recvToFD" => k = <<>>
       /\ cpc' # "processExit" /\ cpc' # "ended"
  <2>1. Len(k) = chunk.len - chunk.bytesRead - n
    BY <1>3, <1>4, <1>6, <1>7
  <2>2. cpc' = "recvToFD" => Len(k) = chunk'.len - chunk'.bytesRead
    BY <1>3, <1>6, <1>11, <2>1
  <2>3. cpc' # "recvToFD" => k = <<>>
    <3>1. SUFFICES ASSUME cpc' # "recvToFD" PROVE k = <<>>
      OBVIOUS
    <3>2. ~ (chunk.bytesRead + n < chunk.len)
      BY <1>1, <3>1
    <3>3. Len(k) = 0
      BY <1>3, <1>4, <1>6, <2>1, <3>2
    <3> QED
      BY <1>7, <3>3, LenZero
  <2> QED
    BY <1>1, <2>2, <2>3
<1>13. ASSUME NEW s \in Outputs
       PROVE  /\ copied'[s] \o (InChunk(s, k)' \o Payload(s, cs)) = Due(s)'
              /\ IsPrefix(copied'[s], written'[s])
  <2>1. Due(s)' = Due(s) /\ written'[s] = written[s]
    BY <1>0 DEF Due
  <2> DEFINE P == Payload(s, cs)
             kP == k \o P
  <2>2. P \in Bytes
    BY <1>5
  <2> HIDE DEF P
  <2>3. kP \in Bytes
    BY <1>7, <2>2, Concat
  <2> HIDE DEF kP
  <2>4. CASE s = chunk.type
    <3>1. copied'[s] = copied[s] \o t
      BY <1>3, <1>10, <2>4
    <3>2. InChunk(s, rem) = rem
      BY <1>0, <2>4 DEF InChunk
    <3>3. InChunk(s, k)' = k
      BY <1>11, <1>12, <2>4, Zenon DEF InChunk
    <3>4. Assoc(t, k, P) /\ Assoc(copied[s], t, kP)
      BY <1>3, <1>7, <2>2, <2>3, Associates, Zenon
    <3>5. copied'[s] \o kP = Due(s)
      BY <1>4, <1>7, <3>1, <3>2, <3>4, Zenon DEF Assoc, kP, P
    <3>6. copied'[s] \in Bytes
      BY <1>3, <1>7, <3>1, Concat
    <3>7. IsPrefix(Due(s), written[s])
      BY DueIsWritten DEF OutputInv
    <3>8. IsPrefix(copied'[s], written[s])
      BY <1>3, <2>3, <3>5, <3>6, <3>7, FrontOfDue
    <3> QED
      BY <2>1, <3>3, <3>5, <3>8, Zenon DEF kP, P
  <2>5. CASE s # chunk.type
    <3>1. copied'[s] = copied[s]
      BY <1>3, <1>10, <2>5
    <3>2. InChunk(s, rem) = <<>> /\ InChunk(s, k)' = <<>>
      BY <1>11, <2>5, Zenon DEF InChunk
    <3> QED
      BY <1>4, <2>1, <3>1, <3>2, Zenon DEF OutputInv, OutputInOrder
  <2> QED
    BY <2>4, <2>5
<1>14. /\ answer'.given => Len(text) \in 1 .. 3 /\ atoi(text) = answer'.status
       /\ ~ serverClosed' => lost = Unwritten'
       /\ Answered' => answer'.given /\ Len(lost) <= Len(after)
  BY <1>0, <1>4 DEF Unwritten, Answered
<1>15. ToClient(cs, k, text, after, lost)'
  BY <1>4, <1>9, <1>12, <1>13, <1>14, Zenon DEF ToClient
<1>16. OutputArrives'
  BY <1>2, <1>7, <1>15, Zenon DEF OutputArrives
<1>17. OutputInOrder'
  BY <1>0, <1>13, Zenon DEF OutputInv, OutputInOrder
<1>18. AnswerIsTrue'
  BY <1>12, Zenon DEF AnswerIsTrue
<1> QED
  BY <1>16, <1>17, <1>18 DEF OutputInv

(* The client ends in the middle of a chunk.                               *)
LEMMA RecvToFDFailsKeepsOutput ==
  ASSUME TypeInv, Control, OutputInv, RecvToFDFails, UNCHANGED nailVars
  PROVE  OutputInv'
<1>1. /\ reset /\ toClient = <<>> /\ cpc' = "select"
      /\ UNCHANGED <<copied, written, answer, toClient, serverClosed, reset>>
  BY DEF RecvToFDFails, nailVars, outputVars, socketVars
<1>2. Cut'
  BY <1>1 DEF Cut, Control, Ends
<1>3. OutputInOrder'
  BY <1>1, Zenon DEF OutputInv, OutputInOrder
<1>4. AnswerIsTrue'
  BY <1>1 DEF AnswerIsTrue
<1> QED
  BY <1>2, <1>3, <1>4 DEF OutputInv, OutputArrives

(* The client reads the status.                                            *)
LEMMA ProcessExitKeepsOutput ==
  ASSUME TypeInv, PrintInv, Control, OutputInv, ProcessExit, UNCHANGED nailVars
  PROVE  OutputInv'
<1>0. /\ cpc = "processExit" /\ cpc' = "ended"
      /\ UNCHANGED <<copied, written, answer, spc, serverClosed, reset>>
  BY DEF ProcessExit, Exit, CloseClientEnd, nailVars, outputVars
<1>1. PICK wanted : /\ wanted = Min({BUFSIZE - 1, chunk.len})
                    /\ RecvReturns(wanted)
                    /\ exit' = [why |-> "status", code |-> atoi(Received(wanted)) % 256]
  BY DEF ProcessExit, Exit
<1>2. exit'.why = "status" /\ exit'.code = atoi(Received(wanted)) % 256
  BY <1>1
<1>3. PICK cs \in Seq(WireChunk), rem \in Bytes, text \in Bytes, after \in Bytes, lost \in Bytes :
        ToClient(cs, rem, text, after, lost)
  <2>1. OutputArrives /\ ~ Cut
    BY <1>0 DEF OutputInv, Cut
  <2> QED
    BY <2>1, Zenon DEF OutputArrives
<1>4. answer.given /\ cs = <<>> /\ rem = <<>> /\ chunk.len = Len(text)
      /\ Len(text) \in 1 .. 3 /\ atoi(text) = answer.status
  <2>1. cpc # "recvToFD"
    BY <1>0
  <2> QED
    BY <1>0, <1>3, <2>1, Zenon DEF ToClient
<1>5. /\ toClient \in Bytes /\ Len(toClient) \in Nat /\ Len(text) \in Nat /\ Len(lost) \in Nat
      /\ Len(after) \in Nat /\ copied \in [Outputs -> Bytes] /\ answer.due \in [Outputs -> Bytes]
  BY ToClientFacts, Concat
<1>6. toClient \o lost = text \o after
  <2> DEFINE ta == text \o after
  <2>1. ta \in Bytes
    BY Concat
  <2>2. Ending(text, after) = ta
    BY <1>0, <1>4, Zenon DEF Ending
  <2> HIDE DEF ta
  <2>3. <<>> \o ta = ta /\ Stream(<<>>) = <<>>
    BY <2>1, ConcatEmpty, StreamEmpty
  <2>4. toClient \o lost = <<>> \o (<<>> \o ta)
    BY <1>3, <1>4, <2>2, <2>3, Zenon DEF ToClient
  <2> QED
    BY <2>3, <2>4, Zenon DEF ta
<1>7. copied = answer.due
  <2>1. ASSUME NEW s \in Outputs PROVE copied[s] = answer.due[s]
    <3>1. copied[s] \o (InChunk(s, rem) \o Payload(s, cs)) = Due(s) /\ copied[s] \in Bytes
      BY <1>3, ToClientFacts DEF ToClient
    <3>2. InChunk(s, rem) = <<>> /\ Payload(s, cs) = <<>>
      BY <1>4, StreamEmpty, Zenon DEF InChunk
    <3>3. <<>> \o <<>> = <<>> /\ copied[s] \o <<>> = copied[s]
      BY <3>1, EmptyBytes, ConcatEmpty
    <3>4. Due(s) = answer.due[s]
      BY <1>4, Zenon DEF Due
    <3> QED
      BY <3>1, <3>2, <3>3, <3>4, Zenon
  <2> QED
    BY <1>5, <2>1
<1>8. wanted = Len(text)
  <2>1. BUFSIZE - 1 \in Nat /\ Len(text) <= BUFSIZE - 1
    <3>1. BUFSIZE - 1 \in Nat /\ \A k \in 1 .. 3 : k <= BUFSIZE - 1
      BY Capacities
    <3>2. Len(text) \in 1 .. 3
      BY <1>4
    <3> QED
      BY <3>1, <3>2, Zenon
  <2>2. wanted = IF BUFSIZE - 1 <= Len(text) THEN BUFSIZE - 1 ELSE Len(text)
    BY <1>1, <1>4, <1>5, <2>1, MinOfTwo
  <2> QED
    BY <1>4, <2>1, <2>2, Capacities
<1>9. ASSUME spc # "dead", ~ reset PROVE exit'.code = answer.status % 256
  <2>1. Len(toClient) >= Len(text)
    <3>1. CASE Len(toClient) >= wanted
      BY <1>8, <3>1
    <3>2. CASE serverClosed
      <4>1. Answered
        BY <1>9, <3>2 DEF Control, Ends, Answered
      <4>2. Len(lost) <= Len(after)
        BY <1>3, <4>1, Zenon DEF ToClient
      <4>3. Len(toClient) + Len(lost) = Len(text) + Len(after)
        <5>1. Len(toClient \o lost) = Len(toClient) + Len(lost)
          BY <1>5, Concat
        <5>2. Len(text \o after) = Len(text) + Len(after)
          BY Concat
        <5> QED
          BY <1>6, <5>1, <5>2
      <4> QED
        BY <1>5, <4>2, <4>3
    <3> QED
      BY <1>1, <3>1, <3>2 DEF RecvReturns
  <2>2. Received(wanted) = Take(wanted, toClient)
    <3>1. ClientTypes
      BY DEF TypeInv, TypeOK, ClientTypes
    <3>2. \E n \in 0 .. Len(toClient) :
            /\ n = IF wanted <= Len(toClient) THEN wanted ELSE Len(toClient)
            /\ Received(wanted) = Take(n, toClient)
      BY <1>5, <1>8, <3>1, ReceivedTypes
    <3> QED
      BY <1>8, <2>1, <3>2
  <2>3. Advanced(wanted, toClient, lost, text, after)
    <3>1. wanted \in Nat /\ wanted <= Len(toClient) /\ wanted <= Len(text)
      BY <1>5, <1>8, <2>1
    <3> QED
      BY <1>5, <1>6, <3>1, Advance, Zenon
  <2>4. Take(wanted, toClient) = text
    <3>1. Take(Len(text), text) = text
      BY SkipAll
    <3> QED
      BY <1>8, <2>3, <3>1, Zenon DEF Advanced
  <2> QED
    BY <1>2, <1>4, <2>2, <2>4, Zenon
<1>10. AnswerIsTrue'
  <2>1. exit'.why # "unexpected" /\ exit'.why # "broken"
    BY <1>2
  <2>2. spc' # "dead" /\ ~ reset' => spc # "dead" /\ ~ reset
    BY <1>0
  <2>3. answer'.given /\ answer' = answer /\ copied' = copied
    BY <1>0, <1>4
  <2> QED
    BY <1>7, <1>9, <2>1, <2>2, <2>3, Zenon DEF AnswerIsTrue
<1>11. OutputInOrder'
  BY <1>0, Zenon DEF OutputInv, OutputInOrder
<1> QED
  BY <1>0, <1>10, <1>11 DEF OutputInv

(* A session that has closed the socket has written its exit chunk: a      *)
(* client that finds less than a header has lost the end of the stream.    *)
LEMMA HeaderIsThere ==
  ASSUME TypeInv, PrintInv, Control, OutputInv, cpc = "select", serverClosed,
         Len(toClient) < CHUNK_HEADER_LEN
  PROVE  spc = "dead" \/ reset
<1> SUFFICES ASSUME spc # "dead", ~ reset PROVE FALSE
  OBVIOUS
<1>1. Answered
  BY DEF Control, Ends, Answered
<1>2. PICK cs \in Seq(WireChunk), rem \in Bytes, text \in Bytes, after \in Bytes, lost \in Bytes :
        ToClient(cs, rem, text, after, lost)
  <2>1. OutputArrives /\ ~ Cut
    BY DEF OutputInv, Cut
  <2> QED
    BY <2>1, Zenon DEF OutputArrives
<1> DEFINE S == Stream(cs)
           E == Ending(text, after)
           SE == S \o E
           bytes == Chunk(CHUNKTYPE_EXIT, text)
<1>3. answer.given /\ rem = <<>> /\ Len(lost) <= Len(after)
      /\ toClient \o lost = rem \o SE
  <2>1. cpc # "recvToFD"
    OBVIOUS
  <2> QED
    BY <1>1, <1>2, <2>1, Zenon DEF ToClient
<1>4. bytes \in Bytes /\ Len(bytes) = CHUNK_HEADER_LEN + Len(text) /\ Len(text) \in Nat
  <2> DEFINE c == [type |-> CHUNKTYPE_EXIT, text |-> text]
  <2>1. c \in WireChunk /\ c.type = CHUNKTYPE_EXIT /\ c.text = text
    BY <1>2, <1>3, ChunkOfExit
  <2> HIDE DEF c
  <2>2. /\ Chunk(c.type, c.text) \in Bytes /\ Len(c.text) \in Nat
        /\ Len(Chunk(c.type, c.text)) = CHUNK_HEADER_LEN + Len(c.text)
    BY <2>1, ChunkParts
  <2> QED
    BY <2>1, <2>2, Zenon
<1>5. E = bytes \o after
  BY <1>3, Zenon DEF Ending
<1>6. S \in Bytes /\ E \in Bytes /\ SE \in Bytes /\ toClient \in Bytes
  BY <1>2, EndingType, ToClientFacts
<1> HIDE DEF S, E, bytes
<1>7. Len(E) = Len(bytes) + Len(after) /\ Len(after) \in Nat
  BY <1>4, <1>5, Concat
<1>8. Len(SE) = Len(S) + Len(E) /\ Len(S) \in Nat
  BY <1>6, Concat
<1> HIDE DEF SE
<1>9. <<>> \o SE = SE
  BY <1>6, ConcatEmpty
<1>10. Len(toClient) + Len(lost) = Len(SE) /\ Len(toClient) \in Nat /\ Len(lost) \in Nat
  <2>1. toClient \o lost = SE
    BY <1>3, <1>9, Zenon
  <2>2. /\ Len(toClient \o lost) = Len(toClient) + Len(lost)
        /\ Len(toClient) \in Nat /\ Len(lost) \in Nat
    BY <1>6, Concat
  <2> QED
    BY <2>1, <2>2
<1> QED
  BY <1>3, <1>4, <1>7, <1>8, <1>10 DEF CHUNK_HEADER_LEN

(* Every step of the client.                                               *)
LEMMA OutputInvClient ==
  ASSUME TypeInv, PrintInv, Control, OutputInv, ClientActions, UNCHANGED nailVars
  PROVE  OutputInv'
<1>1. CASE Send
  <2>1. /\ cpc = "send" /\ cpc' \in {"send", "select"} /\ ~ serverClosed
        /\ UNCHANGED <<toClient, serverClosed, reset, chunk, copied>>
    BY <1>1 DEF Send
  <2>2. ~ Cut
    BY <2>1 DEF Cut
  <2> QED
    BY <2>1, <2>2, SendingKeepsOutput
<1>2. CASE ReadStdin \/ StdinEnds
  <2>1. /\ cpc = "select" /\ cpc' = "send" /\ ~ serverClosed
        /\ UNCHANGED <<toClient, serverClosed, reset, chunk, copied>>
    BY <1>2 DEF ReadStdin, StdinEnds, Forward, SocketReadable, socketVars
  <2>2. ~ Cut
    BY <2>1 DEF Cut
  <2> QED
    BY <2>1, <2>2, SendingKeepsOutput
<1>3. CASE BrokenPipe \/ ProcessExitFails \/ Killed
  <2>1. \E why \in {"signal", "broken"} : \E code :
          Exit(why, code) /\ UNCHANGED copied /\ (why = "broken" => reset)
    BY <1>3 DEF BrokenPipe, ProcessExitFails, Killed
  <2>2. \A why \in {"signal", "broken"} : why # "status" /\ why # "unexpected"
    OBVIOUS
  <2> QED
    BY <2>1, <2>2, ExitKeepsOutput
<1>4. CASE RecvHeaderFails
  <2> DEFINE why == IF serverClosed THEN "broken" ELSE "split"
  <2>1. /\ cpc = "select" /\ Len(toClient) < CHUNK_HEADER_LEN
        /\ Exit(why, NAILGUN_CONNECTION_BROKEN) /\ UNCHANGED copied
    BY <1>4, Zenon DEF RecvHeaderFails
  <2>2. why # "status" /\ why # "unexpected" /\ (why = "broken" => serverClosed)
    OBVIOUS
  <2>3. serverClosed => spc = "dead" \/ reset
    BY <2>1, HeaderIsThere
  <2> HIDE DEF why
  <2> QED
    BY <2>1, <2>2, <2>3, ExitKeepsOutput
<1> QED
  BY <1>1, <1>2, <1>3, <1>4, SendToClosedKeepsOutput, RecvHeaderKeepsOutput,
     RecvToFDKeepsOutput, RecvToFDFailsKeepsOutput, ProcessExitKeepsOutput
  DEF ClientActions, ClientSteps

(* At the start nothing is under way to the client.                        *)
LEMMA OutputInvInit == Init => OutputInv
<1> SUFFICES ASSUME Init PROVE OutputInv
  OBVIOUS
<1>1. /\ toClient = <<>> /\ serverClosed = FALSE /\ cpc = "send"
      /\ copied = [s \in Outputs |-> <<>>] /\ phase = [t \in Threads |-> "run"]
      /\ holder = NoThread /\ spc = "request"
      /\ written = [s \in DOMAIN Texts |-> <<>>]
  BY DEF Init, SocketInit, ClientInit, NailInit
<1>2. ~ answer.given
  <2>1. answer = [given |-> FALSE, status |-> 0, due |-> written]
    BY DEF Init, NailInit
  <2> QED
    BY <2>1
<1>3. DOMAIN Texts = Outputs /\ Session \in Threads
  BY PrintableTexts
<1>4. /\ Stream(<<>>) = <<>> /\ \A s : Payload(s, <<>>) = <<>>
      /\ <<>> \o <<>> = <<>> /\ <<>> \in Bytes /\ Len(<<>>) = 0
  BY StreamEmpty, EmptyBytes, ConcatEmpty
<1>5. \A s \in Outputs : copied[s] = <<>> /\ Due(s) = <<>> /\ written[s] = <<>>
  BY <1>1, <1>2, <1>3 DEF Due
<1>6. /\ Ending(<<>>, <<>>) = <<>> /\ Unwritten = <<>> /\ ~ Answered
      /\ \A s : InChunk(s, <<>>) = <<>>
  BY <1>1, <1>2, <1>3 DEF Ending, Unwritten, Answered, InChunk
<1>7. ToClient(<<>>, <<>>, <<>>, <<>>, <<>>)
  <2>1. toClient \o <<>> = <<>> \o (Stream(<<>>) \o Ending(<<>>, <<>>))
    BY <1>1, <1>4, <1>6, Zenon
  <2>2. \A i \in 1 .. Len(<<>>) : <<>>[i].type \in Outputs
    BY <1>4
  <2>3. cpc # "recvToFD" /\ cpc # "processExit"
    BY <1>1
  <2>4. \A s \in Outputs : copied[s] \o (InChunk(s, <<>>) \o Payload(s, <<>>)) = Due(s)
    BY <1>4, <1>5, <1>6, Zenon
  <2> QED
    BY <1>2, <1>6, <2>1, <2>2, <2>3, <2>4, Zenon DEF ToClient
<1>8. OutputArrives
  <2>1. <<>> \in Seq(WireChunk)
    BY EmptySeq
  <2> QED
    BY <1>4, <1>7, <2>1, Zenon DEF OutputArrives
<1>9. OutputInOrder
  <2>1. IsPrefix(<<>>, <<>> \o <<>>)
    BY <1>4, PrefixIntro
  <2>2. IsPrefix(<<>>, <<>>)
    BY <1>4, <2>1, Zenon
  <2> QED
    BY <1>2, <1>5, <2>2, Zenon DEF OutputInOrder
<1>10. AnswerIsTrue
  BY <1>1 DEF AnswerIsTrue
<1> QED
  BY <1>8, <1>9, <1>10 DEF OutputInv

(* OutputInv is inductive where types, printing and control are as they    *)
(* should be.                                                              *)
LEMMA OutputInvStep == TypeInv /\ PrintInv /\ Control /\ OutputInv /\ [Next]_vars => OutputInv'
<1> SUFFICES ASSUME TypeInv, PrintInv, Control, OutputInv, [Next]_vars PROVE OutputInv'
  OBVIOUS
<1>1. CASE UNCHANGED vars
  <2>1. /\ UNCHANGED clientVars
        /\ UNCHANGED <<toClient, written, answer, serverClosed, reset, spc, phase,
                       printing, holder, pending>>
    BY <1>1 DEF vars, socketVars, clientVars, nailVars, outputVars
  <2>2. Unwritten' = Unwritten /\ Answered' = Answered
    BY <2>1 DEF Unwritten, Answered
  <2>3. OutputInOrder' /\ (cpc' # "ended" => OutputArrives')
    BY <2>1, <2>2, OutputUntouched
  <2>4. AnswerIsTrue'
    BY <2>1, AnswerIsTrueStays DEF OutputInv
  <2> QED
    BY <2>3, <2>4 DEF OutputInv
<1> QED
  BY <1>1, Sides, OutputInvClient, OutputInvServer

(* All of it together.                                                     *)
ConnectionInv == PrintInv /\ TypeInv /\ Control /\ InputInv /\ OutputInv

(* ConnectionInv is an inductive invariant.                                *)
LEMMA ConnectionInvHolds == Spec => []ConnectionInv
<1>1. Init => ConnectionInv
  BY PrintInvInit, TypesInit, ControlInit, InputInvInit, OutputInvInit DEF ConnectionInv
<1>2. ConnectionInv /\ [Next]_vars => ConnectionInv'
  BY PrintInvStep, TypesStep, ControlStep, InputInvStep, OutputInvStep DEF ConnectionInv
<1> QED
  BY <1>1, <1>2, PTL DEF Spec

(* The bytes of each stream arrive whole, in order and in no other stream, *)
(* whatever the sizes of chunks, buffers and reads, and however the threads*)
(* of a nail print (NGOutputStream.write, NGInputStream.read, recvToFD).   *)
THEOREM StreamsArriveInOrder == Spec => []StreamsInOrder
<1>1. ConnectionInv => StreamsInOrder
  BY DEF ConnectionInv, InputInv, InputInOrder, OutputInv, OutputInOrder, StreamsInOrder
<1> QED
  BY <1>1, ConnectionInvHolds, PTL

(* A client that ends by an exit chunk, of a server that goes on and of a  *)
(* socket that was not reset, ends by the first one of its session, after  *)
(* all that was printed before it and nothing else; and it finds a socket  *)
(* broken, closed by the server with less than a header in it, only where  *)
(* the server has ended or the socket was reset (NGSession.run, checkExit, *)
(* processnailgunstream, processExit).                                     *)
THEOREM ClientsAnswerIsTrue == Spec => []AnswerIsTrue
<1>1. ConnectionInv => AnswerIsTrue
  BY DEF ConnectionInv, OutputInv
<1> QED
  BY <1>1, ConnectionInvHolds, PTL
=============================================================================
