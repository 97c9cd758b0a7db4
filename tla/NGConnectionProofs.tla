------------------------- MODULE NGConnectionProofs -------------------------
(***************************************************************************)
(* NGConnection for all values of its constants: what its threads print    *)
(* and write (PrintInv), the types of all variables (TypeInv), and where   *)
(* the client and the session are (Control).                               *)
(***************************************************************************)
EXTENDS NGConnectionProperties, NGProtocolProofs

(* At most one thread is between the header and the end of a chunk, the    *)
(* one that holds the lock on the stream of the socket; and at most one    *)
(* thread is in a call of each PrintStream.  NGOutputStream.write fills    *)
(* its header array before it takes the lock: the array of a stream is     *)
(* only safe because of the second.                                        *)
OneWriter == \A t \in Threads : pending[t] # <<>> => holder = t
OnePrinter ==
  \A t, u \in Threads :
    /\ printing[t] # <<>> /\ printing[u] # <<>>
    /\ Head(printing[t]).type = Head(printing[u]).type
    => t = u

Types == DOMAIN Texts \cup {CHUNKTYPE_EXIT}

(* A chunk of an exit status is a number of up to three digits, or the end *)
(* of its line.                                                            *)
Printed(type) == {text \in Bytes : /\ Len(text) \in 1 .. MaxInt
                                   /\ type = CHUNKTYPE_EXIT => Len(text) <= 3}
PrintCall == {c \in [type : Types, text : Bytes] : c.text \in Printed(c.type)}

(* A call of println() writes all its chunks to one stream.                *)
OneStream == \A t \in Threads : \A i \in DOMAIN printing[t] :
               printing[t][i].type = Head(printing[t]).type

PrintTypes == /\ printing \in [Threads -> Seq(PrintCall)]
              /\ pending = [t \in Threads |-> pending[t]]
              /\ status \in [Threads -> 0 .. 999]
              /\ header \in [Types -> Nat]
              /\ filled \subseteq Threads

(* What a thread writes is the first chunk of its call.                    *)
WritesPrinted == \A t \in Threads : pending[t] # <<>> => printing[t] # <<>>

(* The array a thread has filled still has the length of its chunk.        *)
HeadersKept == \A t \in filled :
                 /\ printing[t] # <<>> /\ pending[t] = <<>>
                 /\ header[Head(printing[t]).type] = Len(Head(printing[t]).text)

PrintInv == /\ PrintTypes /\ OneStream /\ WritesPrinted
            /\ OneWriter /\ OnePrinter /\ HeadersKept

(* So a thread writes the chunk it prints, although the length is taken    *)
(* from the array that calls of a stream share (NGOutputStream.write).     *)
HeadChunk(t) == Chunk(Head(printing[t]).type, Head(printing[t]).text)

LEMMA ChunkOfFilled ==
  ASSUME PrintInv, NEW t \in Threads, BeginWrite(t)
  PROVE  printing[t] # <<>> /\ pending' = [pending EXCEPT ![t] = HeadChunk(t)]
<1> DEFINE c == Head(printing[t])
<1>1. /\ t \in filled
      /\ pending' = [pending EXCEPT ![t] = ToArray(header[c.type]) \o <<c.type>> \o c.text]
  BY Zenon DEF BeginWrite
<1>2. printing[t] # <<>> /\ header[c.type] = Len(c.text)
  BY <1>1 DEF PrintInv, HeadersKept
<1> HIDE DEF c
<1>3. Chunk(c.type, c.text) = ToArray(header[c.type]) \o <<c.type>> \o c.text
  BY <1>2, Zenon DEF Chunk
<1> QED
  BY <1>1, <1>2, <1>3, Zenon DEF HeadChunk, c

(* Tail() of the chunks of a call is empty or of the same stream.          *)
LEMMA TailOfCall ==
  ASSUME NEW calls_ \in Seq(PrintCall), calls_ # <<>>,
         \A i \in DOMAIN calls_ : calls_[i].type = Head(calls_).type
  PROVE  /\ Tail(calls_) \in Seq(PrintCall)
         /\ Tail(calls_) # <<>> => Head(Tail(calls_)).type = Head(calls_).type
         /\ \A i \in DOMAIN Tail(calls_) : Tail(calls_)[i].type = Head(calls_).type
<1> DEFINE tail == Tail(calls_)
<1>1. /\ tail \in Seq(PrintCall)
      /\ Len(tail) = Len(calls_) - 1
      /\ Len(calls_) \in Nat /\ Len(calls_) > 0
      /\ DOMAIN calls_ = 1 .. Len(calls_)
      /\ DOMAIN tail = 1 .. Len(tail)
  OBVIOUS
<1>2. \A i \in 1 .. Len(tail) : tail[i] = calls_[i + 1] /\ i + 1 \in DOMAIN calls_
  BY <1>1
<1>3. tail # <<>> => Head(tail) = tail[1] /\ 1 \in 1 .. Len(tail)
  BY <1>1
<1> QED
  BY <1>1, <1>2, <1>3

(* What the provers need of the constants.                                 *)
LEMMA Capacities == /\ Capacity \in Nat /\ CHUNK_HEADER_LEN < Capacity /\ Capacity <= MaxInt
                    /\ BUFSIZE \in Nat /\ 3 < BUFSIZE
                    /\ CHUNK_HEADER_LEN \in Nat
<1>1. Capacity \in Nat /\ CHUNK_HEADER_LEN < Capacity /\ Capacity <= MaxInt
  BY CapacityAssumption, MaxIntIsLarge DEF CHUNK_HEADER_LEN
<1> QED
  BY <1>1, ClientAssumption DEF CHUNK_HEADER_LEN

(* What nails and sessions give to print() and println().                  *)
LEMMA PrintableTexts ==
  /\ Session \in Threads /\ NoThread \notin Threads
  /\ DOMAIN Texts = Outputs
  /\ EXIT_EXCEPTION \in 0 .. 999
  /\ Statuses \subseteq 0 .. 999
  /\ \A s \in DOMAIN Texts : s \in Types /\ Texts[s] \subseteq Printed(s)
  /\ CHUNKTYPE_STDERR \in DOMAIN Texts /\ CHUNKTYPE_EXIT \in Types
  /\ Types \subseteq Byte
  /\ NewLine \in Printed(CHUNKTYPE_EXIT)
  /\ \A n \in 0 .. 999 : Decimal[n] \in Printed(CHUNKTYPE_EXIT)
<1>1. /\ DOMAIN Texts = Outputs /\ NoThread \notin Threads /\ Statuses \subseteq 0 .. 999
      /\ \A s \in DOMAIN Texts : /\ Texts[s] \subseteq Bytes
                                 /\ \A text \in Texts[s] : Len(text) \in 1 .. MaxInt
  BY NailAssumption DEF Threads, Outputs
<1>2. Session \in Threads /\ EXIT_EXCEPTION \in 0 .. 999
  BY DEF Threads, EXIT_EXCEPTION
<1>3. /\ \A s \in Outputs : s # CHUNKTYPE_EXIT /\ s \in Byte
      /\ CHUNKTYPE_STDERR \in Outputs /\ CHUNKTYPE_EXIT \in Byte
  BY DEF Outputs, CHUNKTYPE_STDOUT, CHUNKTYPE_STDERR, CHUNKTYPE_EXIT, Byte
<1>4. \A s \in DOMAIN Texts : s \in Types /\ Texts[s] \subseteq Printed(s)
  BY <1>1, <1>3, Zenon DEF Types, Printed
<1>5. CHUNKTYPE_EXIT \in Types /\ Types \subseteq Byte
  BY <1>1, <1>3, Zenon DEF Types
<1>6. NewLine \in Printed(CHUNKTYPE_EXIT)
  <2>1. NewLine \in Bytes /\ Len(NewLine) = 1
    BY DEF NewLine, Bytes, Byte
  <2> HIDE DEF NewLine
  <2>2. Len(NewLine) \in 1 .. MaxInt /\ Len(NewLine) <= 3
    BY <2>1, MaxIntIsLarge
  <2> QED
    BY <2>1, <2>2, Zenon DEF Printed
<1>7. ASSUME NEW n \in 0 .. 999 PROVE Decimal[n] \in Printed(CHUNKTYPE_EXIT)
  <2>1. n \in Nat
    OBVIOUS
  <2>2. Decimal[n] \in Bytes
    BY <2>1, DecimalBytes
  <2> DEFINE length == Len(Decimal[n])
  <2>3. length \in 1 .. 3
    BY DecimalLength
  <2> HIDE DEF length
  <2>4. length \in 1 .. MaxInt /\ length <= 3
    BY <2>3, MaxIntIsLarge
  <2> QED
    BY <2>2, <2>4, Zenon DEF Printed, length
<1> QED
  BY <1>1, <1>2, <1>3, <1>4, <1>5, <1>6, <1>7, Zenon

(* A call of a PrintStream starts when no other thread is in one.          *)
LEMMA PrintsKeepsInv ==
  ASSUME PrintInv, NEW t \in Threads, NEW type \in Types,
         NEW texts \in Seq(Printed(type)), texts # <<>>,
         printing[t] = <<>>, Prints(t, type, texts), status' \in [Threads -> 0 .. 999]
  PROVE  PrintInv'
<1> DEFINE new == [i \in DOMAIN texts |-> [type |-> type, text |-> texts[i]]]
<1>1. /\ new \in Seq(PrintCall) /\ new # <<>>
      /\ \A i \in DOMAIN new : new[i].type = type
      /\ Head(new).type = type
  <2>1. Len(texts) \in Nat /\ Len(texts) > 0 /\ DOMAIN texts = 1 .. Len(texts)
    OBVIOUS
  <2>2. ASSUME NEW i \in 1 .. Len(texts)
        PROVE  texts[i] \in Printed(type) /\ new[i] \in PrintCall /\ new[i].type = type
    <3>1. texts[i] \in Printed(type) /\ texts[i] \in Bytes
      BY ElementOfSeq DEF Printed
    <3>2. new[i] = [type |-> type, text |-> texts[i]]
      BY <2>1
    <3> HIDE DEF new
    <3> QED
      BY <3>1, <3>2 DEF PrintCall
  <2>3. new \in [1 .. Len(texts) -> PrintCall]
    BY <2>1, <2>2
  <2>4. new \in Seq(PrintCall) /\ Len(new) = Len(texts)
    BY <2>1, <2>3
  <2> HIDE DEF new
  <2>5. new # <<>> /\ Head(new) = new[1]
    BY <2>1, <2>4
  <2> QED
    BY <2>1, <2>2, <2>3, <2>4, <2>5
<1>2. /\ printing' = [printing EXCEPT ![t] = new]
      /\ UNCHANGED <<holder, pending, header, filled>>
      /\ \A u \in Threads : printing[u] # <<>> => Head(printing[u]).type # type
  BY DEF Prints, Unlocked, headerVars
<1> HIDE DEF new
<1>3. PrintTypes'
  BY <1>1, <1>2 DEF PrintInv, PrintTypes
<1>4. \A u \in Threads : printing'[u] = IF u = t THEN new ELSE printing[u]
  BY <1>2 DEF PrintInv, PrintTypes
<1>5. OneStream'
  BY <1>1, <1>4 DEF PrintInv, OneStream
<1>6. OneWriter' /\ WritesPrinted'
  BY <1>1, <1>2, <1>4 DEF PrintInv, OneWriter, WritesPrinted
<1>7. OnePrinter'
  BY <1>1, <1>2, <1>4 DEF PrintInv, OnePrinter
<1>8. HeadersKept'
  <2>1. t \notin filled /\ filled' = filled /\ filled \subseteq Threads
    BY <1>2 DEF PrintInv, PrintTypes, HeadersKept
  <2> QED
    BY <1>2, <1>4, <2>1 DEF PrintInv, HeadersKept
<1> QED
  BY <1>3, <1>5, <1>6, <1>7, <1>8 DEF PrintInv

(* The end of a chunk, with which write() returns (NGOutputStream.write).  *)
LEMMA EndWriteKeepsInv ==
  ASSUME PrintInv, NEW t \in Threads, printing[t] # <<>>, pending[t] # <<>>,
         pending' = [pending EXCEPT ![t] = <<>>],
         \A u \in Threads : u # t => pending[u] = <<>>,
         EndWrite(t), UNCHANGED <<status, header, filled>>
  PROVE  PrintInv'
<1>1. /\ printing' = [printing EXCEPT ![t] = Tail(printing[t])]
      /\ printing[t] \in Seq(PrintCall)
      /\ \A i \in DOMAIN printing[t] : printing[t][i].type = Head(printing[t]).type
  BY DEF EndWrite, PrintInv, PrintTypes, OneStream
<1>2. /\ Tail(printing[t]) \in Seq(PrintCall)
      /\ Tail(printing[t]) # <<>>
           => Head(Tail(printing[t])).type = Head(printing[t]).type
      /\ \A i \in DOMAIN Tail(printing[t]) :
           Tail(printing[t])[i].type = Head(printing[t]).type
  BY <1>1, TailOfCall
<1>3. PrintTypes'
  BY <1>1, <1>2 DEF PrintInv, PrintTypes
<1>4. \A u \in Threads :
        printing'[u] = IF u = t THEN Tail(printing[t]) ELSE printing[u]
  BY <1>1 DEF PrintInv, PrintTypes
<1>5. Tail(printing[t]) = <<>> \/ Tail(printing[t]) # <<>>
  OBVIOUS
<1>6. OneStream'
  <2> SUFFICES ASSUME NEW u \in Threads, NEW i \in DOMAIN printing'[u]
               PROVE  printing'[u][i].type = Head(printing'[u]).type
    BY DEF OneStream
  <2>1. CASE u # t
    BY <2>1, <1>4 DEF PrintInv, OneStream
  <2>2. CASE u = t
    <3>1. printing'[u] = Tail(printing[t])
      BY <2>2, <1>4
    <3>2. Tail(printing[t]) # <<>>
      BY <3>1
    <3> QED
      BY <3>1, <3>2, <1>2
  <2> QED
    BY <2>1, <2>2
<1>7. OneWriter' /\ WritesPrinted'
  <2>1. \A u \in Threads : pending'[u] = <<>>
    BY DEF PrintInv, PrintTypes
  <2> QED
    BY <2>1 DEF OneWriter, WritesPrinted
<1>8. \A u \in Threads : printing'[u] # <<>> =>
        printing[u] # <<>> /\ Head(printing'[u]).type = Head(printing[u]).type
  BY <1>2, <1>4
<1>9. OnePrinter'
  BY <1>8 DEF PrintInv, OnePrinter
<1>10. HeadersKept'
  <2>1. t \notin filled /\ filled' = filled /\ filled \subseteq Threads
    BY DEF PrintInv, PrintTypes, HeadersKept
  <2>2. \A u \in filled : printing'[u] = printing[u] /\ pending'[u] = <<>>
    BY <1>4, <2>1 DEF PrintInv, PrintTypes
  <2> QED
    BY <2>1, <2>2 DEF PrintInv, HeadersKept
<1> QED
  BY <1>3, <1>6, <1>7, <1>9, <1>10 DEF PrintInv

(* No thread prints before the nail runs.                                  *)
LEMMA PrintInvInit == Init => PrintInv
<1> SUFFICES ASSUME Init PROVE PrintInv
  OBVIOUS
<1>1. /\ printing = [t \in Threads |-> <<>>]
      /\ pending = [t \in Threads |-> <<>>]
      /\ status = [t \in Threads |-> 0]
      /\ header = [s \in Types |-> 0] /\ filled = {}
  BY DEF Init, NailInit, Types
<1>2. PrintTypes
  BY <1>1 DEF PrintTypes
<1>3. \A t \in Threads : printing[t] = <<>> /\ pending[t] = <<>>
  BY <1>1
<1> QED
  BY <1>1, <1>2, <1>3
  DEF PrintInv, OneStream, WritesPrinted, OneWriter, OnePrinter, HeadersKept

(* The steps that leave the streams alone.                                 *)
LEMMA QuietKeepsInv ==
  ASSUME PrintInv, UNCHANGED <<printing, pending, holder, headerVars>>,
         status' \in [Threads -> 0 .. 999]
  PROVE  PrintInv'
<1>1. PrintTypes'
  BY Zenon DEF PrintInv, PrintTypes, headerVars
<1>2. OneStream' /\ WritesPrinted' /\ OneWriter' /\ OnePrinter'
  BY Zenon DEF PrintInv, OneStream, WritesPrinted, OneWriter, OnePrinter
<1>3. HeadersKept'
  BY Zenon DEF PrintInv, HeadersKept, headerVars
<1> QED
  BY <1>1, <1>2, <1>3 DEF PrintInv

(* Every step of either process keeps the invariant.                       *)
LEMMA PrintInvStep == PrintInv /\ [Next]_vars => PrintInv'
<1> SUFFICES ASSUME PrintInv, [Next]_vars PROVE PrintInv'
  OBVIOUS
<1> DEFINE Same == UNCHANGED <<printing, pending, holder, headerVars>>
<1>types. /\ status \in [Threads -> 0 .. 999]
          /\ Session \in Threads
          /\ EXIT_EXCEPTION \in 0 .. 999
          /\ Statuses \subseteq 0 .. 999
          /\ \A s \in DOMAIN Texts : s \in Types /\ Texts[s] \subseteq Printed(s)
          /\ CHUNKTYPE_STDERR \in DOMAIN Texts /\ CHUNKTYPE_EXIT \in Types
          /\ NewLine \in Printed(CHUNKTYPE_EXIT)
          /\ \A n \in 0 .. 999 : Decimal[n] \in Printed(CHUNKTYPE_EXIT)
  BY PrintableTexts DEF PrintInv, PrintTypes
<1>one. \A type \in Types : \A text \in Printed(type) :
          <<text>> \in Seq(Printed(type)) /\ <<text>> # <<>>
  OBVIOUS
<1>two. \A n \in 0 .. 999 : /\ <<Decimal[n], NewLine>> \in Seq(Printed(CHUNKTYPE_EXIT))
                            /\ <<Decimal[n], NewLine>> # <<>>
  <2> SUFFICES ASSUME NEW n \in 0 .. 999
               PROVE  /\ <<Decimal[n], NewLine>> \in Seq(Printed(CHUNKTYPE_EXIT))
                      /\ <<Decimal[n], NewLine>> # <<>>
    OBVIOUS
  <2>1. Decimal[n] \in Printed(CHUNKTYPE_EXIT) /\ NewLine \in Printed(CHUNKTYPE_EXIT)
    BY <1>types
  <2> QED
    BY <2>1
<1>1. CASE UNCHANGED vars
  BY <1>1, <1>types, QuietKeepsInv DEF vars, nailVars, outputVars
<1>2. CASE UNCHANGED nailVars
  BY <1>2, <1>types, QuietKeepsInv DEF nailVars, outputVars
<1>3. CASE ReadRequest \/ AbandonRequest \/ CloseSocket \/ Die \/ StartRead
             \/ ReadHeader \/ ReadData \/ ReadCut \/ ReadFails \/ ReadEof
  <2>1. Same /\ UNCHANGED status
    BY <1>3 DEF ReadRequest, AbandonRequest, CloseSocket, Die, StartRead,
                ReadHeader, ReadData, ReadCut, ReadFails, ReadEof, outputVars
  <2> QED
    BY <2>1, <1>types, QuietKeepsInv
<1>4. CASE NailReturns
  <2>1. Same /\ status' \in [Threads -> 0 .. 999]
    BY <1>4, <1>types DEF NailReturns, outputVars
  <2> QED
    BY <2>1, QuietKeepsInv
<1>5. CASE \E t \in Threads : ExitPropagates(t) \/ ExitCaught(t)
  <2>1. Same /\ UNCHANGED status
    BY <1>5 DEF ExitPropagates, ExitCaught, outputVars
  <2> QED
    BY <2>1, <1>types, QuietKeepsInv
<1>6. CASE NailThrows
  <2>1. PICK trace \in Texts[CHUNKTYPE_STDERR] :
          Prints(Session, CHUNKTYPE_STDERR, <<trace>>)
    BY <1>6 DEF NailThrows
  <2>2. printing[Session] = <<>> /\ status' \in [Threads -> 0 .. 999]
    BY <1>6, <1>types DEF NailThrows, Free
  <2>3. trace \in Printed(CHUNKTYPE_STDERR) /\ CHUNKTYPE_STDERR \in Types
    BY <1>types
  <2> QED
    BY <2>1, <2>2, <2>3, <1>types, <1>one, PrintsKeepsInv
<1>7. CASE Answer
  <2>1. /\ Prints(Session, CHUNKTYPE_EXIT, <<Decimal[status[Session]], NewLine>>)
        /\ printing[Session] = <<>> /\ UNCHANGED status
    BY <1>7 DEF Answer, PrintStatus
  <2>2. status[Session] \in 0 .. 999
    BY <1>types
  <2> QED
    BY <2>1, <2>2, <1>types, <1>two, PrintsKeepsInv
<1>8. ASSUME NEW t \in Threads, NEW type \in DOMAIN Texts, PrintText(t, type)
      PROVE  PrintInv'
  <2>1. PICK text \in Texts[type] : Prints(t, type, <<text>>)
    BY <1>8 DEF PrintText
  <2>2. printing[t] = <<>> /\ UNCHANGED status
    BY <1>8 DEF PrintText, MayCall, Free
  <2>3. text \in Printed(type) /\ type \in Types
    BY <1>types
  <2> QED
    BY <2>1, <2>2, <2>3, <1>types, <1>one, PrintsKeepsInv
<1>9. ASSUME NEW t \in Threads, NEW n \in Statuses, SystemExit(t, n)
      PROVE  PrintInv'
  <2>1. /\ Prints(t, CHUNKTYPE_EXIT, <<Decimal[n], NewLine>>)
        /\ printing[t] = <<>> /\ status' = [status EXCEPT ![t] = n]
    BY <1>9 DEF SystemExit, PrintStatus, MayCall, Free
  <2>2. n \in 0 .. 999
    BY <1>types
  <2>3. status' \in [Threads -> 0 .. 999]
    BY <2>1, <2>2, <1>types
  <2> QED
    BY <2>1, <2>2, <2>3, <1>types, <1>two, PrintsKeepsInv
<1>10. ASSUME NEW t \in Threads, BeginWrite(t)
       PROVE  PrintInv'
  <2>1. /\ holder = NoThread /\ holder' = t /\ t \in filled
        /\ pending' = [pending EXCEPT ![t] = HeadChunk(t)]
        /\ filled' = filled \ {t}
        /\ UNCHANGED <<printing, status, header>>
    BY <1>10, ChunkOfFilled DEF BeginWrite
  <2>2. NoThread \notin Threads
    BY NailAssumption DEF Threads
  <2>3. \A u \in Threads : u # t => pending'[u] = <<>>
    BY <2>1, <2>2 DEF PrintInv, PrintTypes, OneWriter
  <2>4. OneWriter' /\ WritesPrinted'
    BY <2>1, <2>3 DEF PrintInv, OneWriter, WritesPrinted, HeadersKept
  <2>5. PrintTypes' /\ OneStream' /\ OnePrinter'
    BY <2>1 DEF PrintInv, PrintTypes, OneStream, OnePrinter
  <2>6. HeadersKept'
    BY <2>1, <2>3 DEF PrintInv, PrintTypes, HeadersKept
  <2> QED
    BY <2>4, <2>5, <2>6 DEF PrintInv
<1>11. ASSUME NEW t \in Threads, Write(t)
       PROVE  PrintInv'
  <2>1. PICK n : /\ pending' = [pending EXCEPT ![t] = Skip(n, pending[t])]
                 /\ InWrite(t)
    BY <1>11 DEF Write
  <2>2. /\ UNCHANGED <<status, header, filled>> /\ holder = t
        /\ \A u \in Threads : u # t => pending[u] = <<>>
        /\ t \notin filled /\ filled \subseteq Threads
    BY <1>11, <2>1
    DEF Write, PrintInv, PrintTypes, OneWriter, HeadersKept, InWrite, headerVars
  <2>3. CASE pending'[t] # <<>>
    <3>1. UNCHANGED <<holder, printing>>
      BY <1>11, <2>3 DEF Write, InWrite
    <3>2. OneWriter' /\ WritesPrinted'
      BY <2>1, <2>2, <3>1 DEF PrintInv, PrintTypes, OneWriter, WritesPrinted, InWrite
    <3>3. PrintTypes' /\ OneStream' /\ OnePrinter'
      BY <2>1, <2>2, <3>1 DEF PrintInv, PrintTypes, OneStream, OnePrinter
    <3>4. \A u \in filled : pending'[u] = <<>>
      BY <2>1, <2>2 DEF PrintInv, PrintTypes
    <3>5. HeadersKept'
      BY <2>2, <3>1, <3>4 DEF PrintInv, HeadersKept
    <3> QED
      BY <3>2, <3>3, <3>5 DEF PrintInv
  <2>4. CASE pending'[t] = <<>>
    <3>1. EndWrite(t)
      BY <1>11, <2>4 DEF Write, InWrite
    <3>2. pending' = [pending EXCEPT ![t] = <<>>]
      BY <2>1, <2>4 DEF PrintInv, PrintTypes
    <3>3. printing[t] # <<>> /\ pending[t] # <<>>
      BY <1>11, <2>1 DEF InWrite, PrintInv, WritesPrinted
    <3> QED
      BY <2>2, <3>1, <3>2, <3>3, EndWriteKeepsInv
  <2> QED
    BY <2>3, <2>4
<1>12. ASSUME NEW t \in Threads, WriteFails(t)
       PROVE  PrintInv'
  <2>1. /\ InWrite(t) /\ pending' = [pending EXCEPT ![t] = <<>>]
        /\ EndWrite(t) /\ UNCHANGED <<status, header, filled>>
    BY <1>12 DEF WriteFails, headerVars
  <2>2. /\ printing[t] # <<>> /\ pending[t] # <<>>
        /\ \A u \in Threads : u # t => pending[u] = <<>>
    BY <2>1 DEF InWrite, PrintInv, OneWriter, WritesPrinted
  <2> QED
    BY <2>1, <2>2, EndWriteKeepsInv
<1>13. ASSUME NEW t \in Threads, FillHeader(t)
       PROVE  PrintInv'
  <2>1. /\ printing[t] # <<>> /\ pending[t] = <<>> /\ filled' = filled \cup {t}
        /\ header' = [header EXCEPT ![Head(printing[t]).type] =
                        Len(Head(printing[t]).text)]
        /\ UNCHANGED <<printing, pending, holder, status>>
    BY <1>13 DEF FillHeader, InWrite
  <2>2. /\ Head(printing[t]).type \in Types /\ Len(Head(printing[t]).text) \in Nat
        /\ filled \subseteq Threads /\ header \in [Types -> Nat]
    <3>1. printing[t] \in Seq(PrintCall)
      BY DEF PrintInv, PrintTypes
    <3>2. Head(printing[t]) \in PrintCall
      BY <2>1, <3>1
    <3> QED
      BY <3>2 DEF PrintCall, PrintInv, PrintTypes, Bytes
  <2>3. OneStream' /\ WritesPrinted' /\ OneWriter' /\ OnePrinter'
    BY <2>1, Zenon DEF PrintInv, OneStream, WritesPrinted, OneWriter, OnePrinter
  <2>4. PrintTypes'
    BY <2>1, <2>2 DEF PrintInv, PrintTypes
  <2>5. \A u \in filled : u # t => Head(printing[u]).type # Head(printing[t]).type
    BY <2>1, <2>2 DEF PrintInv, HeadersKept, OnePrinter
  <2>6. HeadersKept'
    BY <2>1, <2>2, <2>5 DEF PrintInv, HeadersKept
  <2> QED
    BY <2>3, <2>4, <2>6 DEF PrintInv
<1> QED
  BY <1>1, <1>2, <1>3, <1>4, <1>5, <1>6, <1>7, <1>8, <1>9, <1>10, <1>11, <1>12, <1>13
  DEF Next, Client, Server

(* The two locks hold for any nail, any number of threads and any client,  *)
(* and no thread writes a header of another's length (NGOutputStream.write,*)
(* java.io.PrintStream).                                                   *)
THEOREM WritersExclude == Spec => [](OneWriter /\ OnePrinter /\ HeadersKept)
<1>1. PrintInv => OneWriter /\ OnePrinter /\ HeadersKept
  BY DEF PrintInv
<1> QED
  BY <1>1, PrintInvInit, PrintInvStep, PTL DEF Spec

-----------------------------------------------------------------------------
(* Types.                                                                  *)

TypeInv == /\ TypeOK
           /\ cpc = "recvToFD" => /\ chunk.type \in Outputs
                                  /\ chunk.bytesRead <= chunk.len

SessionTypes == /\ spc \in {"request", "nail", "closed", "abandoned", "dead"}
                /\ phase \in [Threads -> SessionPhases]
                /\ calls \in 0 .. MaxCalls
InputTypes == remaining \in Nat /\ inEof \in BOOLEAN /\ got \in Bytes
OutputTypes == /\ holder \in Threads \cup {NoThread}
               /\ pending \in [Threads -> Bytes]
               /\ written \in [DOMAIN Texts -> Bytes]
               /\ answer \in [given : BOOLEAN, status : Nat,
                              due : [DOMAIN Texts -> Bytes]]

(* What threads have still to print has its types by PrintInv.             *)
LEMMA NailTypes == PrintInv => (NailTypeOK <=> SessionTypes /\ InputTypes /\ OutputTypes)
<1> SUFFICES ASSUME PrintInv
             PROVE  NailTypeOK <=> SessionTypes /\ InputTypes /\ OutputTypes
  OBVIOUS
<1>1. /\ status \in [Threads -> Nat]
      /\ header \in [Types -> Nat] /\ filled \subseteq Threads
  <2>1. /\ status \in [Threads -> 0 .. 999]
        /\ header \in [Types -> Nat] /\ filled \subseteq Threads
    BY Zenon DEF PrintInv, PrintTypes
  <2> QED
    BY <2>1
<1>2. ASSUME NEW t \in Threads, NEW i \in DOMAIN printing[t]
      PROVE  printing[t][i] \in [type : Types, text : Bytes]
  <2>1. printing[t] \in Seq(PrintCall)
    BY DEF PrintInv, PrintTypes
  <2>2. printing[t][i] \in PrintCall
    BY <2>1
  <2> QED
    BY <2>2 DEF PrintCall
<1> QED
  BY <1>1, <1>2, Zenon DEF NailTypeOK, SessionTypes, InputTypes, OutputTypes, Types

(* A reset cuts what the client can still read.                            *)
LEMMA ResetTypes ==
  ASSUME SocketTypeOK, Reset
  PROVE  reset' \in BOOLEAN /\ toClient' \in Bytes /\ Len(toClient') <= Capacity
<1>1. PICK n \in 0 .. Len(toClient) : toClient' = Take(n, toClient)
  BY DEF Reset
<1>2. Take(n, toClient) \in Bytes /\ Len(Take(n, toClient)) = n
  BY TakeSkip DEF SocketTypeOK
<1>3. n <= Capacity /\ reset'
  <2>1. Len(toClient) \in Nat /\ Len(toClient) <= Capacity /\ Capacity \in Nat
    BY Capacities DEF SocketTypeOK, Bytes
  <2> QED
    BY <2>1 DEF Reset
<1> QED
  BY <1>1, <1>2, <1>3

(* Closing the server's end, with or without a reset.                      *)
LEMMA CloseServerEndTypes ==
  ASSUME SocketTypeOK, CloseServerEnd PROVE SocketTypeOK'
<1>1. <<>> \in Bytes /\ Len(<<>>) <= Capacity
  BY EmptyBytes, Capacities
<1>2. toServer' = <<>> /\ serverClosed' /\ UNCHANGED clientClosed
  BY DEF CloseServerEnd
<1>3. CASE UNCHANGED <<toClient, reset>>
  BY <1>1, <1>2, <1>3 DEF SocketTypeOK
<1>4. CASE Reset
  BY <1>1, <1>2, <1>4, ResetTypes DEF SocketTypeOK
<1> QED
  BY <1>3, <1>4 DEF CloseServerEnd

(* The client ends with a byte of status and its end closed.               *)
LEMMA ExitTypes ==
  ASSUME SocketTypeOK, NEW why \in Whys, NEW code \in Nat, Exit(why, code)
  PROVE  /\ SocketTypeOK'
         /\ cpc' = "ended"
         /\ exit' \in [why : Whys, code : Byte]
<1>1. <<>> \in Bytes /\ Len(<<>>) <= Capacity
  BY EmptyBytes, Capacities
<1>2. /\ toClient' = <<>> /\ clientClosed' /\ UNCHANGED <<serverClosed, reset>>
      /\ cpc' = "ended" /\ exit' = [why |-> why, code |-> code % 256]
  BY DEF Exit, CloseClientEnd
<1>3. toServer' \in Bytes /\ Len(toServer') <= Capacity
  <2>1. CASE UNCHANGED toServer
    BY <2>1 DEF SocketTypeOK
  <2>2. CASE \E n \in 0 .. Len(toServer) : toServer' = Take(n, toServer)
    <3>1. PICK n \in 0 .. Len(toServer) : toServer' = Take(n, toServer)
      BY <2>2
    <3>2. Take(n, toServer) \in Bytes /\ Len(Take(n, toServer)) = n
      BY TakeSkip DEF SocketTypeOK
    <3>3. n <= Capacity
      <4>1. Len(toServer) \in Nat /\ Len(toServer) <= Capacity /\ Capacity \in Nat
        BY Capacities DEF SocketTypeOK, Bytes
      <4> QED
        BY <4>1
    <3> QED
      BY <3>1, <3>2, <3>3
  <2> QED
    BY <2>1, <2>2 DEF Exit, CloseClientEnd
<1>4. code % 256 \in Byte
  BY DivMod DEF Byte
<1> QED
  BY <1>1, <1>2, <1>3, <1>4 DEF SocketTypeOK

(* A send puts into a stream no more than there is room for.               *)
LEMMA FitsTypes ==
  ASSUME NEW channel \in Bytes, Len(channel) <= Capacity, NEW bytes \in Bytes
  PROVE  /\ Fits(channel, bytes) \in 0 .. Len(bytes)
         /\ channel \o Take(Fits(channel, bytes), bytes) \in Bytes
         /\ Len(channel \o Take(Fits(channel, bytes), bytes)) <= Capacity
         /\ Skip(Fits(channel, bytes), bytes) \in Bytes
<1> DEFINE n == Fits(channel, bytes)
<1>1. Len(channel) \in Nat /\ Len(bytes) \in Nat /\ Capacity - Len(channel) \in Nat
  BY Capacities DEF Bytes
<1>2. n = IF Len(bytes) <= Capacity - Len(channel) THEN Len(bytes) ELSE Capacity - Len(channel)
  BY <1>1, MinOfTwo DEF Fits
<1> HIDE DEF n
<1>3. n \in 0 .. Len(bytes) /\ Len(channel) + n <= Capacity
  BY <1>1, <1>2, Capacities
<1>4. Take(n, bytes) \in Bytes /\ Len(Take(n, bytes)) = n /\ Skip(n, bytes) \in Bytes
  BY <1>3, TakeSkip
<1>5. /\ channel \o Take(n, bytes) \in Bytes
      /\ Len(channel \o Take(n, bytes)) = Len(channel) + Len(Take(n, bytes))
  BY <1>4, Concat
<1> QED
  BY <1>3, <1>4, <1>5 DEF n

(* A header of bytes holds a length and a type.                            *)
LEMMA FromArrayType ==
  ASSUME NEW s \in Bytes, Len(s) >= CHUNK_HEADER_LEN
  PROVE  FromArray(s) \in Nat /\ s[CHUNK_HEADER_LEN] \in Byte
<1>1. Len(s) >= 5 /\ Len(s) \in Nat /\ \A i \in 1 .. Len(s) : s[i] \in Byte
  BY ElementOfSeq DEF Bytes, CHUNK_HEADER_LEN
<1>a. \A b \in Byte : b \in Nat
  BY DEF Byte
<1>2. /\ s[1] \in Byte /\ s[2] \in Byte /\ s[3] \in Byte
      /\ s[4] \in Byte /\ s[5] \in Byte
  BY <1>1
<1>3. PICK b1 \in Nat, b2 \in Nat, b3 \in Nat, b4 \in Nat :
        s[1] = b1 /\ s[2] = b2 /\ s[3] = b3 /\ s[4] = b4
  <2>1. s[1] \in Nat /\ s[2] \in Nat /\ s[3] \in Nat /\ s[4] \in Nat
    BY <1>2, <1>a, Zenon
  <2> QED
    BY <2>1, Zenon
<1>4. 256 * (256 * (256 * b1 + b2) + b3) + b4 \in Nat
  OBVIOUS
<1> QED
  BY <1>2, <1>3, <1>4, Zenon DEF FromArray, CHUNK_HEADER_LEN

ClientTypes == /\ SocketTypeOK /\ ClientTypeOK
               /\ cpc = "recvToFD" => /\ chunk.type \in Outputs
                                      /\ chunk.bytesRead <= chunk.len

(* A step that ends the client.                                            *)
LEMMA ExitKeepsTypes ==
  ASSUME ClientTypes, NEW why \in Whys, NEW code \in Nat, Exit(why, code),
         UNCHANGED <<unsent, read, eof, chunk, copied>>
  PROVE  ClientTypes'
<1>1. SocketTypeOK' /\ cpc' = "ended" /\ exit' \in [why : Whys, code : Byte]
  BY ExitTypes DEF ClientTypes
<1> QED
  BY <1>1 DEF ClientTypes, ClientTypeOK

(* The client's steps that leave the socket alone.                         *)
LEMMA QuietClientTypes ==
  ASSUME ClientTypes, UNCHANGED <<socketVars, copied, exit>>,
         unsent' \in Bytes, read' \in 0 .. Len(Stdin), eof' \in BOOLEAN,
         UNCHANGED chunk,
         cpc' \in {"send", "select"}
  PROVE  ClientTypes'
<1>1. SocketTypeOK'
  BY DEF SocketTypeOK, ClientTypes, socketVars
<1> QED
  BY <1>1 DEF ClientTypes, ClientTypeOK

(* sendChunk() of the request and of input.                                *)
LEMMA SendTypes ==
  ASSUME ClientTypes, Send \/ SendToClosed PROVE ClientTypes'
<1>0. /\ toServer \in Bytes /\ Len(toServer) <= Capacity /\ unsent \in Bytes
      /\ Len(unsent) \in Nat
  BY DEF ClientTypes, SocketTypeOK, ClientTypeOK, Bytes
<1>1. unsent' \in Bytes /\ SocketTypeOK'
  <2>1. CASE Send
    <3>1. PICK n : n = Fits(toServer, unsent) /\ toServer' = toServer \o Take(n, unsent)
                   /\ unsent' = Skip(n, unsent)
      BY <2>1 DEF Send
    <3>2. toServer' \in Bytes /\ Len(toServer') <= Capacity /\ unsent' \in Bytes
      BY <1>0, <3>1, FitsTypes
    <3>3. UNCHANGED <<toClient, clientClosed, serverClosed, reset>>
      BY <2>1 DEF Send
    <3> QED
      BY <3>2, <3>3 DEF ClientTypes, SocketTypeOK
  <2>2. CASE SendToClosed
    <3>1. PICK n \in 1 .. Len(unsent) : unsent' = Skip(n, unsent)
      BY <2>2 DEF SendToClosed
    <3>2. n \in 0 .. Len(unsent)
      BY <1>0
    <3>3. unsent' \in Bytes
      BY <1>0, <3>1, <3>2, TakeSkip
    <3>4. UNCHANGED <<toServer, clientClosed, serverClosed>> /\ Reset
      BY <2>2 DEF SendToClosed
    <3> QED
      BY <3>3, <3>4, ResetTypes DEF ClientTypes, SocketTypeOK
  <2> QED
    BY <2>1, <2>2
<1>2. cpc' \in {"send", "select"} /\ UNCHANGED <<read, eof, chunk, copied, exit>>
  BY DEF Send, SendToClosed
<1> QED
  BY <1>1, <1>2 DEF ClientTypes, ClientTypeOK

(* What processStdin() sends is one chunk.                                 *)
LEMMA StdinChunk ==
  ASSUME ClientTypes, NEW n \in 1 .. Min({BUFSIZE, Len(Stdin) - read})
  PROVE  /\ read + n \in 0 .. Len(Stdin)
         /\ SubSeq(Stdin, read + 1, read + n) \in Bytes
         /\ Len(SubSeq(Stdin, read + 1, read + n)) = n
         /\ n <= MaxInt
<1>1. /\ Len(Stdin) \in Nat /\ read \in 0 .. Len(Stdin)
      /\ \A i \in 1 .. Len(Stdin) : Stdin[i] \in Byte
  BY ClientAssumption, ElementOfSeq DEF ClientTypes, ClientTypeOK, Bytes
<1>2. Len(Stdin) - read \in Nat /\ BUFSIZE \in Nat /\ BUFSIZE <= MaxInt /\ MaxInt \in Nat
  <2>1. BUFSIZE \in Nat /\ BUFSIZE <= Capacity
    BY ClientAssumption
  <2> QED
    BY <1>1, <2>1, Capacities, MaxIntIsLarge
<1>3. n \in Nat /\ n >= 1 /\ n <= Len(Stdin) - read /\ n <= BUFSIZE
  <2> DEFINE m == Min({BUFSIZE, Len(Stdin) - read})
  <2>1. m = IF BUFSIZE <= Len(Stdin) - read THEN BUFSIZE ELSE Len(Stdin) - read
    BY <1>2, MinOfTwo
  <2>2. n \in 1 .. m
    OBVIOUS
  <2> HIDE DEF m
  <2> QED
    BY <1>2, <2>1, <2>2
<1>4. /\ SubSeq(Stdin, read + 1, read + n) \in Seq(Byte)
      /\ Len(SubSeq(Stdin, read + 1, read + n))
           = IF read + 1 <= read + n THEN (read + n) - (read + 1) + 1 ELSE 0
  <2>1. /\ read + 1 \in Int /\ read + n \in Int
        /\ \A i \in read + 1 .. read + n : Stdin[i] \in Byte
    BY <1>1, <1>3
  <2> QED
    BY <2>1, SubSeqProperties
<1> DEFINE part == SubSeq(Stdin, read + 1, read + n)
<1>5. /\ part \in Bytes
      /\ Len(part) = IF read + 1 <= read + n THEN (read + n) - (read + 1) + 1 ELSE 0
  BY <1>4, Zenon DEF Bytes
<1> HIDE DEF part
<1>6. part \in Bytes /\ Len(part) = n
  BY <1>1, <1>3, <1>5
<1>7. read + n \in 0 .. Len(Stdin) /\ n <= MaxInt
  BY <1>1, <1>2, <1>3
<1> QED
  BY <1>6, <1>7, Zenon DEF part

(* processStdin() and the end of input.                                    *)
LEMMA StdinTypes ==
  ASSUME ClientTypes, ReadStdin \/ StdinEnds PROVE ClientTypes'
<1>1. CASE ReadStdin
  <2>1. PICK n \in 1 .. Min({BUFSIZE, Len(Stdin) - read}) :
          /\ Forward(Chunk(CHUNKTYPE_STDIN, SubSeq(Stdin, read + 1, read + n)))
          /\ read' = read + n
    BY <1>1 DEF ReadStdin
  <2> DEFINE part == SubSeq(Stdin, read + 1, read + n)
             c == [type |-> CHUNKTYPE_STDIN, text |-> part]
  <2>2. read' \in 0 .. Len(Stdin) /\ part \in Bytes /\ Len(part) <= MaxInt
    BY <2>1, StdinChunk
  <2> HIDE DEF part
  <2>3. c \in WireChunk
    BY <2>2 DEF WireChunk, CHUNKTYPE_STDIN, Byte
  <2>4. Chunk(c.type, c.text) \in Bytes
    BY <2>3, ChunkParts
  <2>5. unsent' = Chunk(c.type, c.text)
    BY <2>1 DEF Forward, part
  <2>6. /\ UNCHANGED <<socketVars, copied, exit, chunk, eof>> /\ cpc' = "send"
    BY <1>1, <2>1 DEF Forward, ReadStdin
  <2>7. unsent' \in Bytes /\ eof' \in BOOLEAN
    BY <2>4, <2>5, <2>6 DEF ClientTypes, ClientTypeOK
  <2> QED
    BY <2>2, <2>6, <2>7, QuietClientTypes
<1>2. CASE StdinEnds
  <2> DEFINE c == [type |-> CHUNKTYPE_STDIN_EOF, text |-> <<>>]
  <2>1. c \in WireChunk
    BY EmptyBytes, MaxIntIsLarge DEF WireChunk, CHUNKTYPE_STDIN_EOF, Byte
  <2>2. Chunk(c.type, c.text) \in Bytes
    BY <2>1, ChunkParts
  <2>3. unsent' = Chunk(c.type, c.text)
    BY <1>2 DEF StdinEnds, Forward
  <2>4. /\ UNCHANGED <<socketVars, copied, exit, chunk, read>> /\ cpc' = "send" /\ eof' = TRUE
    BY <1>2 DEF Forward, StdinEnds
  <2>5. unsent' \in Bytes /\ eof' \in BOOLEAN /\ read' \in 0 .. Len(Stdin)
    BY <2>2, <2>3, <2>4 DEF ClientTypes, ClientTypeOK
  <2> QED
    BY <2>4, <2>5, QuietClientTypes
<1> QED
  BY <1>1, <1>2

(* The header of a chunk, whatever its type.                               *)
LEMMA RecvHeaderTypes ==
  ASSUME ClientTypes, RecvHeader PROVE ClientTypes'
<1>1. /\ toClient \in Bytes /\ Len(toClient) <= Capacity
      /\ Len(toClient) >= CHUNK_HEADER_LEN /\ Len(toClient) \in Nat
  BY DEF ClientTypes, SocketTypeOK, RecvHeader, Bytes
<1> DEFINE type == toClient[CHUNK_HEADER_LEN]
           len == FromArray(toClient)
<1>2. type \in Byte /\ len \in Nat
  BY <1>1, FromArrayType
<1> HIDE DEF type, len
<1>3. CASE type \in Outputs \cup {CHUNKTYPE_EXIT}
  <2>1. /\ chunk' = [type |-> type, len |-> len, bytesRead |-> 0]
        /\ toClient' = Skip(CHUNK_HEADER_LEN, toClient)
        /\ cpc' = Receiver(type)
        /\ UNCHANGED <<exit, toServer, clientClosed, serverClosed, reset>>
        /\ UNCHANGED <<unsent, read, eof, copied>>
    BY <1>3 DEF RecvHeader, type, len
  <2>2. CHUNK_HEADER_LEN \in 0 .. Len(toClient)
    BY <1>1, Capacities
  <2>3. toClient' \in Bytes /\ Len(toClient') = Len(toClient) - CHUNK_HEADER_LEN
    BY <1>1, <2>1, <2>2, TakeSkip
  <2>4. Len(toClient') <= Capacity
    BY <1>1, <2>3, Capacities
  <2>5. SocketTypeOK'
    BY <2>1, <2>3, <2>4 DEF ClientTypes, SocketTypeOK
  <2>6. cpc' = "recvToFD" => type \in Outputs
    BY <2>1 DEF Receiver
  <2>7. /\ chunk' \in [type : Byte, len : Nat, bytesRead : Nat]
        /\ chunk'.type = type /\ chunk'.bytesRead <= chunk'.len
    BY <1>2, <2>1
  <2>8. cpc' \in {"recvToFD", "processExit"}
    BY <2>1 DEF Receiver
  <2> QED
    BY <2>1, <2>5, <2>6, <2>7, <2>8 DEF ClientTypes, ClientTypeOK
<1>4. CASE type \notin Outputs \cup {CHUNKTYPE_EXIT}
  <2>1. /\ Exit("unexpected", NAILGUN_UNEXPECTED_CHUNKTYPE)
        /\ UNCHANGED <<unsent, read, eof, chunk, copied>>
    BY <1>4 DEF RecvHeader, type
  <2>2. "unexpected" \in Whys /\ NAILGUN_UNEXPECTED_CHUNKTYPE \in Nat
    BY DEF Whys, NAILGUN_UNEXPECTED_CHUNKTYPE
  <2> QED
    BY <2>1, <2>2, ExitKeepsTypes
<1> QED
  BY <1>3, <1>4

(* What recv() returns is a prefix of what there is.                       *)
LEMMA ReceivedTypes ==
  ASSUME ClientTypes, NEW wanted \in Nat
  PROVE  \E n \in 0 .. Len(toClient) :
           /\ n = IF wanted <= Len(toClient) THEN wanted ELSE Len(toClient)
           /\ Received(wanted) = Take(n, toClient)
           /\ Received(wanted) \in Bytes
           /\ Len(Received(wanted)) = n
           /\ Skip(n, toClient) \in Bytes
           /\ Len(Skip(n, toClient)) = Len(toClient) - n
<1>1. toClient \in Bytes /\ Len(toClient) \in Nat
  BY DEF ClientTypes, SocketTypeOK, Bytes
<1> DEFINE n == Min({wanted, Len(toClient)})
<1>2. n = IF wanted <= Len(toClient) THEN wanted ELSE Len(toClient)
  BY <1>1, MinOfTwo
<1>3. Received(wanted) = Take(n, toClient)
  BY Zenon DEF Received
<1> HIDE DEF n
<1>4. n \in 0 .. Len(toClient)
  BY <1>1, <1>2
<1>5. /\ Take(n, toClient) \in Bytes /\ Len(Take(n, toClient)) = n
      /\ Skip(n, toClient) \in Bytes /\ Len(Skip(n, toClient)) = Len(toClient) - n
  BY <1>1, <1>4, TakeSkip
<1> QED
  BY <1>2, <1>3, <1>4, <1>5, Zenon

(* One pass of the loop of recvToFD().                                     *)
LEMMA RecvToFDBytes ==
  ASSUME ClientTypes, RecvToFD
  PROVE  \E n \in 0 .. Len(toClient) :
           /\ n <= chunk.len - chunk.bytesRead
           /\ Take(n, toClient) \in Bytes
           /\ copied' = [copied EXCEPT ![chunk.type] = copied[chunk.type] \o Take(n, toClient)]
           /\ toClient' = Skip(n, toClient)
           /\ toClient' \in Bytes /\ Len(toClient') = Len(toClient) - n
           /\ chunk' = [chunk EXCEPT !.bytesRead = chunk.bytesRead + n]
           /\ cpc' = IF chunk.bytesRead + n < chunk.len THEN "recvToFD" ELSE "select"
<1>1. /\ chunk \in [type : Byte, len : Nat, bytesRead : Nat]
      /\ chunk.type \in Outputs /\ chunk.bytesRead <= chunk.len
      /\ toClient \in Bytes /\ Len(toClient) \in Nat
  BY DEF ClientTypes, ClientTypeOK, SocketTypeOK, Bytes, RecvToFD
<1> DEFINE left == chunk.len - chunk.bytesRead
           wanted == Min({BUFSIZE, left})
           bytes == Received(wanted)
<1>2. left \in Nat /\ BUFSIZE \in Nat
  BY <1>1, Capacities
<1> HIDE DEF left
<1>3. wanted = IF BUFSIZE <= left THEN BUFSIZE ELSE left
  BY <1>2, MinOfTwo
<1> HIDE DEF wanted
<1>4. wanted \in Nat /\ wanted <= left
  BY <1>2, <1>3
<1>5. PICK n \in 0 .. Len(toClient) :
        /\ n = IF wanted <= Len(toClient) THEN wanted ELSE Len(toClient)
        /\ bytes = Take(n, toClient) /\ bytes \in Bytes /\ Len(bytes) = n
        /\ Skip(n, toClient) \in Bytes
        /\ Len(Skip(n, toClient)) = Len(toClient) - n
  BY <1>4, ReceivedTypes
<1>6. /\ copied' = [copied EXCEPT ![chunk.type] = copied[chunk.type] \o bytes]
      /\ toClient' = Skip(Len(bytes), toClient)
      /\ chunk' = [chunk EXCEPT !.bytesRead = chunk.bytesRead + Len(bytes)]
      /\ cpc' = IF chunk'.bytesRead < chunk.len THEN "recvToFD" ELSE "select"
  BY Zenon DEF RecvToFD, wanted, left
<1> HIDE DEF bytes
<1>7. n <= left
  BY <1>1, <1>2, <1>4, <1>5
<1>8. /\ chunk' = [chunk EXCEPT !.bytesRead = chunk.bytesRead + n]
      /\ toClient' = Skip(n, toClient)
      /\ copied' = [copied EXCEPT ![chunk.type] = copied[chunk.type] \o Take(n, toClient)]
  BY <1>5, <1>6
<1>9. chunk'.bytesRead = chunk.bytesRead + n
  BY <1>1, <1>8
<1>10. cpc' = IF chunk.bytesRead + n < chunk.len THEN "recvToFD" ELSE "select"
  BY <1>6, <1>9
<1> QED
  BY <1>5, <1>7, <1>8, <1>10, Zenon DEF left

(* Output is copied buffer by buffer.                                      *)
LEMMA RecvToFDTypes ==
  ASSUME ClientTypes, RecvToFD PROVE ClientTypes'
<1>1. PICK n \in 0 .. Len(toClient) :
        /\ n <= chunk.len - chunk.bytesRead
        /\ Take(n, toClient) \in Bytes
        /\ copied' = [copied EXCEPT ![chunk.type] = copied[chunk.type] \o Take(n, toClient)]
        /\ toClient' = Skip(n, toClient)
        /\ toClient' \in Bytes /\ Len(toClient') = Len(toClient) - n
        /\ chunk' = [chunk EXCEPT !.bytesRead = chunk.bytesRead + n]
        /\ cpc' = IF chunk.bytesRead + n < chunk.len THEN "recvToFD" ELSE "select"
  BY RecvToFDBytes
<1>2. /\ chunk \in [type : Byte, len : Nat, bytesRead : Nat]
      /\ chunk.type \in Outputs /\ chunk.bytesRead <= chunk.len
      /\ Len(toClient) \in Nat /\ Len(toClient) <= Capacity
      /\ copied \in [Outputs -> Bytes]
  BY DEF ClientTypes, ClientTypeOK, SocketTypeOK, Bytes, RecvToFD
<1>3. Len(toClient') <= Capacity
  BY <1>1, <1>2, Capacities
<1>4. UNCHANGED <<unsent, read, eof, exit, toServer, clientClosed, serverClosed, reset>>
  BY DEF RecvToFD
<1>5. SocketTypeOK'
  BY <1>1, <1>3, <1>4 DEF ClientTypes, SocketTypeOK
<1>6. copied[chunk.type] \o Take(n, toClient) \in Bytes
  <2>1. copied[chunk.type] \in Bytes
    BY <1>2
  <2> QED
    BY <1>1, <2>1, Concat
<1>7. copied' \in [Outputs -> Bytes]
  BY <1>1, <1>2, <1>6, Zenon
<1>8. /\ chunk' \in [type : Byte, len : Nat, bytesRead : Nat]
      /\ chunk'.type = chunk.type /\ chunk'.len = chunk.len
      /\ chunk'.bytesRead = chunk.bytesRead + n /\ n \in Nat
  <2>1. chunk.bytesRead + n \in Nat /\ n \in Nat
    BY <1>2
  <2> DEFINE m == chunk.bytesRead + n
  <2>2. chunk' = [chunk EXCEPT !.bytesRead = m] /\ m \in Nat
    BY <1>1, <2>1
  <2> HIDE DEF m
  <2>3. /\ chunk' \in [type : Byte, len : Nat, bytesRead : Nat]
        /\ chunk'.type = chunk.type /\ chunk'.len = chunk.len
        /\ chunk'.bytesRead = m
    BY <1>2, <2>2
  <2> QED
    BY <2>1, <2>3 DEF m
<1>9. chunk'.bytesRead <= chunk'.len
  BY <1>1, <1>2, <1>8
<1>10. cpc' \in {"recvToFD", "select"}
  BY <1>1
<1> QED
  BY <1>2, <1>4, <1>5, <1>7, <1>8, <1>9, <1>10 DEF ClientTypes, ClientTypeOK

(* The status is at most BUFSIZE bytes of text.                            *)
LEMMA ProcessExitTypes ==
  ASSUME ClientTypes, ProcessExit PROVE ClientTypes'
<1> DEFINE wanted == Min({BUFSIZE - 1, chunk.len})
           text == Received(wanted)
<1>1. wanted \in Nat
  <2>1. BUFSIZE - 1 \in Nat /\ chunk.len \in Nat
    BY Capacities DEF ClientTypes, ClientTypeOK
  <2>2. wanted = IF BUFSIZE - 1 <= chunk.len THEN BUFSIZE - 1 ELSE chunk.len
    BY <2>1, MinOfTwo
  <2> HIDE DEF wanted
  <2> QED
    BY <2>1, <2>2
<1>2. Exit("status", atoi(text)) /\ UNCHANGED <<unsent, read, eof, chunk, copied>>
  BY Zenon DEF ProcessExit
<1> HIDE DEF wanted
<1>3. text \in Bytes
  BY <1>1, ReceivedTypes
<1> HIDE DEF text
<1>4. atoi(text) \in Nat
  BY <1>3, AtoiType
<1>5. "status" \in Whys
  BY DEF Whys
<1> QED
  BY <1>2, <1>4, <1>5, ExitKeepsTypes

(* Every step of the client keeps its types and those of the socket.       *)
LEMMA ClientTypesStep ==
  ASSUME ClientTypes, ClientSteps \/ Killed PROVE ClientTypes'
<1>1. CASE BrokenPipe \/ RecvHeaderFails \/ ProcessExitFails \/ Killed
  <2>0. RecvHeaderFails =>
          /\ \E why \in {"broken", "split"} : Exit(why, NAILGUN_CONNECTION_BROKEN)
          /\ UNCHANGED <<unsent, read, eof, chunk, copied>>
    <3>1. \A c : (IF c THEN "broken" ELSE "split") \in {"broken", "split"}
      OBVIOUS
    <3> QED
      BY <3>1, Zenon DEF RecvHeaderFails
  <2>1. PICK why \in {"signal", "broken", "split"},
             code \in {141, 137, NAILGUN_CONNECTION_BROKEN} :
          Exit(why, code) /\ UNCHANGED <<unsent, read, eof, chunk, copied>>
    BY <1>1, <2>0 DEF BrokenPipe, ProcessExitFails, Killed
  <2>2. why \in Whys /\ code \in Nat
    BY DEF Whys, NAILGUN_CONNECTION_BROKEN
  <2> QED
    BY <2>1, <2>2, ExitKeepsTypes
<1>2. CASE RecvToFDFails
  <2>1. UNCHANGED <<unsent, read, eof, chunk, copied, exit, socketVars>> /\ cpc' = "select"
    BY <1>2 DEF RecvToFDFails
  <2>2. unsent' \in Bytes /\ read' \in 0 .. Len(Stdin) /\ eof' \in BOOLEAN
    BY <2>1 DEF ClientTypes, ClientTypeOK
  <2> QED
    BY <2>1, <2>2, QuietClientTypes
<1> QED
  BY <1>1, <1>2, SendTypes, StdinTypes, RecvHeaderTypes, RecvToFDTypes, ProcessExitTypes
  DEF ClientSteps

ServerTypes == SocketTypeOK /\ SessionTypes /\ InputTypes /\ OutputTypes

(* What the stream keeps when some of it is read.                          *)
LEMMA ToServerTypes ==
  ASSUME SocketTypeOK, NEW n \in 0 .. Len(toServer), toServer' = Skip(n, toServer),
         UNCHANGED <<toClient, clientClosed, serverClosed, reset>>
  PROVE  SocketTypeOK'
<1>1. toServer \in Bytes /\ Len(toServer) \in Nat /\ Len(toServer) <= Capacity
  BY DEF SocketTypeOK, Bytes
<1>2. toServer' \in Bytes /\ Len(toServer') = Len(toServer) - n
  BY <1>1, TakeSkip
<1>3. Len(toServer') <= Capacity
  BY <1>1, <1>2, Capacities
<1> QED
  BY <1>2, <1>3 DEF SocketTypeOK

(* What the closed server will never read.                                 *)
LEMMA EmptiedToServerTypes ==
  ASSUME SocketTypeOK, toServer' = <<>>,
         UNCHANGED <<toClient, clientClosed, serverClosed, reset>>
  PROVE  SocketTypeOK'
<1>1. <<>> \in Bytes /\ Len(<<>>) <= Capacity
  BY EmptyBytes, Capacities
<1> QED
  BY <1>1 DEF SocketTypeOK

(* What a step does not change keeps its type.                             *)
LEMMA SameTypes ==
  /\ SocketTypeOK /\ UNCHANGED socketVars => SocketTypeOK'
  /\ InputTypes /\ UNCHANGED inputVars => InputTypes'
  /\ OutputTypes /\ UNCHANGED <<holder, pending, written, answer>> => OutputTypes'
<1>1. SocketTypeOK /\ UNCHANGED socketVars => SocketTypeOK'
  BY DEF SocketTypeOK, socketVars
<1>2. InputTypes /\ UNCHANGED inputVars => InputTypes'
  BY DEF InputTypes, inputVars
<1>3. OutputTypes /\ UNCHANGED <<holder, pending, written, answer>> => OutputTypes'
  BY DEF OutputTypes
<1> QED
  BY <1>1, <1>2, <1>3

(* The calls of the nail are counted.                                      *)
LEMMA CallTypes ==
  ASSUME SessionTypes, NEW t \in Threads, MayCall(t) PROVE calls' \in 0 .. MaxCalls
  BY NailAssumption DEF SessionTypes, MayCall

(* Steps of the nail's threads that leave the socket alone, but for writes.*)
LEMMA CallsTypes ==
  ASSUME ServerTypes,
         \/ NailReturns \/ NailThrows \/ Answer \/ StartRead
         \/ \E t \in Threads : \/ \E type \in DOMAIN Texts : PrintText(t, type)
                               \/ \E n \in Statuses : SystemExit(t, n)
                               \/ ExitPropagates(t) \/ ExitCaught(t)
  PROVE  ServerTypes'
<1>1. Session \in Threads
  BY DEF Threads
<1>2. /\ UNCHANGED <<socketVars, inputVars>> /\ UNCHANGED spc
      /\ UNCHANGED <<holder, pending, written, answer>>
      /\ \/ UNCHANGED calls
         \/ \E t \in Threads : MayCall(t)
      /\ \/ UNCHANGED phase
         \/ \E t \in Threads : \E p \in SessionPhases : phase' = [phase EXCEPT ![t] = p]
  <2>0. /\ "run" \in SessionPhases /\ "thrown" \in SessionPhases /\ "ended" \in SessionPhases
        /\ "answering" \in SessionPhases /\ "answered" \in SessionPhases
        /\ "reading" \in SessionPhases
    BY DEF SessionPhases
  <2>1. CASE NailReturns
    BY <1>1, <2>0, <2>1 DEF NailReturns, outputVars
  <2>2. CASE NailThrows
    BY <1>1, <2>0, <2>2 DEF NailThrows, Prints
  <2>3. CASE Answer
    BY <1>1, <2>0, <2>3 DEF Answer, PrintStatus, Prints
  <2>4. CASE StartRead
    BY <1>1, <2>0, <2>4 DEF StartRead, outputVars
  <2>5. ASSUME NEW t \in Threads, NEW type \in DOMAIN Texts, PrintText(t, type)
        PROVE  /\ UNCHANGED <<socketVars, inputVars>> /\ UNCHANGED <<spc, phase>>
               /\ UNCHANGED <<holder, pending, written, answer>> /\ MayCall(t)
    BY <2>5 DEF PrintText, Prints
  <2>6. ASSUME NEW t \in Threads, NEW n \in Statuses, SystemExit(t, n)
        PROVE  /\ UNCHANGED <<socketVars, inputVars>> /\ UNCHANGED spc
               /\ UNCHANGED <<holder, pending, written, answer>> /\ MayCall(t)
               /\ phase' = [phase EXCEPT ![t] = "thrown"]
    BY <2>6 DEF SystemExit, PrintStatus, Prints
  <2>7. ASSUME NEW t \in Threads, ExitPropagates(t) \/ ExitCaught(t)
        PROVE  /\ UNCHANGED <<socketVars, inputVars>> /\ UNCHANGED <<spc, calls>>
               /\ UNCHANGED <<holder, pending, written, answer>>
               /\ \E p \in {"run", "answering", "ended"} : phase' = [phase EXCEPT ![t] = p]
    BY <2>7 DEF ExitPropagates, ExitCaught, outputVars
  <2> QED
    BY <2>0, <2>1, <2>2, <2>3, <2>4, <2>5, <2>6, <2>7
<1>3. calls' \in 0 .. MaxCalls
  BY <1>2, CallTypes DEF ServerTypes, SessionTypes
<1>4. phase' \in [Threads -> SessionPhases]
  BY <1>2 DEF ServerTypes, SessionTypes
<1>5. SessionTypes'
  BY <1>2, <1>3, <1>4 DEF ServerTypes, SessionTypes
<1> QED
  BY <1>2, <1>5, SameTypes DEF ServerTypes

(* The text of an arrived chunk is in the stream.                          *)
LEMMA ArrivedChunk ==
  ASSUME toServer \in Bytes, ChunkArrived
  PROVE  /\ FromArray(toServer) \in Nat
         /\ FirstChunk.type = toServer[CHUNK_HEADER_LEN]
         /\ FirstChunk.text \in Bytes
         /\ Len(FirstChunk.text) = FromArray(toServer)
         /\ CHUNK_HEADER_LEN + Len(FirstChunk.text) \in 0 .. Len(toServer)
<1> DEFINE n == FromArray(toServer)
           text == SubSeq(toServer, CHUNK_HEADER_LEN + 1, CHUNK_HEADER_LEN + n)
<1>1. /\ Len(toServer) \in Nat /\ \A i \in 1 .. Len(toServer) : toServer[i] \in Byte
      /\ CHUNK_HEADER_LEN \in Nat
      /\ Len(toServer) >= CHUNK_HEADER_LEN /\ Len(toServer) >= CHUNK_HEADER_LEN + n
  BY ElementOfSeq, Capacities DEF Bytes, ChunkArrived
<1>2. n \in Nat
  BY <1>1, FromArrayType
<1> HIDE DEF n
<1>3. /\ text \in Seq(Byte)
      /\ Len(text) = IF CHUNK_HEADER_LEN + 1 <= CHUNK_HEADER_LEN + n
                     THEN (CHUNK_HEADER_LEN + n) - (CHUNK_HEADER_LEN + 1) + 1 ELSE 0
  <2>1. /\ CHUNK_HEADER_LEN + 1 \in Int /\ CHUNK_HEADER_LEN + n \in Int
        /\ \A i \in CHUNK_HEADER_LEN + 1 .. CHUNK_HEADER_LEN + n : toServer[i] \in Byte
    BY <1>1, <1>2
  <2> QED
    BY <2>1, SubSeqProperties
<1>4. FirstChunk.type = toServer[CHUNK_HEADER_LEN] /\ FirstChunk.text = text
  BY DEF FirstChunk, n
<1> HIDE DEF text
<1>5. Len(text) = n /\ text \in Bytes
  BY <1>1, <1>2, <1>3 DEF Bytes
<1>6. CHUNK_HEADER_LEN + n \in 0 .. Len(toServer)
  BY <1>1, <1>2
<1> QED
  BY <1>2, <1>4, <1>5, <1>6 DEF n

(* How much one read() gives.                                              *)
LEMMA ReadSize ==
  ASSUME SocketTypeOK, InputTypes, NEW length \in ReadSizes
  PROVE  /\ Min({remaining, length, Len(toServer)}) \in 0 .. Len(toServer)
         /\ Min({remaining, length, Len(toServer)}) <= remaining
<1> DEFINE S == {remaining, length, Len(toServer)}
           n == Min(S)
<1>1. remaining \in Nat /\ length \in Nat /\ Len(toServer) \in Nat
  BY NailAssumption DEF SocketTypeOK, InputTypes, Bytes
<1>2. S \subseteq Nat /\ S # {}
  BY <1>1
<1>3. n \in S /\ \A m \in S : n <= m
  BY <1>2, MinOfNats
<1> HIDE DEF n
<1>4. n \in Nat /\ n <= Len(toServer) /\ n <= remaining
  BY <1>1, <1>3
<1>5. n \in 0 .. Len(toServer)
  BY <1>1, <1>4
<1> QED
  BY <1>4, <1>5 DEF n

(* Every step in which the session or the nail reads.                      *)
LEMMA ReadTypes ==
  ASSUME ServerTypes,
         \/ ReadRequest \/ AbandonRequest
         \/ ReadHeader \/ ReadData \/ ReadCut \/ ReadFails \/ ReadEof
  PROVE  ServerTypes'
<1>0. /\ Session \in Threads /\ toServer \in Bytes /\ Len(toServer) \in Nat
      /\ CHUNK_HEADER_LEN \in Nat
      /\ got \in Bytes /\ remaining \in Nat /\ inEof \in BOOLEAN
      /\ spc \in {"request", "nail", "closed", "abandoned", "dead"}
      /\ phase \in [Threads -> SessionPhases] /\ calls \in 0 .. MaxCalls
      /\ "run" \in SessionPhases
      /\ <<>> \in Bytes
  BY EmptyBytes, Capacities DEF Threads, ServerTypes, SocketTypeOK, InputTypes, SessionTypes,
       Bytes, SessionPhases
<1>1. CASE ReadRequest
  <2>1. /\ ChunkArrived /\ toServer' = Skip(CHUNK_HEADER_LEN + Len(FirstChunk.text), toServer)
        /\ UNCHANGED <<toClient, clientClosed, serverClosed, reset>>
    BY <1>1 DEF ReadRequest
  <2>2. SocketTypeOK'
    BY <1>0, <2>1, ArrivedChunk, ToServerTypes DEF ServerTypes
  <2>3. spc' \in {"nail", "request"} /\ UNCHANGED <<phase, calls, inputVars, holder, pending, written, answer>>
    BY <1>1 DEF ReadRequest, outputVars
  <2>4. SessionTypes'
    BY <1>0, <2>3 DEF SessionTypes
  <2> QED
    BY <2>2, <2>3, <2>4, SameTypes DEF ServerTypes
<1>2. CASE AbandonRequest
  <2>1. UNCHANGED <<toClient, clientClosed, serverClosed, reset>>
    BY <1>2 DEF AbandonRequest
  <2>2. SocketTypeOK'
    <3>1. CASE ChunkArrived /\ toServer' = Skip(CHUNK_HEADER_LEN + Len(FirstChunk.text), toServer)
      BY <1>0, <2>1, <3>1, ArrivedChunk, ToServerTypes DEF ServerTypes
    <3>2. CASE toServer' = <<>>
      BY <2>1, <3>2, EmptiedToServerTypes DEF ServerTypes
    <3> QED
      BY <1>2, <3>1, <3>2 DEF AbandonRequest
  <2>3. spc' = "abandoned" /\ UNCHANGED <<phase, calls, inputVars, holder, pending, written, answer>>
    BY <1>2 DEF AbandonRequest, outputVars
  <2>4. SessionTypes'
    BY <1>0, <2>3 DEF SessionTypes
  <2> QED
    BY <2>2, <2>3, <2>4, SameTypes DEF ServerTypes
<1>3. CASE ReadHeader
  <2>1. /\ UNCHANGED <<toClient, clientClosed, serverClosed, reset>>
        /\ UNCHANGED <<spc, phase, calls, got, holder, pending, written, answer>>
    BY <1>3 DEF ReadHeader, outputVars
  <2>2. SocketTypeOK' /\ remaining' \in Nat /\ inEof' \in BOOLEAN
    <3>1. CASE Len(toServer) >= CHUNK_HEADER_LEN
      <4>1. /\ \/ remaining' = FromArray(toServer) /\ UNCHANGED inEof
               \/ inEof' = TRUE /\ UNCHANGED remaining
            /\ toServer' = Skip(CHUNK_HEADER_LEN, toServer)
        BY <1>0, <1>3, <3>1 DEF ReadHeader
      <4>2. CHUNK_HEADER_LEN \in 0 .. Len(toServer)
        BY <1>0, <3>1
      <4>3. SocketTypeOK'
        BY <2>1, <4>1, <4>2, ToServerTypes DEF ServerTypes
      <4>4. FromArray(toServer) \in Nat
        BY <1>0, <3>1, FromArrayType
      <4> QED
        BY <1>0, <4>1, <4>3, <4>4
    <3>2. CASE ~ (Len(toServer) >= CHUNK_HEADER_LEN)
      <4>1. toServer' = <<>> /\ inEof' = TRUE /\ UNCHANGED remaining
        BY <1>3, <3>2 DEF ReadHeader
      <4> QED
        BY <1>0, <2>1, <4>1, EmptiedToServerTypes DEF ServerTypes
    <3> QED
      BY <3>1, <3>2
  <2>3. SessionTypes' /\ InputTypes'
    BY <1>0, <2>1, <2>2 DEF SessionTypes, InputTypes
  <2> QED
    BY <2>1, <2>2, <2>3, SameTypes DEF ServerTypes
<1>4. CASE ReadData
  <2>1. PICK length \in ReadSizes :
          LET n == Min({remaining, length, Len(toServer)})
          IN  /\ ReadReturns(Take(n, toServer))
              /\ toServer' = Skip(n, toServer)
              /\ remaining' = remaining - n
    BY <1>4 DEF ReadData
  <2> DEFINE n == Min({remaining, length, Len(toServer)})
  <2>2. n \in 0 .. Len(toServer) /\ n <= remaining
    BY ReadSize DEF ServerTypes
  <2>3. /\ ReadReturns(Take(n, toServer)) /\ toServer' = Skip(n, toServer)
        /\ remaining' = remaining - n
    BY <2>1
  <2> HIDE DEF n
  <2>4. /\ UNCHANGED <<toClient, clientClosed, serverClosed, reset>>
        /\ UNCHANGED <<spc, calls, inEof, holder, pending, written, answer>>
    BY <1>4 DEF ReadData, outputVars
  <2>5. SocketTypeOK'
    BY <2>2, <2>3, <2>4, ToServerTypes DEF ServerTypes
  <2>6. remaining' \in Nat
    BY <1>0, <2>2, <2>3
  <2>7. got' \in Bytes /\ phase' \in [Threads -> SessionPhases]
    <3>1. Take(n, toServer) \in Bytes
      BY <1>0, <2>2, TakeSkip
    <3>2. got' = got \o Take(n, toServer) /\ phase' = [phase EXCEPT ![Session] = "run"]
      BY <2>3 DEF ReadReturns
    <3>3. got \o Take(n, toServer) \in Bytes
      BY <1>0, <3>1, Concat
    <3> QED
      BY <1>0, <3>2, <3>3
  <2>8. SessionTypes' /\ InputTypes'
    BY <1>0, <2>4, <2>6, <2>7 DEF SessionTypes, InputTypes
  <2> QED
    BY <2>4, <2>5, <2>8, SameTypes DEF ServerTypes
<1>5. CASE ReadCut \/ ReadEof
  <2>1. /\ ReadReturns(<<>>) /\ remaining' \in {remaining, remaining + 1}
        /\ UNCHANGED <<spc, calls, inEof, holder, pending, written, answer, socketVars>>
    BY <1>5 DEF ReadCut, ReadEof, outputVars
  <2>2. remaining' \in Nat
    BY <1>0, <2>1
  <2>3. got' \in Bytes /\ phase' \in [Threads -> SessionPhases]
    <3>1. got \o <<>> \in Bytes
      BY <1>0, Concat
    <3> QED
      BY <1>0, <2>1, <3>1 DEF ReadReturns
  <2>4. SessionTypes' /\ InputTypes'
    BY <1>0, <2>1, <2>2, <2>3 DEF SessionTypes, InputTypes
  <2> QED
    BY <2>1, <2>4, SameTypes DEF ServerTypes
<1>6. CASE ReadFails
  <2>1. /\ ReadReturns(<<>>) /\ toServer' = <<>>
        /\ UNCHANGED <<toClient, clientClosed, serverClosed, reset>>
        /\ UNCHANGED <<spc, calls, remaining, inEof, holder, pending, written, answer>>
    BY <1>6 DEF ReadFails, outputVars
  <2>2. SocketTypeOK'
    BY <2>1, EmptyBytes, Capacities DEF ServerTypes, SocketTypeOK
  <2>3. got' \in Bytes /\ phase' \in [Threads -> SessionPhases]
    <3>1. got \o <<>> \in Bytes
      BY <1>0, Concat
    <3> QED
      BY <1>0, <2>1, <3>1 DEF ReadReturns
  <2>4. SessionTypes' /\ InputTypes'
    BY <1>0, <2>1, <2>3 DEF SessionTypes, InputTypes
  <2> QED
    BY <2>1, <2>2, <2>4, SameTypes DEF ServerTypes
<1> QED
  BY <1>1, <1>2, <1>3, <1>4, <1>5, <1>6

(* What a thread writes first.                                             *)
LEMMA HeadToWrite ==
  ASSUME PrintInv, NEW t \in Threads, printing[t] # <<>>
  PROVE  /\ Head(printing[t]) \in WireChunk
         /\ Head(printing[t]).type \in Types
         /\ Head(printing[t]).text \in Printed(Head(printing[t]).type)
<1> DEFINE c == Head(printing[t])
<1>1. printing[t] \in Seq(PrintCall)
  BY DEF PrintInv, PrintTypes
<1>2. c \in PrintCall
  BY <1>1, HeadTailProperties
<1> HIDE DEF c
<1>3. c \in [type : Types, text : Bytes] /\ c.text \in Printed(c.type)
  BY <1>2, Zenon DEF PrintCall
<1>4. Len(c.text) \in 1 .. MaxInt
  BY <1>3, Zenon DEF Printed
<1>5. Len(c.text) <= MaxInt
  BY <1>4, MaxIntIsLarge
<1>6. Types \subseteq Byte
  BY PrintableTexts
<1>7. c \in [type : Byte, text : Bytes] /\ c.type \in Types
  BY <1>3, <1>6
<1>8. c \in WireChunk
  BY <1>5, <1>7, Zenon DEF WireChunk
<1> QED
  BY <1>3, <1>7, <1>8 DEF c

(* What is recorded of a call that returns.                                *)
LEMMA RecordsTypes ==
  ASSUME PrintInv, OutputTypes, NEW t \in Threads, printing[t] # <<>>, Records(t)
  PROVE  /\ written' \in [DOMAIN Texts -> Bytes]
         /\ answer' \in [given : BOOLEAN, status : Nat, due : [DOMAIN Texts -> Bytes]]
<1> DEFINE c == Head(printing[t])
<1>1. c \in WireChunk /\ c.type \in Types
  BY HeadToWrite
<1>2. c.text \in Bytes
  BY <1>1 DEF WireChunk
<1> HIDE DEF c
<1>3. CASE c.type = CHUNKTYPE_EXIT
  <2>1. /\ answer' = IF answer.given THEN answer
                     ELSE [given |-> TRUE, status |-> atoi(c.text), due |-> written]
        /\ UNCHANGED written
    BY <1>3 DEF Records, c
  <2>2. atoi(c.text) \in Nat
    BY <1>2, AtoiType
  <2> DEFINE code == atoi(c.text)
  <2> HIDE DEF code
  <2>3. code \in Nat /\ written \in [DOMAIN Texts -> Bytes]
    BY <2>2 DEF OutputTypes, code
  <2>4. [given |-> TRUE, status |-> code, due |-> written]
          \in [given : BOOLEAN, status : Nat, due : [DOMAIN Texts -> Bytes]]
    BY <2>3
  <2> QED
    BY <2>1, <2>4, Zenon DEF OutputTypes, code
<1>4. CASE c.type # CHUNKTYPE_EXIT
  <2>1. written' = [written EXCEPT ![c.type] = written[c.type] \o c.text] /\ UNCHANGED answer
    BY <1>4 DEF Records, c
  <2>2. c.type \in DOMAIN Texts /\ written \in [DOMAIN Texts -> Bytes]
    BY <1>1, <1>4 DEF Types, OutputTypes
  <2>3. written[c.type] \o c.text \in Bytes
    BY <1>2, <2>2, Concat
  <2>4. written' \in [DOMAIN Texts -> Bytes]
    BY <2>1, <2>2, <2>3, Zenon
  <2> QED
    BY <2>1, <2>4 DEF OutputTypes
<1> QED
  BY <1>3, <1>4

(* Every step in which a thread writes a chunk.                            *)
LEMMA WriteTypes ==
  ASSUME PrintInv, ServerTypes, NEW t \in Threads,
         FillHeader(t) \/ BeginWrite(t) \/ Write(t) \/ WriteFails(t)
  PROVE  ServerTypes'
<1>0. pending \in [Threads -> Bytes] /\ pending[t] \in Bytes /\ NoThread \notin Threads
      /\ <<>> \in Bytes
  BY EmptyBytes, PrintableTexts DEF ServerTypes, OutputTypes
<1>1. CASE BeginWrite(t)
  <2> DEFINE c == Head(printing[t])
             bytes == Chunk(c.type, c.text)
  <2>1. /\ printing[t] # <<>> /\ holder' = t /\ Records(t)
        /\ pending' = [pending EXCEPT ![t] = bytes]
        /\ UNCHANGED <<spc, phase, calls, inputVars, socketVars>>
    BY <1>1, ChunkOfFilled DEF BeginWrite, HeadChunk
  <2>2. c \in WireChunk
    BY <2>1, HeadToWrite
  <2> HIDE DEF c
  <2>3. bytes \in Bytes
    BY <2>2, ChunkParts
  <2> HIDE DEF bytes
  <2>4. pending' \in [Threads -> Bytes]
    BY <1>0, <2>1, <2>3
  <2>5. OutputTypes'
    BY <2>1, <2>4, RecordsTypes DEF OutputTypes, ServerTypes
  <2>6. SessionTypes'
    BY <2>1 DEF SessionTypes, ServerTypes
  <2> QED
    BY <2>1, <2>5, <2>6, SameTypes DEF ServerTypes
<1>2. CASE Write(t)
  <2>1. PICK n : /\ n = Fits(toClient, pending[t])
                 /\ toClient' = toClient \o Take(n, pending[t])
                 /\ pending' = [pending EXCEPT ![t] = Skip(n, pending[t])]
    BY <1>2 DEF Write
  <2>2. /\ UNCHANGED <<toServer, clientClosed, serverClosed, reset>>
        /\ UNCHANGED <<spc, phase, calls, inputVars, written, answer>>
        /\ holder' \in {holder, NoThread}
    BY <1>2 DEF Write, EndWrite
  <2>3. toClient \in Bytes /\ Len(toClient) <= Capacity
    BY DEF ServerTypes, SocketTypeOK
  <2>4. toClient' \in Bytes /\ Len(toClient') <= Capacity /\ Skip(n, pending[t]) \in Bytes
    BY <1>0, <2>1, <2>3, FitsTypes
  <2>5. SocketTypeOK' /\ pending' \in [Threads -> Bytes]
    BY <1>0, <2>1, <2>2, <2>4 DEF ServerTypes, SocketTypeOK
  <2>6. OutputTypes' /\ SessionTypes'
    BY <2>2, <2>5 DEF ServerTypes, OutputTypes, SessionTypes
  <2> QED
    BY <2>2, <2>5, <2>6, SameTypes DEF ServerTypes
<1>3. CASE WriteFails(t)
  <2>1. /\ UNCHANGED <<spc, phase, calls, inputVars, written, answer, socketVars>>
        /\ holder' = NoThread /\ pending' = [pending EXCEPT ![t] = <<>>]
    BY <1>3 DEF WriteFails, EndWrite
  <2>2. pending' \in [Threads -> Bytes]
    BY <1>0, <2>1
  <2>3. OutputTypes' /\ SessionTypes'
    BY <2>1, <2>2 DEF ServerTypes, OutputTypes, SessionTypes
  <2> QED
    BY <2>1, <2>3, SameTypes DEF ServerTypes
<1>4. CASE FillHeader(t)
  <2>1. /\ UNCHANGED <<holder, pending, written, answer>>
        /\ UNCHANGED <<spc, phase, calls, inputVars, socketVars>>
    BY <1>4 DEF FillHeader
  <2>2. OutputTypes' /\ SessionTypes'
    BY <2>1 DEF ServerTypes, OutputTypes, SessionTypes
  <2> QED
    BY <2>1, <2>2, SameTypes DEF ServerTypes
<1> QED
  BY <1>1, <1>2, <1>3, <1>4

(* The session closes its socket, or dies with it.                         *)
LEMMA CloseTypes ==
  ASSUME ServerTypes, CloseSocket \/ Die PROVE ServerTypes'
<1>1. /\ spc' \in {"closed", "dead"} /\ CloseServerEnd
      /\ UNCHANGED <<phase, calls, inputVars, holder, pending, written, answer>>
  BY DEF CloseSocket, Die, outputVars
<1>2. SocketTypeOK' /\ SessionTypes'
  BY <1>1, CloseServerEndTypes DEF ServerTypes, SessionTypes
<1> QED
  BY <1>1, <1>2, SameTypes DEF ServerTypes

(* A request is a sequence of chunks, of which the last is the command.     *)
LEMMA RequestChunks ==
  ASSUME NEW request \in Requests
  PROVE  /\ request \in Seq(WireChunk)
         /\ \A i \in DOMAIN request :
              request[i].type \in RequestTypes \cup {CHUNKTYPE_COMMAND}
<1> DEFINE Part == [type : RequestTypes \cup {CHUNKTYPE_COMMAND}, text : Bytes]
<1>1. request \in Seq(Part) /\ Len(request) \in Nat /\ DOMAIN request = 1 .. Len(request)
  BY ClientAssumption, LenProperties
<1>2. ASSUME NEW i \in 1 .. Len(request)
      PROVE  request[i] \in WireChunk /\ request[i].type \in RequestTypes \cup {CHUNKTYPE_COMMAND}
  <2>1. request[i] \in Part
    BY <1>1, ElementOfSeq
  <2>2. Len(request[i].text) + CHUNK_HEADER_LEN <= Capacity
    BY <1>1, ClientAssumption
  <2> DEFINE c == request[i]
  <2>3. c \in Part /\ Len(c.text) + CHUNK_HEADER_LEN <= Capacity
    BY <2>1, <2>2
  <2> HIDE DEF c
  <2>4. c.text \in Bytes /\ c.type \in RequestTypes \cup {CHUNKTYPE_COMMAND}
        /\ c = [type |-> c.type, text |-> c.text]
    BY <2>3
  <2>5. Len(c.text) \in Nat
    BY <2>4 DEF Bytes
  <2>6. Len(c.text) <= MaxInt
    BY <2>3, <2>5, Capacities, MaxIntIsLarge
  <2>7. c.type \in Byte
    BY <2>4 DEF RequestTypes, CHUNKTYPE_ARGUMENT, CHUNKTYPE_ENVIRONMENT,
                CHUNKTYPE_WORKINGDIRECTORY, CHUNKTYPE_COMMAND, Byte
  <2>8. c \in [type : Byte, text : Bytes]
    BY <2>4, <2>7
  <2>9. c \in WireChunk
    BY <2>6, <2>8, Zenon DEF WireChunk
  <2> QED
    BY <2>4, <2>9 DEF c
<1> HIDE DEF Part
<1>3. request \in [1 .. Len(request) -> WireChunk]
  BY <1>1, <1>2
<1>4. request \in Seq(WireChunk)
  BY <1>1, <1>3, SeqDef
<1> QED
  BY <1>1, <1>2, <1>4

ClientActions == ClientSteps \/ Killed

ServerActions ==
  \/ ReadRequest \/ AbandonRequest \/ NailReturns \/ NailThrows
  \/ Answer \/ CloseSocket \/ Die
  \/ StartRead \/ ReadHeader \/ ReadData \/ ReadCut \/ ReadFails \/ ReadEof
  \/ \E t \in Threads :
       \/ \E type \in DOMAIN Texts : PrintText(t, type)
       \/ \E n \in Statuses : SystemExit(t, n)
       \/ ExitPropagates(t) \/ ExitCaught(t)
       \/ FillHeader(t) \/ BeginWrite(t) \/ Write(t) \/ WriteFails(t)

(* A step is one of the client's or one of the server's.                   *)
LEMMA Sides == Next => \/ ClientActions /\ UNCHANGED nailVars
                       \/ ServerActions /\ UNCHANGED clientVars
  BY DEF Next, Client, Server, ClientActions, ServerActions, ClientSteps

(* TypeInv holds at the start ...                                          *)
LEMMA TypesInit == Init => TypeInv
<1> SUFFICES ASSUME Init PROVE TypeInv
  OBVIOUS
<1>1. <<>> \in Bytes /\ Len(<<>>) <= Capacity /\ Session \in Threads /\ DOMAIN Texts = Outputs
      /\ 0 \in 0 .. MaxCalls
  BY EmptyBytes, Capacities, PrintableTexts, NailAssumption
<1>2. SocketTypeOK
  BY <1>1 DEF Init, SocketInit, SocketTypeOK
<1>3. unsent \in Bytes
  <2>1. PICK request \in Requests : unsent = RequestBytes(request)
    BY DEF Init, ClientInit
  <2>2. request \in Seq(WireChunk)
    BY RequestChunks
  <2>3. Stream(request) \in Bytes
    BY <2>2, StreamType
  <2> QED
    BY <2>1, <2>3, Zenon DEF RequestBytes, Stream
<1>4. /\ cpc = "send" /\ read = 0 /\ eof = FALSE
      /\ chunk = [type |-> CHUNKTYPE_EXIT, len |-> 0, bytesRead |-> 0]
      /\ copied = [s \in Outputs |-> <<>>]
      /\ exit = [why |-> "none", code |-> 0]
  BY DEF Init, ClientInit
<1>5. read \in 0 .. Len(Stdin)
  BY <1>4, ClientAssumption DEF Bytes
<1>6. /\ chunk \in [type : Byte, len : Nat, bytesRead : Nat]
      /\ exit \in [why : Whys, code : Byte]
  BY <1>4 DEF Byte, Whys, CHUNKTYPE_EXIT
<1>7. ClientTypeOK
  BY <1>1, <1>3, <1>4, <1>5, <1>6 DEF ClientTypeOK
<1>8. PrintInv
  BY PrintInvInit
<1>9. SessionTypes /\ InputTypes
  BY <1>1 DEF Init, NailInit, SessionTypes, InputTypes, SessionPhases
<1>10. OutputTypes
  <2>1. /\ written = [s \in DOMAIN Texts |-> <<>>] /\ holder = NoThread
        /\ pending = [t \in Threads |-> <<>>]
        /\ answer = [given |-> FALSE, status |-> 0, due |-> written]
    BY DEF Init, NailInit
  <2>2. written \in [DOMAIN Texts -> Bytes]
    BY <1>1, <2>1
  <2>3. answer \in [given : BOOLEAN, status : Nat, due : [DOMAIN Texts -> Bytes]]
    BY <2>1, <2>2
  <2> QED
    BY <1>1, <2>1, <2>2, <2>3 DEF OutputTypes
<1> QED
  BY <1>2, <1>4, <1>7, <1>8, <1>9, <1>10, NailTypes DEF TypeInv, TypeOK

(* ... and every step keeps it, where the threads print as PrintInv says.  *)
LEMMA TypesStep == PrintInv /\ TypeInv /\ [Next]_vars => TypeInv'
<1> SUFFICES ASSUME PrintInv, TypeInv, [Next]_vars PROVE TypeInv'
  OBVIOUS
<1>0. ClientTypes /\ ServerTypes /\ PrintInv'
  BY NailTypes, PrintInvStep DEF TypeInv, TypeOK, ClientTypes, ServerTypes
<1>a. SessionTypes' /\ InputTypes' /\ OutputTypes' => NailTypeOK'
  BY <1>0, NailTypes, PTL
<1>1. CASE ClientActions /\ UNCHANGED nailVars
  <2>1. ClientTypes'
    BY <1>0, <1>1, ClientTypesStep DEF ClientActions
  <2>2. SessionTypes' /\ InputTypes' /\ OutputTypes'
    <3>1. UNCHANGED <<spc, phase, calls, inputVars, holder, pending, written, answer>>
      BY <1>1 DEF nailVars, outputVars
    <3>2. SessionTypes'
      BY <1>0, <3>1 DEF ServerTypes, SessionTypes
    <3> QED
      BY <1>0, <3>1, <3>2, SameTypes DEF ServerTypes
  <2> QED
    BY <1>a, <2>1, <2>2 DEF ClientTypes, TypeInv, TypeOK
<1>2. CASE ServerActions /\ UNCHANGED clientVars
  <2>1. ServerTypes'
    BY <1>0, <1>2, CallsTypes, ReadTypes, WriteTypes, CloseTypes DEF ServerActions
  <2>2. ClientTypeOK' /\ (cpc = "recvToFD" => chunk.type \in Outputs /\ chunk.bytesRead <= chunk.len)'
    BY <1>0, <1>2 DEF ClientTypes, ClientTypeOK, clientVars
  <2> QED
    BY <1>a, <2>1, <2>2 DEF ServerTypes, TypeInv, TypeOK
<1>3. CASE UNCHANGED vars
  <2>1. UNCHANGED nailVars /\ UNCHANGED clientVars /\ UNCHANGED socketVars
    BY <1>3 DEF vars
  <2>2. SocketTypeOK'
    BY <1>0, <2>1, SameTypes DEF ServerTypes
  <2>3. ClientTypeOK' /\ (cpc = "recvToFD" => chunk.type \in Outputs /\ chunk.bytesRead <= chunk.len)'
    BY <1>0, <2>1 DEF ClientTypes, ClientTypeOK, clientVars
  <2>4. SessionTypes' /\ InputTypes' /\ OutputTypes'
    <3>1. UNCHANGED <<spc, phase, calls, inputVars, holder, pending, written, answer>>
      BY <2>1 DEF nailVars, outputVars
    <3>2. SessionTypes'
      BY <1>0, <3>1 DEF ServerTypes, SessionTypes
    <3> QED
      BY <1>0, <3>1, <3>2, SameTypes DEF ServerTypes
  <2> QED
    BY <1>a, <2>2, <2>3, <2>4 DEF TypeInv, TypeOK
<1> QED
  BY <1>1, <1>2, <1>3, Sides

(* Every variable of the client, the socket and the session has its type   *)
(* in every reachable state: no read is longer than the stream, no stream  *)
(* is longer than its capacity, and the status is a byte.                  *)
THEOREM ConnectionTypes == Spec => []TypeOK
<1>1. PrintInv /\ TypeInv => TypeOK
  BY DEF TypeInv
<1> QED
  BY <1>1, PrintInvInit, PrintInvStep, TypesInit, TypesStep, PTL DEF Spec

-----------------------------------------------------------------------------
(* Where both sides are.                                                   *)

(* The ends of the socket are closed exactly where the program closes them,*)
(* and the client has nothing left to send where it receives.              *)
Ends == /\ cpc = "ended" <=> clientClosed
        /\ serverClosed <=> spc \in {"closed", "dead"}
        /\ reset => serverClosed
        /\ cpc \notin {"send", "ended"} => unsent = <<>>
        /\ spc = "request" => ~inEof /\ remaining = 0 /\ got = <<>>

(* The session that has called exit.println() has given its answer, or is  *)
(* about to, unless another thread has called System.exit().               *)
Answering ==
  phase[Session] = "answered" =>
    \/ answer.given
    \/ /\ printing[Session] # <<>> /\ pending[Session] = <<>>
       /\ Head(printing[Session]).type = CHUNKTYPE_EXIT

(* No step of the client disturbs Ends.                                    *)
LEMMA EndsClient ==
  ASSUME TypeInv, Ends, ClientActions, UNCHANGED nailVars
  PROVE  Ends'
<1>0. UNCHANGED <<spc, inEof, remaining, got>> /\ clientClosed \in BOOLEAN /\ serverClosed \in BOOLEAN
  BY DEF nailVars, inputVars, TypeInv, TypeOK, SocketTypeOK
<1>1. ASSUME NEW why, NEW code, Exit(why, code) PROVE Ends'
  <2>1. cpc' = "ended" /\ clientClosed' = TRUE /\ UNCHANGED <<serverClosed, reset>>
    BY <1>1 DEF Exit, CloseClientEnd
  <2> QED
    BY <1>0, <2>1 DEF Ends
<1>2. CASE BrokenPipe \/ RecvHeaderFails \/ ProcessExit \/ ProcessExitFails \/ Killed
  <2>1. \E why, code : Exit(why, code)
    BY <1>2, Zenon DEF BrokenPipe, RecvHeaderFails, ProcessExit, ProcessExitFails, Killed
  <2> QED
    BY <1>1, <2>1
<1>3. CASE Send
  <2>1. /\ cpc' = IF unsent' = <<>> THEN "select" ELSE "send"
        /\ cpc = "send" /\ UNCHANGED <<clientClosed, serverClosed, reset>>
    BY <1>3 DEF Send
  <2> QED
    BY <1>0, <2>1 DEF Ends
<1>4. CASE SendToClosed
  <2>1. /\ cpc' = IF unsent' = <<>> THEN "select" ELSE "send"
        /\ cpc = "send" /\ serverClosed /\ UNCHANGED <<clientClosed, serverClosed>>
    BY <1>4 DEF SendToClosed
  <2> QED
    BY <1>0, <2>1 DEF Ends
<1>5. CASE ReadStdin \/ StdinEnds
  <2>1. /\ cpc' = "send" /\ cpc = "select" /\ UNCHANGED <<clientClosed, serverClosed, reset>>
    BY <1>5 DEF ReadStdin, StdinEnds, Forward, socketVars
  <2> QED
    BY <1>0, <2>1 DEF Ends
<1>6. CASE RecvHeader
  <2>1. \/ Exit("unexpected", NAILGUN_UNEXPECTED_CHUNKTYPE)
        \/ /\ cpc' \in {"recvToFD", "processExit"} /\ cpc = "select"
           /\ UNCHANGED <<unsent, clientClosed, serverClosed, reset>>
    BY <1>6 DEF RecvHeader, Receiver
  <2> QED
    BY <1>0, <1>1, <2>1 DEF Ends
<1>7. CASE RecvToFD
  <2>1. /\ cpc' \in {"recvToFD", "select"} /\ cpc = "recvToFD"
        /\ UNCHANGED <<unsent, clientClosed, serverClosed, reset>>
    BY <1>7 DEF RecvToFD
  <2> QED
    BY <1>0, <2>1 DEF Ends
<1>8. CASE RecvToFDFails
  <2>1. /\ cpc' = "select" /\ cpc = "recvToFD"
        /\ UNCHANGED <<unsent, clientClosed, serverClosed, reset>>
    BY <1>8 DEF RecvToFDFails, socketVars
  <2> QED
    BY <1>0, <2>1 DEF Ends
<1> QED
  BY <1>2, <1>3, <1>4, <1>5, <1>6, <1>7, <1>8 DEF ClientActions, ClientSteps

(* The server's steps but for those that read or close the socket.         *)
StreamActions ==
  \/ NailReturns \/ NailThrows \/ Answer \/ StartRead
  \/ \E t \in Threads : \/ \E type \in DOMAIN Texts : PrintText(t, type)
                        \/ \E n \in Statuses : SystemExit(t, n)
                        \/ ExitPropagates(t) \/ ExitCaught(t)
                        \/ FillHeader(t) \/ BeginWrite(t) \/ Write(t) \/ WriteFails(t)
ReadActions ==
  \/ ReadRequest \/ AbandonRequest
  \/ ReadHeader \/ ReadData \/ ReadCut \/ ReadFails \/ ReadEof
CloseActions == CloseSocket \/ Die

(* The steps of the session and its threads.                               *)
LEMMA ServerActionKinds == ServerActions => StreamActions \/ ReadActions \/ CloseActions
  BY DEF ServerActions, StreamActions, ReadActions, CloseActions

(* What each kind leaves alone.                                            *)
LEMMA StreamFrame ==
  ASSUME StreamActions
  PROVE  UNCHANGED <<spc, inputVars, toServer, clientClosed, serverClosed, reset>>
<1>1. CASE NailReturns \/ NailThrows \/ Answer \/ StartRead
  BY <1>1 DEF NailReturns, NailThrows, Answer, StartRead, socketVars
<1>2. ASSUME NEW t \in Threads,
             \/ \E type \in DOMAIN Texts : PrintText(t, type)
             \/ \E n \in Statuses : SystemExit(t, n)
             \/ ExitPropagates(t) \/ ExitCaught(t)
      PROVE  UNCHANGED <<spc, inputVars, toServer, clientClosed, serverClosed, reset>>
  BY <1>2 DEF PrintText, SystemExit, ExitPropagates, ExitCaught, socketVars
<1>3. ASSUME NEW t \in Threads, FillHeader(t) \/ BeginWrite(t) \/ Write(t) \/ WriteFails(t)
      PROVE  UNCHANGED <<spc, inputVars, toServer, clientClosed, serverClosed, reset>>
  BY <1>3 DEF FillHeader, BeginWrite, Write, WriteFails, socketVars
<1> QED
  BY <1>1, <1>2, <1>3 DEF StreamActions

(* What reading changes.                                                   *)
LEMMA ReadFrame ==
  ASSUME ReadActions
  PROVE  /\ UNCHANGED <<toClient, clientClosed, serverClosed, reset, outputVars>>
         /\ UNCHANGED phase \/ (phase[Session] = "reading" /\ phase' = [phase EXCEPT ![Session] = "run"])
         /\ \/ spc = "request" /\ spc' \in {"request", "nail", "abandoned"} /\ UNCHANGED inputVars
            \/ spc = "nail" /\ UNCHANGED spc
<1>1. CASE ReadRequest
  BY <1>1 DEF ReadRequest
<1>2. CASE AbandonRequest
  BY <1>2 DEF AbandonRequest
<1>3. CASE ReadHeader
  BY <1>3 DEF ReadHeader, Reading, Alive
<1>4. CASE ReadData \/ ReadCut \/ ReadFails \/ ReadEof
  BY <1>4 DEF ReadData, ReadCut, ReadFails, ReadEof, Reading, Alive, ReadReturns, socketVars
<1> QED
  BY <1>1, <1>2, <1>3, <1>4 DEF ReadActions

(* What closing changes.                                                   *)
LEMMA CloseFrame ==
  ASSUME CloseActions
  PROVE  /\ UNCHANGED <<phase, inputVars, outputVars, clientClosed>>
         /\ spc' \in {"closed", "dead"} /\ serverClosed' = TRUE /\ toServer' = <<>>
         /\ UNCHANGED <<toClient, reset>> \/ Reset
         /\ \/ spc' = "dead"
            \/ /\ spc = "nail" /\ phase[Session] = "answered" /\ printing[Session] = <<>>
               /\ spc' = "closed"
  BY DEF CloseActions, CloseSocket, Die, CloseServerEnd

(* No step of the server disturbs Ends.                                    *)
LEMMA EndsServer ==
  ASSUME TypeInv, Ends, ServerActions, UNCHANGED clientVars
  PROVE  Ends'
<1>0. UNCHANGED <<cpc, unsent>> /\ clientClosed \in BOOLEAN /\ serverClosed \in BOOLEAN
  BY DEF clientVars, TypeInv, TypeOK, SocketTypeOK
<1>1. CASE StreamActions
  BY <1>0, <1>1, StreamFrame DEF Ends, inputVars
<1>2. CASE ReadActions
  BY <1>0, <1>2, ReadFrame DEF Ends, inputVars
<1>3. CASE CloseActions
  BY <1>0, <1>3, CloseFrame DEF Ends
<1> QED
  BY <1>1, <1>2, <1>3, ServerActionKinds

(* The answer is the first exit chunk: it stays.                           *)
LEMMA AnswerStays ==
  ASSUME ServerActions
  PROVE  \/ UNCHANGED <<written, answer>>
         \/ \E t \in Threads : BeginWrite(t)
<1>1. CASE ReadActions \/ CloseActions
  BY <1>1, ReadFrame, CloseFrame DEF outputVars
<1>2. CASE NailReturns \/ NailThrows \/ Answer \/ StartRead
  BY <1>2 DEF NailReturns, NailThrows, Answer, StartRead, Prints, PrintStatus, outputVars
<1>3. ASSUME NEW t \in Threads,
             \/ \E type \in DOMAIN Texts : PrintText(t, type)
             \/ \E n \in Statuses : SystemExit(t, n)
             \/ ExitPropagates(t) \/ ExitCaught(t)
      PROVE  UNCHANGED <<written, answer>>
  BY <1>3 DEF PrintText, SystemExit, ExitPropagates, ExitCaught, Prints, PrintStatus, outputVars
<1>4. ASSUME NEW t \in Threads, FillHeader(t) \/ Write(t) \/ WriteFails(t)
      PROVE  UNCHANGED <<written, answer>>
  BY <1>4 DEF FillHeader, Write, WriteFails
<1> QED
  BY <1>1, <1>2, <1>3, <1>4, ServerActionKinds DEF StreamActions

(* write() records what it starts to write.                                *)
LEMMA RecordsExit ==
  ASSUME NEW t, Records(t)
  PROVE  /\ answer.given => answer' = answer
         /\ Head(printing[t]).type = CHUNKTYPE_EXIT => answer'.given
<1> DEFINE first == [given |-> TRUE, status |-> atoi(Head(printing[t]).text), due |-> written]
<1>1. first.given
  BY Zenon
<1>2. \/ answer' = IF answer.given THEN answer ELSE first
      \/ UNCHANGED answer /\ Head(printing[t]).type # CHUNKTYPE_EXIT
  BY DEF Records
<1> HIDE DEF first
<1> QED
  BY <1>1, <1>2, Zenon

(* The answer is given once, by the session, after its last call.          *)
LEMMA AnsweringStep ==
  ASSUME PrintInv, TypeInv, Answering, ServerActions
  PROVE  Answering'
<1>0. /\ phase \in [Threads -> SessionPhases] /\ Session \in Threads
      /\ printing \in [Threads -> Seq(PrintCall)] /\ pending \in [Threads -> Bytes]
      /\ printing[Session] = <<>> => pending[Session] = <<>>
  BY DEF TypeInv, TypeOK, NailTypeOK, Threads, PrintInv, PrintTypes, WritesPrinted
<1> SUFFICES ASSUME phase'[Session] = "answered", ~ answer'.given
             PROVE  /\ printing'[Session] # <<>> /\ pending'[Session] = <<>>
                    /\ Head(printing'[Session]).type = CHUNKTYPE_EXIT
  BY DEF Answering
<1>1. CASE ReadActions
  <2>1. phase[Session] = "answered" /\ UNCHANGED <<printing, pending, answer>>
    BY <1>0, <1>1, ReadFrame DEF outputVars
  <2> QED
    BY <2>1 DEF Answering
<1>2. CASE CloseActions
  <2>1. phase[Session] = "answered" /\ UNCHANGED <<printing, pending, answer>>
    BY <1>0, <1>2, CloseFrame DEF outputVars
  <2> QED
    BY <2>1 DEF Answering
<1>3. CASE NailReturns \/ NailThrows \/ StartRead
  <2>1. phase' \in {[phase EXCEPT ![Session] = "answering"], [phase EXCEPT ![Session] = "reading"]}
    BY <1>3 DEF NailReturns, NailThrows, StartRead
  <2> QED
    BY <1>0, <2>1
<1>4. CASE Answer
  <2>1. /\ printing[Session] = <<>> /\ UNCHANGED pending
        /\ Prints(Session, CHUNKTYPE_EXIT, <<Decimal[status[Session]], NewLine>>)
    BY <1>4 DEF Answer, PrintStatus, Prints
  <2> DEFINE texts == <<Decimal[status[Session]], NewLine>>
             call == [i \in DOMAIN texts |-> [type |-> CHUNKTYPE_EXIT, text |-> texts[i]]]
  <2>2. printing' = [printing EXCEPT ![Session] = call]
    BY <2>1 DEF Prints
  <2>3. DOMAIN texts = 1 .. 2
    OBVIOUS
  <2> HIDE DEF texts
  <2>4. call = [i \in 1 .. 2 |-> [type |-> CHUNKTYPE_EXIT, text |-> texts[i]]]
    BY <2>3
  <2>5. call # <<>> /\ Head(call).type = CHUNKTYPE_EXIT
    <3>1. call[1].type = CHUNKTYPE_EXIT /\ DOMAIN call = 1 .. 2
      BY <2>4
    <3>2. Head(call) = call[1]
      BY <2>4
    <3>3. call # <<>>
      BY <3>1
    <3> QED
      BY <3>1, <3>2, <3>3
  <2> HIDE DEF call
  <2> QED
    BY <1>0, <2>1, <2>2, <2>5
<1>5. ASSUME NEW t \in Threads,
             \/ \E type \in DOMAIN Texts : PrintText(t, type)
             \/ \E n \in Statuses : SystemExit(t, n)
             \/ ExitPropagates(t) \/ ExitCaught(t)
      PROVE  /\ printing'[Session] # <<>> /\ pending'[Session] = <<>>
             /\ Head(printing'[Session]).type = CHUNKTYPE_EXIT
  <2>1. /\ UNCHANGED <<pending, answer>>
        /\ phase[t] \in {"run", "thrown"}
        /\ \/ UNCHANGED phase
           \/ \E p \in {"run", "thrown", "answering", "ended"} : phase' = [phase EXCEPT ![t] = p]
        /\ \/ UNCHANGED printing
           \/ \E call : printing' = [printing EXCEPT ![t] = call]
    BY <1>5 DEF PrintText, SystemExit, MayCall, Free, PrintStatus, Prints,
                ExitPropagates, ExitCaught, outputVars
  <2>2. phase[Session] = "answered" /\ t # Session
    BY <1>0, <2>1
  <2>3. printing'[Session] = printing[Session]
    BY <1>0, <2>1, <2>2
  <2> QED
    BY <2>1, <2>2, <2>3 DEF Answering
<1>6. ASSUME NEW t \in Threads, BeginWrite(t)
      PROVE  /\ printing'[Session] # <<>> /\ pending'[Session] = <<>>
             /\ Head(printing'[Session]).type = CHUNKTYPE_EXIT
  <2>1. /\ UNCHANGED <<phase, printing>> /\ Records(t)
        /\ \E bytes : pending' = [pending EXCEPT ![t] = bytes]
    BY <1>6 DEF BeginWrite
  <2>2. ~ answer.given /\ Head(printing[t]).type # CHUNKTYPE_EXIT
    BY <2>1, RecordsExit
  <2>3. t # Session
    BY <2>1, <2>2 DEF Answering
  <2> QED
    BY <1>0, <2>1, <2>2, <2>3 DEF Answering
<1>7. ASSUME NEW t \in Threads, Write(t) \/ WriteFails(t)
      PROVE  /\ printing'[Session] # <<>> /\ pending'[Session] = <<>>
             /\ Head(printing'[Session]).type = CHUNKTYPE_EXIT
  <2>1. /\ UNCHANGED <<phase, answer>> /\ pending[t] # <<>>
        /\ \E bytes : pending' = [pending EXCEPT ![t] = bytes]
        /\ UNCHANGED printing \/ \E call : printing' = [printing EXCEPT ![t] = call]
    BY <1>7 DEF Write, WriteFails, InWrite, EndWrite
  <2>2. t # Session
    BY <2>1 DEF Answering
  <2> QED
    BY <1>0, <2>1, <2>2 DEF Answering
<1>8. ASSUME NEW t \in Threads, FillHeader(t)
      PROVE  /\ printing'[Session] # <<>> /\ pending'[Session] = <<>>
             /\ Head(printing'[Session]).type = CHUNKTYPE_EXIT
  <2>1. UNCHANGED <<phase, answer, printing, pending>>
    BY <1>8 DEF FillHeader
  <2> QED
    BY <2>1 DEF Answering
<1> QED
  BY <1>1, <1>2, <1>3, <1>4, <1>5, <1>6, <1>7, <1>8, ServerActionKinds DEF StreamActions

Control == Ends /\ Answering

(* Control holds at the start ...                                          *)
LEMMA ControlInit == Init => Control
  BY DEF Init, SocketInit, ClientInit, NailInit, Control, Ends, Answering, Threads

(* ... and every step keeps it.                                            *)
LEMMA ControlStep == PrintInv /\ TypeInv /\ Control /\ [Next]_vars => Control'
<1> SUFFICES ASSUME PrintInv, TypeInv, Control, [Next]_vars PROVE Control'
  OBVIOUS
<1>1. CASE ClientActions /\ UNCHANGED nailVars
  <2>1. Answering'
    BY <1>1 DEF Control, Answering, nailVars, outputVars
  <2> QED
    BY <1>1, <2>1, EndsClient DEF Control
<1>2. CASE ServerActions /\ UNCHANGED clientVars
  BY <1>2, EndsServer, AnsweringStep DEF Control
<1>3. CASE UNCHANGED vars
  BY <1>3 DEF vars, socketVars, clientVars, nailVars, inputVars, outputVars,
              Control, Ends, Answering
<1> QED
  BY <1>1, <1>2, <1>3, Sides
=============================================================================
