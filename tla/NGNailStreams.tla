--------------------------- MODULE NGNailStreams ---------------------------
(***************************************************************************)
(* The server's side of one connection: the session thread of NGSession    *)
(* from the moment it has the socket until it has closed it, and the       *)
(* streams it gives the nail (NGInputStream, NGOutputStream, the exit      *)
(* stream of NGSecurityManager).  A nail is any sequence of at most        *)
(* MaxCalls calls of its threads: the session thread and the threads the   *)
(* nail has started, which inherit its streams.                            *)
(***************************************************************************)
EXTENDS NGSocket

CONSTANTS Session,    (* the session thread                                 *)
          NoThread,   (* the lock is free                                   *)
          Helpers,    (* the other threads of the nail                      *)
          Texts,      (* what nails print: sets of bytes per output         *)
          Statuses,   (* what nails give to System.exit                     *)
          ReadSizes,  (* the sizes of the buffers nails read into           *)
          MaxCalls,   (* the calls all threads of a nail make (a bound)     *)
          Crash       (* the JVM may end                                    *)

ASSUME NailAssumption ==
  /\ Session \notin Helpers
  /\ NoThread \notin Helpers \cup {Session}
  /\ Texts \in [{CHUNKTYPE_STDOUT, CHUNKTYPE_STDERR} -> SUBSET Bytes]
  /\ \A s \in DOMAIN Texts : \A text \in Texts[s] : Len(text) \in 1 .. MaxInt
  /\ Statuses \subseteq 0 .. 999
  /\ ReadSizes \subseteq Nat \ {0}
  /\ MaxCalls \in Nat
  /\ Crash \in BOOLEAN

Threads == {Session} \cup Helpers

VARIABLES spc,       (* the session: it reads the request, runs the nail,   *)
                     (* has closed the socket, or has left it open          *)
          phase,     (* what each thread of the nail is about               *)
          status,    (* the status each thread exits with                   *)
          printing,  (* the chunks a thread's call of a PrintStream has     *)
                     (* still to write, each [type, text]                   *)
          header,    (* the lengths in the header arrays of the streams     *)
          filled,    (* the threads in write() that have filled their       *)
                     (* stream's array, and wait for the lock               *)
          holder,    (* the thread in NGOutputStream.write()'s lock on the  *)
                     (* stream of the socket                                *)
          pending,   (* what a thread in write() has still to put there     *)
          calls,     (* how many calls the nail has made                    *)
          remaining, (* NGInputStream.remaining                             *)
          inEof,     (* NGInputStream.eof                                   *)
          got,       (* what the nail has read                              *)
          written,   (* history: what went to stdout and stderr             *)
          answer     (* history: the status of the first exit chunk and     *)
                     (* what was written before it                          *)

inputVars == <<remaining, inEof, got>>
headerVars == <<header, filled>>
outputVars == <<printing, headerVars, holder, pending, written, answer>>
nailVars == <<spc, phase, status, calls, inputVars, outputVars>>

SessionPhases == {"run", "reading", "thrown", "answering", "answered", "ended"}

NailTypeOK ==
  /\ spc \in {"request", "nail", "closed", "abandoned", "dead"}
  /\ phase \in [Threads -> SessionPhases]
  /\ status \in [Threads -> Nat]
  /\ \A t \in Threads : \A i \in DOMAIN printing[t] :
       printing[t][i] \in [type : DOMAIN Texts \cup {CHUNKTYPE_EXIT}, text : Bytes]
  /\ header \in [DOMAIN Texts \cup {CHUNKTYPE_EXIT} -> Nat]
  /\ filled \subseteq Threads
  /\ holder \in Threads \cup {NoThread}
  /\ pending \in [Threads -> Bytes]
  /\ calls \in 0 .. MaxCalls
  /\ remaining \in Nat
  /\ inEof \in BOOLEAN
  /\ got \in Bytes
  /\ written \in [DOMAIN Texts -> Bytes]
  /\ answer \in [given : BOOLEAN, status : Nat, due : [DOMAIN Texts -> Bytes]]

NailInit == /\ spc = "request"
            /\ phase = [t \in Threads |-> "run"]
            /\ status = [t \in Threads |-> 0]
            /\ printing = [t \in Threads |-> <<>>]
            /\ header = [s \in DOMAIN Texts \cup {CHUNKTYPE_EXIT} |-> 0]
            /\ filled = {}
            /\ holder = NoThread
            /\ pending = [t \in Threads |-> <<>>]
            /\ calls = 0
            /\ remaining = 0 /\ inEof = FALSE /\ got = <<>>
            /\ written = [s \in DOMAIN Texts |-> <<>>]
            /\ answer = [given |-> FALSE, status |-> 0, due |-> written]
-----------------------------------------------------------------------------
(* The request.                                                            *)

(* readFully() of a header and of the text it announces.                   *)
ChunkArrived == /\ Len(toServer) >= CHUNK_HEADER_LEN
                /\ Len(toServer) >= CHUNK_HEADER_LEN + FromArray(toServer)
FirstChunk == [type |-> toServer[CHUNK_HEADER_LEN],
               text |-> SubSeq(toServer, CHUNK_HEADER_LEN + 1,
                               CHUNK_HEADER_LEN + FromArray(toServer))]

(* An entry of the environment without "=" (61): substring(0, -1) throws.  *)
Garbled(c) == c.type = CHUNKTYPE_ENVIRONMENT /\ 61 \notin Range(c.text)

ReadRequest ==
  /\ spc = "request" /\ ChunkArrived /\ ~Garbled(FirstChunk)
  /\ toServer' = Skip(CHUNK_HEADER_LEN + Len(FirstChunk.text), toServer)
  /\ spc' = IF FirstChunk.type = CHUNKTYPE_COMMAND THEN "nail" ELSE "request"
  /\ UNCHANGED <<toClient, clientClosed, serverClosed, reset>>
  /\ UNCHANGED <<phase, status, calls, inputVars, outputVars>>

(* The outer catch, also after the end of the stream: the session goes on  *)
(* without closing the socket.                                             *)
AbandonRequest ==
  /\ spc = "request"
  /\ \/ /\ ChunkArrived /\ Garbled(FirstChunk)
        /\ toServer' = Skip(CHUNK_HEADER_LEN + Len(FirstChunk.text), toServer)
     \/ /\ ~ChunkArrived /\ clientClosed
        /\ toServer' = <<>>
  /\ spc' = "abandoned"
  /\ UNCHANGED <<toClient, clientClosed, serverClosed, reset>>
  /\ UNCHANGED <<phase, status, calls, inputVars, outputVars>>
-----------------------------------------------------------------------------
(* Calls of the nail's threads.                                            *)

Alive(t) == /\ spc # "dead"
            /\ IF t = Session THEN spc = "nail" ELSE spc \in {"nail", "closed"}

Free(t) == Alive(t) /\ phase[t] = "run" /\ printing[t] = <<>>

MayCall(t) == Free(t) /\ calls < MaxCalls /\ calls' = calls + 1

(* A PrintStream is locked by the thread that prints on it.                *)
Unlocked(type) ==
  \A t \in Threads : printing[t] # <<>> => Head(printing[t]).type # type

Prints(t, type, texts) ==
  /\ Unlocked(type)
  /\ printing' = [printing EXCEPT ![t] =
                    [i \in DOMAIN texts |-> [type |-> type, text |-> texts[i]]]]
  /\ UNCHANGED <<headerVars, holder, pending, written, answer>>

(* PrintStream.println(int) writes the digits and the end of the line in   *)
(* two calls of write(), under one lock.                                   *)
PrintStatus(t, n) == Prints(t, CHUNKTYPE_EXIT, <<Decimal[n], NewLine>>)

PrintText(t, type) ==
  /\ MayCall(t)
  /\ \E text \in Texts[type] : Prints(t, type, <<text>>)
  /\ UNCHANGED <<spc, phase, status, inputVars, socketVars>>

(* System.exit(): NGSecurityManager.checkExit() writes the exit chunk,     *)
(* then throws in the thread that called it.                               *)
SystemExit(t, n) ==
  /\ MayCall(t)
  /\ PrintStatus(t, n)
  /\ phase' = [phase EXCEPT ![t] = "thrown"]
  /\ status' = [status EXCEPT ![t] = n]
  /\ UNCHANGED <<spc, inputVars, socketVars>>

(* The exception leaves the nail or its thread, or is caught by the nail.  *)
ExitPropagates(t) ==
  /\ Alive(t) /\ phase[t] = "thrown" /\ printing[t] = <<>>
  /\ phase' = [phase EXCEPT ![t] = IF t = Session THEN "answering" ELSE "ended"]
  /\ UNCHANGED <<spc, status, calls, inputVars, outputVars, socketVars>>

ExitCaught(t) ==
  /\ Alive(t) /\ phase[t] = "thrown" /\ printing[t] = <<>>
  /\ phase' = [phase EXCEPT ![t] = "run"]
  /\ UNCHANGED <<spc, status, calls, inputVars, outputVars, socketVars>>

(* The nail returns; or throws, which prints the trace on its stderr.      *)
NailReturns ==
  /\ Free(Session)
  /\ phase' = [phase EXCEPT ![Session] = "answering"]
  /\ status' = [status EXCEPT ![Session] = 0]
  /\ UNCHANGED <<spc, calls, inputVars, outputVars, socketVars>>

NailThrows ==
  /\ Free(Session)
  /\ \E trace \in Texts[CHUNKTYPE_STDERR] :
       Prints(Session, CHUNKTYPE_STDERR, <<trace>>)
  /\ phase' = [phase EXCEPT ![Session] = "answering"]
  /\ status' = [status EXCEPT ![Session] = EXIT_EXCEPTION]
  /\ UNCHANGED <<spc, calls, inputVars, socketVars>>

(* The session's own exit.println().                                       *)
Answer ==
  /\ spc = "nail" /\ phase[Session] = "answering" /\ printing[Session] = <<>>
  /\ PrintStatus(Session, status[Session])
  /\ phase' = [phase EXCEPT ![Session] = "answered"]
  /\ UNCHANGED <<spc, status, calls, inputVars, socketVars>>

CloseSocket ==
  /\ spc = "nail" /\ phase[Session] = "answered" /\ printing[Session] = <<>>
  /\ spc' = "closed"
  /\ CloseServerEnd
  /\ UNCHANGED <<phase, status, calls, inputVars, outputVars>>

(* The JVM ends, and its system closes the socket.                         *)
Die ==
  /\ Crash /\ ~serverClosed /\ spc # "dead"
  /\ spc' = "dead"
  /\ CloseServerEnd
  /\ UNCHANGED <<phase, status, calls, inputVars, outputVars>>
-----------------------------------------------------------------------------
(* NGInputStream, read by the session thread: its fields have no lock.     *)

StartRead ==
  /\ MayCall(Session)
  /\ phase' = [phase EXCEPT ![Session] = "reading"]
  /\ UNCHANGED <<spc, status, inputVars, outputVars, socketVars>>

Reading == Alive(Session) /\ phase[Session] = "reading"

ReadReturns(bytes) == /\ got' = got \o bytes
                      /\ phase' = [phase EXCEPT ![Session] = "run"]

(* readHeader(): the end of the stream is the end of the input as well.    *)
ReadHeader ==
  /\ Reading /\ remaining = 0 /\ ~inEof
  /\ \/ /\ Len(toServer) >= CHUNK_HEADER_LEN
        /\ IF toServer[CHUNK_HEADER_LEN] = CHUNKTYPE_STDIN
           THEN remaining' = FromArray(toServer) /\ UNCHANGED inEof
           ELSE inEof' = TRUE /\ UNCHANGED remaining
        /\ toServer' = Skip(CHUNK_HEADER_LEN, toServer)
     \/ /\ Len(toServer) < CHUNK_HEADER_LEN /\ clientClosed
        /\ inEof' = TRUE
        /\ toServer' = <<>>
        /\ UNCHANGED remaining
  /\ UNCHANGED <<toClient, clientClosed, serverClosed, reset>>
  /\ UNCHANGED <<spc, phase, status, calls, got, outputVars>>

(* read(byte[], offset, length) within a chunk.                            *)
ReadData ==
  /\ Reading /\ remaining > 0 /\ ~inEof /\ toServer # <<>>
  /\ \E length \in ReadSizes :
       LET n == Min({remaining, length, Len(toServer)})
       IN  /\ ReadReturns(Take(n, toServer))
           /\ toServer' = Skip(n, toServer)
           /\ remaining' = remaining - n
  /\ UNCHANGED <<toClient, clientClosed, serverClosed, reset>>
  /\ UNCHANGED <<spc, status, calls, inEof, outputVars>>

(* The stream ends within a chunk: `remaining -= -1`.                      *)
ReadCut ==
  /\ Reading /\ remaining > 0 /\ ~inEof /\ toServer = <<>> /\ clientClosed
  /\ ReadReturns(<<>>)
  /\ remaining' = remaining + 1
  /\ UNCHANGED <<spc, status, calls, inEof, outputVars, socketVars>>

(* A connection the client has reset throws, in readHeader() or within a   *)
(* chunk.  Whether it has depends on what it had not read yet: any one it  *)
(* has closed may be reset.                                                *)
ReadFails ==
  /\ Reading /\ ~inEof /\ clientClosed
  /\ ReadReturns(<<>>)
  /\ toServer' = <<>>
  /\ UNCHANGED <<toClient, clientClosed, serverClosed, reset>>
  /\ UNCHANGED <<spc, status, calls, remaining, inEof, outputVars>>

ReadEof ==
  /\ Reading /\ inEof
  /\ ReadReturns(<<>>)
  /\ UNCHANGED <<spc, status, calls, remaining, inEof, outputVars, socketVars>>
-----------------------------------------------------------------------------
(* NGOutputStream.write(): the header array, which all calls of a stream   *)
(* share, is filled; then header and payload are written under the lock.   *)

InWrite(t) == pending[t] # <<>>

Records(t) ==
  LET c == Head(printing[t])
  IN  IF c.type = CHUNKTYPE_EXIT
      THEN /\ answer' = IF answer.given THEN answer
                        ELSE [given |-> TRUE, status |-> atoi(c.text), due |-> written]
           /\ UNCHANGED written
      ELSE /\ written' = [written EXCEPT ![c.type] = @ \o c.text]
           /\ UNCHANGED answer

(* Mutant: one array for all streams. *)
FillHeader_Static(t) ==
  /\ spc # "dead" /\ printing[t] # <<>> /\ ~InWrite(t) /\ t \notin filled
  /\ header' = [s \in DOMAIN header |-> Len(Head(printing[t]).text)]
  /\ filled' = filled \cup {t}
  /\ UNCHANGED <<printing, holder, pending, written, answer>>
  /\ UNCHANGED <<spc, phase, status, calls, inputVars, socketVars>>

FillHeader(t) ==
  /\ spc # "dead" /\ printing[t] # <<>> /\ ~InWrite(t) /\ t \notin filled
  /\ header' = [header EXCEPT ![Head(printing[t]).type] = Len(Head(printing[t]).text)]
  /\ filled' = filled \cup {t}
  /\ UNCHANGED <<printing, holder, pending, written, answer>>
  /\ UNCHANGED <<spc, phase, status, calls, inputVars, socketVars>>

(* Mutant: write() is not synchronized. *)
BeginWrite_NoLock(t) ==
  /\ spc # "dead" /\ t \in filled
  /\ LET c == Head(printing[t])
     IN  pending' = [pending EXCEPT ![t] = ToArray(header[c.type]) \o <<c.type>> \o c.text]
  /\ filled' = filled \ {t}
  /\ Records(t)
  /\ UNCHANGED <<header, holder, printing>>
  /\ UNCHANGED <<spc, phase, status, calls, inputVars, socketVars>>

(* The chunk is made of the array as it is by now.                         *)
BeginWrite(t) ==
  /\ spc # "dead" /\ t \in filled /\ holder = NoThread
  /\ holder' = t
  /\ LET c == Head(printing[t])
     IN  pending' = [pending EXCEPT ![t] = ToArray(header[c.type]) \o <<c.type>> \o c.text]
  /\ filled' = filled \ {t}
  /\ Records(t)
  /\ UNCHANGED <<header, printing>>
  /\ UNCHANGED <<spc, phase, status, calls, inputVars, socketVars>>

EndWrite(t) == /\ holder' = NoThread
               /\ printing' = [printing EXCEPT ![t] = Tail(@)]

Write(t) ==
  /\ InWrite(t) /\ ~clientClosed /\ ~serverClosed
  /\ LET n == Fits(toClient, pending[t])
     IN  /\ n > 0
         /\ toClient' = toClient \o Take(n, pending[t])
         /\ pending' = [pending EXCEPT ![t] = Skip(n, @)]
  /\ IF InWrite(t)' THEN UNCHANGED <<holder, printing>> ELSE EndWrite(t)
  /\ UNCHANGED <<toServer, clientClosed, serverClosed, reset>>
  /\ UNCHANGED <<spc, phase, status, calls, inputVars, headerVars, written, answer>>

(* Nobody reads any more: the bytes vanish or write() throws, which the    *)
(* PrintStream keeps to itself.                                            *)
WriteFails(t) ==
  /\ spc # "dead" /\ InWrite(t) /\ (clientClosed \/ serverClosed)
  /\ pending' = [pending EXCEPT ![t] = <<>>]
  /\ EndWrite(t)
  /\ UNCHANGED <<spc, phase, status, calls, inputVars, headerVars, written, answer, socketVars>>
-----------------------------------------------------------------------------
(* What the threads do by themselves, the end of the nail included.        *)
StreamSteps(t) == FillHeader(t) \/ BeginWrite(t) \/ Write(t) \/ WriteFails(t)

SessionSteps == \/ ReadRequest \/ AbandonRequest \/ Answer \/ CloseSocket
                \/ ReadHeader \/ ReadData \/ ReadCut \/ ReadFails \/ ReadEof
                \/ ExitPropagates(Session) \/ ExitCaught(Session)
                \/ NailReturns \/ NailThrows
=============================================================================
