------------------------------ MODULE NGClient ------------------------------
(***************************************************************************)
(* The Nailgun client (ng.c), from its connection on: it sends a request,  *)
(* forwards its standard input in chunks and copies the chunks it receives *)
(* to its standard output and error, in one thread with select().  The     *)
(* Windows build, which sends from a thread of its own, is not modelled.   *)
(***************************************************************************)
EXTENDS NGSocket

CONSTANTS Requests,   (* what clients may ask: sequences of [type, text]    *)
          Stdin,      (* the bytes on the client's standard input           *)
          BUFSIZE,    (* the size of the buffer of recv() and read()        *)
          Kill        (* a signal may end the client                        *)

RequestTypes == {CHUNKTYPE_ARGUMENT, CHUNKTYPE_ENVIRONMENT, CHUNKTYPE_WORKINGDIRECTORY}

(* The command is the last chunk of a request.                             *)
ASSUME ClientAssumption ==
  /\ Requests \subseteq Seq([type : RequestTypes \cup {CHUNKTYPE_COMMAND}, text : Bytes])
  /\ \A request \in Requests : \E last \in DOMAIN request :
       \A i \in DOMAIN request :
         /\ i <= last
         /\ request[i].type = CHUNKTYPE_COMMAND <=> i = last
         /\ Len(request[i].text) + CHUNK_HEADER_LEN <= Capacity
  /\ Stdin \in Bytes
  /\ BUFSIZE \in Nat /\ 3 < BUFSIZE /\ BUFSIZE <= Capacity
  /\ Kill \in BOOLEAN

VARIABLES cpc,     (* where the client is                                   *)
          unsent,  (* what sendAll() has still to send                      *)
          read,    (* how much of Stdin was read                            *)
          eof,     (* main()'s variable: the end of Stdin was read          *)
          chunk,   (* the chunk it receives: its type, `len`, `bytesRead`   *)
          copied,  (* what it has written to stdout and stderr              *)
          exit     (* why it ended, and its exit status                     *)

clientVars == <<cpc, unsent, read, eof, chunk, copied, exit>>

Outputs == {CHUNKTYPE_STDOUT, CHUNKTYPE_STDERR}

Whys == {"none", "status", "broken", "split", "unexpected", "signal"}

ClientTypeOK ==
  /\ cpc \in {"send", "select", "recvToFD", "processExit", "ended"}
  /\ unsent \in Bytes
  /\ read \in 0 .. Len(Stdin)
  /\ eof \in BOOLEAN
  /\ chunk \in [type : Byte, len : Nat, bytesRead : Nat]
  /\ copied \in [Outputs -> Bytes]
  /\ exit \in [why : Whys, code : Byte]

RequestBytes(request) ==
  FlattenSeq([i \in DOMAIN request |-> Chunk(request[i].type, request[i].text)])

ClientInit == /\ cpc = "send"
              /\ \E request \in Requests : unsent = RequestBytes(request)
              /\ read = 0
              /\ eof = FALSE
              /\ chunk = [type |-> CHUNKTYPE_EXIT, len |-> 0, bytesRead |-> 0]
              /\ copied = [s \in Outputs |-> <<>>]
              /\ exit = [why |-> "none", code |-> 0]
-----------------------------------------------------------------------------
(* Mutant: the status is not cut to eight bits. *)
Exit_Whole(why, code) == /\ cpc' = "ended"
                         /\ exit' = [why |-> why, code |-> code]
                         /\ CloseClientEnd

(* cleanUpAndExit(), and what exit() makes of a status; a signal.          *)
Exit(why, code) == /\ cpc' = "ended"
                   /\ exit' = [why |-> why, code |-> code % 256]
                   /\ CloseClientEnd

(* sendAll(): bytes enter the stream as long as there is room.  When the   *)
(* server's end is closed they are answered by a reset.  The callers go    *)
(* on whatever sendAll() returns.                                          *)
Send == /\ cpc = "send" /\ ~serverClosed
        /\ LET n == Fits(toServer, unsent)
           IN  /\ n > 0
               /\ toServer' = toServer \o Take(n, unsent)
               /\ unsent' = Skip(n, unsent)
        /\ cpc' = IF unsent' = <<>> THEN "select" ELSE "send"
        /\ UNCHANGED <<toClient, clientClosed, serverClosed, reset>>
        /\ UNCHANGED <<read, eof, chunk, copied, exit>>

SendToClosed == /\ cpc = "send" /\ serverClosed
                /\ \E n \in 1 .. Len(unsent) : unsent' = Skip(n, unsent)
                /\ cpc' = IF unsent' = <<>> THEN "select" ELSE "send"
                /\ Reset
                /\ UNCHANGED <<toServer, clientClosed, serverClosed>>
                /\ UNCHANGED <<read, eof, chunk, copied, exit>>

(* A send after the reset raises SIGPIPE, which is not caught.             *)
BrokenPipe == /\ cpc = "send" /\ reset
              /\ Exit("signal", 141)
              /\ UNCHANGED <<unsent, read, eof, chunk, copied>>
-----------------------------------------------------------------------------
(* main()'s loop looks at the socket first.                                *)
SocketReadable == toClient # <<>> \/ serverClosed

Forward(bytes) == /\ unsent' = bytes
                  /\ cpc' = "send"
                  /\ UNCHANGED <<chunk, copied, exit, socketVars>>

(* processStdin(): read() gives any number of the bytes there are.         *)
ReadStdin == /\ cpc = "select" /\ ~SocketReadable /\ ~eof
             /\ \E n \in 1 .. Min({BUFSIZE, Len(Stdin) - read}) :
                  /\ Forward(Chunk(CHUNKTYPE_STDIN, SubSeq(Stdin, read + 1, read + n)))
                  /\ read' = read + n
             /\ UNCHANGED eof

(* Mutant: the end of the input is not told to the server. *)
StdinEnds_Silent == /\ cpc = "select" /\ ~SocketReadable /\ ~eof
                    /\ read = Len(Stdin)
                    /\ eof' = TRUE
                    /\ UNCHANGED <<cpc, unsent, read, chunk, copied, exit, socketVars>>

StdinEnds == /\ cpc = "select" /\ ~SocketReadable /\ ~eof
             /\ read = Len(Stdin)
             /\ Forward(Chunk(CHUNKTYPE_STDIN_EOF, <<>>))
             /\ eof' = TRUE
             /\ UNCHANGED read
-----------------------------------------------------------------------------
(* processnailgunstream(): one recv() of five bytes, which may return      *)
(* fewer: no more have arrived, or the stream has ended (then also by an   *)
(* error).  The client takes both for a broken connection.  ("split" tells *)
(* one that is not from one that is.)                                      *)
RecvHeaderFails ==
  /\ cpc = "select" /\ SocketReadable
  /\ Len(toClient) < CHUNK_HEADER_LEN
  /\ Exit(IF serverClosed THEN "broken" ELSE "split", NAILGUN_CONNECTION_BROKEN)
  /\ UNCHANGED <<unsent, read, eof, chunk, copied>>

Receiver(type) == IF type \in Outputs THEN "recvToFD" ELSE "processExit"

RecvHeader ==
  /\ cpc = "select" /\ Len(toClient) >= CHUNK_HEADER_LEN
  /\ LET type == toClient[CHUNK_HEADER_LEN]
     IN  IF type \in Outputs \cup {CHUNKTYPE_EXIT}
         THEN /\ chunk' = [type |-> type, len |-> FromArray(toClient),
                           bytesRead |-> 0]
              /\ toClient' = Skip(CHUNK_HEADER_LEN, toClient)
              /\ cpc' = Receiver(type)
              /\ UNCHANGED <<exit, toServer, clientClosed, serverClosed, reset>>
         ELSE /\ Exit("unexpected", NAILGUN_UNEXPECTED_CHUNKTYPE)
              /\ UNCHANGED chunk
  /\ UNCHANGED <<unsent, read, eof, copied>>

(* What recv() with MSG_WAITALL returns of `wanted` bytes, once it does.   *)
Received(wanted) == Take(Min({wanted, Len(toClient)}), toClient)
RecvReturns(wanted) == Len(toClient) >= wanted \/ serverClosed

(* One pass of the loop of recvToFD().  A recv() that returns 0 leaves the *)
(* loop where it is, for ever.                                             *)
RecvToFD ==
  /\ cpc = "recvToFD"
  /\ LET wanted == Min({BUFSIZE, chunk.len - chunk.bytesRead})
         bytes == Received(wanted)
     IN  /\ RecvReturns(wanted) /\ bytes # <<>>
         /\ copied' = [copied EXCEPT ![chunk.type] = @ \o bytes]
         /\ toClient' = Skip(Len(bytes), toClient)
         /\ chunk' = [chunk EXCEPT !.bytesRead = @ + Len(bytes)]
         /\ cpc' = IF chunk'.bytesRead < chunk.len THEN "recvToFD" ELSE "select"
  /\ UNCHANGED <<unsent, read, eof, exit, toServer, clientClosed, serverClosed, reset>>

(* A recv() that fails returns -1.  Nothing was read: bytesRead, unsigned, *)
(* becomes huge and the loop ends; otherwise it goes on for ever.          *)
RecvToFDFails ==
  /\ cpc = "recvToFD" /\ reset /\ toClient = <<>> /\ chunk.bytesRead = 0
  /\ cpc' = "select"
  /\ UNCHANGED <<unsent, read, eof, chunk, copied, exit, socketVars>>

(* processExit(): the status of as much as was received; none at all is 0. *)
ProcessExit ==
  /\ cpc = "processExit"
  /\ LET bytesToRead == Min({BUFSIZE - 1, chunk.len})
     IN  /\ RecvReturns(bytesToRead)
         /\ Exit("status", atoi(Received(bytesToRead)))
  /\ UNCHANGED <<unsent, read, eof, chunk, copied>>

ProcessExitFails ==
  /\ cpc = "processExit" /\ reset /\ toClient = <<>>
  /\ Exit("broken", NAILGUN_CONNECTION_BROKEN)
  /\ UNCHANGED <<unsent, read, eof, chunk, copied>>

Killed == /\ Kill /\ cpc # "ended"
          /\ Exit("signal", 137)
          /\ UNCHANGED <<unsent, read, eof, chunk, copied>>
-----------------------------------------------------------------------------
ClientSteps == \/ Send \/ SendToClosed \/ BrokenPipe
               \/ ReadStdin \/ StdinEnds
               \/ RecvHeaderFails \/ RecvHeader \/ RecvToFD \/ RecvToFDFails
               \/ ProcessExit \/ ProcessExitFails
=============================================================================
