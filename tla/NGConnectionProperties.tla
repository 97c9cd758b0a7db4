----------------------- MODULE NGConnectionProperties -----------------------
(***************************************************************************)
(* What a client and a nail may rely on.                                   *)
(***************************************************************************)
EXTENDS NGConnection

(* Types, the capacity of the streams, and exit statuses of eight bits.    *)
TypeOK == SocketTypeOK /\ ClientTypeOK /\ NailTypeOK

(* The bytes of each stream arrive whole, in order and in no other stream, *)
(* however chunks are split, buffers are filled and threads print          *)
(* concurrently (NGOutputStream.write, NGInputStream.read, recvToFD); the  *)
(* nail meets the end of its input only after all of it, or when the       *)
(* client has ended.                                                       *)
StreamsInOrder ==
  /\ \A s \in Outputs : IsPrefix(copied[s], written[s])
  /\ IsPrefix(got, Stdin)
  /\ inEof /\ ~clientClosed => got = Stdin

(* A client that ends by an exit chunk ends by the first one: what was     *)
(* printed before it was copied, nothing after it, and the exit status is  *)
(* the one of that chunk modulo 256, although exit chunks may follow each  *)
(* other and threads print all the time (NGSession.run, checkExit,         *)
(* processExit).  Exceptions are a JVM that has ended and a socket that    *)
(* was reset.  Only in these cases does the client find a connection that  *)
(* is broken.  It may lose the answer of a session that is alive as well,  *)
(* when a header comes in parts, the first alone ("split", ng.c:293), and  *)
(* by a signal, but it never takes payload for a header.                   *)
AnswerIsTrue ==
  cpc = "ended" =>
    /\ exit.why # "unexpected"
    /\ exit.why = "broken" => spc = "dead" \/ reset
    /\ exit.why = "status" /\ spc # "dead" /\ ~reset =>
         /\ answer.given
         /\ exit.code = answer.status % 256
         /\ copied = answer.due

(* The ways a connection may last for ever: both sides send to each other  *)
(* and none receives; the client repeats a recv() that returns 0; the      *)
(* server has abandoned the request without closing the socket.            *)
BothSend == /\ cpc = "send" /\ Len(toServer) = Capacity
            /\ holder # NoThread /\ Len(toClient) = Capacity
Spins == /\ cpc = "recvToFD" /\ toClient = <<>> /\ serverClosed
         /\ ~reset \/ chunk.bytesRead > 0
Abandoned == spc = "abandoned" /\ cpc # "ended"

(* Otherwise the client ends and the session closes the socket or has      *)
(* abandoned the request (main() of ng.c, NGSession.run).                  *)
ConnectionEnds ==
  \/ <>(cpc = "ended" /\ spc \in {"closed", "abandoned", "dead"})
  \/ <>[](BothSend \/ Spins \/ Abandoned)
=============================================================================
