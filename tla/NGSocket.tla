------------------------------ MODULE NGSocket ------------------------------
(***************************************************************************)
(* The TCP connection of a client and a server as ng.c and NGSession.java  *)
(* use it: two byte streams of bounded capacity without boundaries, whose  *)
(* ends are closed by close(), or by the end of a process.  External: this *)
(* is what the operating systems promise and what they do not.             *)
(***************************************************************************)
EXTENDS NGProtocol

CONSTANT Capacity  (* bytes the buffers of one direction hold              *)

ASSUME CapacityAssumption == Capacity \in CHUNK_HEADER_LEN + 1 .. MaxInt

VARIABLES toServer, toClient,          (* the bytes under way              *)
          clientClosed, serverClosed,  (* the ends that are closed         *)
          reset                        (* the client's end was reset       *)

socketVars == <<toServer, toClient, clientClosed, serverClosed, reset>>

SocketTypeOK == /\ toServer \in Bytes /\ Len(toServer) <= Capacity
                /\ toClient \in Bytes /\ Len(toClient) <= Capacity
                /\ clientClosed \in BOOLEAN
                /\ serverClosed \in BOOLEAN
                /\ reset \in BOOLEAN

SocketInit == /\ toServer = <<>> /\ toClient = <<>>
              /\ clientClosed = FALSE /\ serverClosed = FALSE
              /\ reset = FALSE

(* How many of the bytes a blocking send puts into a stream at once.       *)
Fits(channel, bytes) == Min({Len(bytes), Capacity - Len(channel)})

Skip(n, bytes) == SubSeq(bytes, n + 1, Len(bytes))
Take(n, bytes) == SubSeq(bytes, 1, n)

(* An end that is closed before it has read everything, or is sent more,   *)
(* resets the connection: any part of what it has just sent may be lost.   *)
Reset == /\ reset' = TRUE
         /\ \E n \in 0 .. Len(toClient) : toClient' = Take(n, toClient)

CloseServerEnd ==
  /\ serverClosed' = TRUE
  /\ toServer' = <<>>
  /\ \/ toServer = <<>> /\ UNCHANGED <<toClient, reset>>
     \/ toServer # <<>> /\ Reset
  /\ UNCHANGED clientClosed

CloseClientEnd ==
  /\ clientClosed' = TRUE
  /\ toClient' = <<>>
  /\ \/ toClient = <<>> /\ UNCHANGED toServer
     \/ /\ toClient # <<>>
        /\ \E n \in 0 .. Len(toServer) : toServer' = Take(n, toServer)
  /\ UNCHANGED <<serverClosed, reset>>
=============================================================================
