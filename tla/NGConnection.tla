---------------------------- MODULE NGConnection ----------------------------
(***************************************************************************)
(* One connection of the Nailgun client with a session of the server.      *)
(***************************************************************************)
EXTENDS NGClient, NGNailStreams

vars == <<socketVars, clientVars, nailVars>>

Init == SocketInit /\ ClientInit /\ NailInit

Client(step) == step /\ UNCHANGED nailVars
Server(step) == step /\ UNCHANGED clientVars

Next ==
  \/ Client(Send) \/ Client(SendToClosed) \/ Client(BrokenPipe)
  \/ Client(ReadStdin) \/ Client(StdinEnds)
  \/ Client(RecvHeader) \/ Client(RecvHeaderFails)
  \/ Client(RecvToFD) \/ Client(RecvToFDFails)
  \/ Client(ProcessExit) \/ Client(ProcessExitFails)
  \/ Client(Killed)
  \/ Server(ReadRequest) \/ Server(AbandonRequest)
  \/ Server(NailReturns) \/ Server(NailThrows)
  \/ Server(Answer) \/ Server(CloseSocket) \/ Server(Die)
  \/ Server(StartRead) \/ Server(ReadHeader)
  \/ Server(ReadData) \/ Server(ReadCut) \/ Server(ReadFails) \/ Server(ReadEof)
  \/ \E t \in Threads :
       \/ \E type \in DOMAIN Texts : Server(PrintText(t, type))
       \/ \E n \in Statuses : Server(SystemExit(t, n))
       \/ Server(ExitPropagates(t)) \/ Server(ExitCaught(t))
       \/ Server(FillHeader(t)) \/ Server(BeginWrite(t))
       \/ Server(Write(t)) \/ Server(WriteFails(t))

Spec == Init /\ [][Next]_vars

(* The threads of both processes are scheduled; every nail ends, as it     *)
(* makes finitely many calls, and so does the client's input.              *)
Fairness == /\ WF_vars(Client(ClientSteps))
            /\ WF_vars(Server(SessionSteps))
            /\ \A t \in Threads : WF_vars(Server(StreamSteps(t)))

FairSpec == Spec /\ Fairness
=============================================================================
