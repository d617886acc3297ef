------------------------------- MODULE MCLive -------------------------------
(* What must go on, of the relay and of a client: the sweep timer's promises *)
(* (MCRelayBeat), and those of a client's frames on a wire that loses        *)
(* nothing.  part says which of them runs.                                   *)
EXTENDS MCRelayBeat

CONSTANTS Contents, Blankness, Ring, Backlog, Chunk, WantDelay, Stall, Elapsed, LastTic

VARIABLES
  part, log, next, queue, phase, frontier, lost, ring, nettic, world, maketic, built

C == INSTANCE Client WITH
       Bundles <- Contents, Blank <- Blankness, MaxTic <- LastTic, Faults <- FALSE

clientVars == <<log, next, queue, phase, frontier, lost, ring, nettic, world, maketic, built>>
liveVars == <<part, beatVars, clientVars>>

LiveInit == part \in {"relay", "client"} /\ BeatInit /\ C!Init

RelayStep(A) == part = "relay" /\ A /\ UNCHANGED <<part, clientVars>>
ClientsStep(A) == part = "client" /\ A /\ UNCHANGED <<part, beatVars>>

LiveNext == RelayStep(BeatNext) \/ ClientsStep(C!Next)

\* Client's fairness: the socket, catchUp's timer, the frames.
LiveSpec ==
  /\ LiveInit /\ [][LiveNext]_liveVars
  /\ Timer
  /\ WF_liveVars(ClientsStep(C!Arrive)) /\ WF_liveVars(ClientsStep(C!Turn))
  /\ WF_liveVars(ClientsStep(\E r \in Elapsed \ {0} : C!Frame(r)))

\* Client's promise: a live client keeps up, a catch-up ends.
Advances == C!Advances
=============================================================================
