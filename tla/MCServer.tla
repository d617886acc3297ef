------------------------------ MODULE MCServer ------------------------------
(* The game server on small instances: a session of the relay, and the lobby *)
(* with the sessions it starts.  part says which of them runs.               *)
EXTENDS MCRelay, Lobby

VARIABLE part

\* Nothing in the lobby tells one peer from another.
AnyPeers == Permutations(Peers)

serverVars == <<part, vars, lobbyVars>>

ServerInit == part \in {"session", "lobby"} /\ Init /\ LobbyInit

SessionStep(A) == part = "session" /\ A /\ UNCHANGED <<part, lobbyVars>>
LobbyStep(A) == part = "lobby" /\ A /\ UNCHANGED <<part, vars>>

ServerNext == SessionStep(Next) \/ LobbyStep(LobbyNext)
ServerSpec == ServerInit /\ [][ServerNext]_serverVars
=============================================================================
