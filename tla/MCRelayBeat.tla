----------------------------- MODULE MCRelayBeat -----------------------------
(* Relay under a fair sweep timer.  beat flips at every sweep, one that      *)
(* changes nothing included, so that fairness asks for the sweep to come     *)
(* and never for it to achieve something.                                    *)
EXTENDS MCRelay

VARIABLE beat

beatVars == <<vars, beat>>

BeatInit == Init /\ beat = 0
BeatNext == \/ SweepStep /\ beat' = 1 - beat
            \/ (Launch \/ ClientStep) /\ UNCHANGED beat

\* setInterval runs from the launch to endSession.
SweepDue == ~ over /\ launchAge # NotLaunched

\* WF_beatVars(SweepStep /\ beat' = 1 - beat), SweepDue being its ENABLED.
\* Nothing is assumed of the clients.
Timer == []<>(~ SweepDue) \/ []<><<beat' # beat>>_beat

BeatSpec == BeatInit /\ [][BeatNext]_beatVars /\ Timer

\* The game never stands still: whatever the clients send or fail to send,
\* each tic is sealed or the session ends.
SealProgress ==
  \A t \in Tics : (tic = t /\ launchAge # NotLaunched) ~> (tic > t \/ over)

ReservationSettles ==
  \A s \in Slots :
    (players[s].joining /\ ~ players[s].ingame /\ launchAge # NotLaunched)
      ~> (players[s].ingame \/ ~ players[s].joining \/ over)

EmptySessionEnds ==
  (launchAge # NotLaunched /\ \A s \in Slots : players[s].ws = NoClient)
    ~> (over \/ \E s \in Slots : players[s].ws # NoClient)

\* Nothing waits for somebody who does not come: a slot a drop-in holds is given
\* back or goes live, and a launched session nobody is connected to ends.
NobodyLingers == ReservationSettles /\ EmptySessionEnds
=============================================================================
