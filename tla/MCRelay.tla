------------------------------- MODULE MCRelay -------------------------------
(* Small instances of Relay: two slots, two or three clients.              *)
EXTENDS Relay, TLC

CONSTANTS a, b, j, k

\* Both slots are seats.
TwoSeats == (0 :> a) @@ (1 :> b)
\* Slot 1 is free: only drop-ins play it.
OneSeat == 0 :> a

=============================================================================
