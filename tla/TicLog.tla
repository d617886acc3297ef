------------------------------- MODULE TicLog --------------------------------
(* What lockstep promises: one log of sealed tics that only grows, and      *)
(* replicas that each have run a prefix of it.  Two replicas that have run   *)
(* the same number of tics have therefore run the same inputs, and the       *)
(* playsim, which is deterministic, is in the same state on both.            *)
EXTENDS Naturals, Sequences

CONSTANTS Replicas, Bundles

VARIABLES
  log,      \* the sealed bundles, in tic order
  ran       \* what each replica has run

vars == <<log, ran>>

Init == log = <<>> /\ ran = [r \in Replicas |-> <<>>]

\* The relay seals the next tic.
Seal == \E b \in Bundles : log' = Append(log, b) /\ UNCHANGED ran

\* A replica runs the tics that follow the ones it ran, as far as it likes.
Run(r) ==
  \E n \in Len(ran[r]) + 1 .. Len(log) :
    ran' = [ran EXCEPT ![r] = SubSeq(log, 1, n)] /\ UNCHANGED log

Next == Seal \/ \E r \in Replicas : Run(r)

Spec == Init /\ [][Next]_vars
=============================================================================
