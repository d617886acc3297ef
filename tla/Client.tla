------------------------------- MODULE Client --------------------------------
(***************************************************************************)
(* One client of the relay, from the socket to the simulation: the bundle  *)
(* queue of client/js/net.js (makeBundlePump), the ring of sealed tics and *)
(* the pacing of engine/web/d_net.c, and the catch-up replay of a drop-in  *)
(* or a spectator.  The browser runs one callback at a time; catchUp is a  *)
(* loop that gives way at its awaits, so each stretch between two awaits   *)
(* is one action.                                                          *)
(*                                                                         *)
(* The relay is the log it seals and a socket that delivers it in order.   *)
(* A bundle's contents are a value: the model follows which bundle is run, *)
(* where it sits in the ring, and never what the playsim makes of it.      *)
(*                                                                         *)
(* A definition named X_Y is X with a plausible bug in it: X's property    *)
(* must fail under it (PROJECT.json, "mutants").                           *)
(***************************************************************************)
EXTENDS Integers, Sequences, FiniteSets, FiniteSetsExt

CONSTANTS
  Bundles,      \* the contents a sealed tic can have
  Blank,        \* what an unwritten ring entry holds
  Ring,         \* BACKUPTICS
  Backlog,      \* BACKLOG_MAX
  Chunk,        \* CHUNK: the tics catchUp replays before it yields
  WantDelay,    \* the depth asked of web_net_set_delay
  Stall,        \* more tics than this between two NetUpdates count as one (TICRATE)
  Elapsed,      \* how many tics of wall clock may pass between two frames
  Faults,       \* whether the wire may repeat or skip a tic
  MaxTic        \* bound: the relay seals tics 0..MaxTic-1

ASSUME ClientAssumption ==
  /\ Blank \notin Bundles
  /\ Ring \in Nat /\ Ring >= 4
  /\ {Backlog, Chunk, Stall} \subseteq Nat \ {0}
  /\ WantDelay \in Int /\ MaxTic \in Nat
  /\ Elapsed \subseteq Nat
  /\ Faults \in BOOLEAN

VARIABLES
  log,        \* the bundles the relay has sealed, tic t at t + 1
  next,       \* net.js next: the tic the next bundle must carry
  queue,      \* net.js queue: bundles the engine has not taken
  phase,      \* "boot", "catchup", or "live" (net.js live)
  frontier,   \* the frontier of the launch message a catch-up runs to
  lost,       \* net.js lostReason, or "no"
  ring,       \* netcmds, fabricated, ingamering: the bundle at each ring index
  nettic,     \* nettics: sealed through this tic, as the engine knows
  world,      \* the bundles the simulation has run: all its state depends on
  maketic,    \* the next tic a cmd is built for
  built       \* the tics the last step built and sent cmds for

vars == <<log, next, queue, phase, frontier, lost, ring, nettic, world, maketic, built>>
pumpVars == <<next, queue, phase, frontier, lost>>
engineVars == <<ring, nettic, world, maketic>>

gametic == Len(world)

-----------------------------------------------------------------------------
\* web_net_set_delay keeps the depth inside the ring; NetUpdate builds no
\* further ahead than that either.
Lead == Ring \div 2 - 1
inputdelay == IF WantDelay < 1 THEN 1 ELSE IF WantDelay > Lead THEN Lead ELSE WantDelay

\* web_net_bundle: whether the ring has room for a tic, the sim being at g.
HasRoom_OneMore(t, g) == t - g <= Ring
HasRoom(t, g) == t - g < Ring

\* offer(): the engine takes the queue's bundles, oldest first, while it has
\* room for them.  Taken is how many.
Taken(q, g) == Cardinality({i \in 1 .. Len(q) : HasRoom(q[i].tic, g)})

Put(r, q, n) ==
  [i \in 0 .. Ring - 1 |->
    LET here == {j \in 1 .. n : q[j].tic % Ring = i}
    IN IF here = {} THEN r[i] ELSE q[Max(here)].b]

Offer_ForgetsRest(q) ==
  LET n == Taken(q, gametic) IN
  /\ queue' = <<>>
  /\ ring' = Put(ring, q, n)
  /\ nettic' = IF n = 0 THEN nettic ELSE q[n].tic + 1

Offer(q) ==
  LET n == Taken(q, gametic) IN
  /\ queue' = SubSeq(q, n + 1, Len(q))
  /\ ring' = Put(ring, q, n)
  /\ nettic' = IF n = 0 THEN nettic ELSE q[n].tic + 1

\* NetUpdate with the sim at g and n tics of wall clock gone: the new maketic,
\* and the first tic a cmd is built for.
From_NoSnap(mk, g, n) == mk
From(mk, g, n) == IF n > 0 /\ mk < g THEN g ELSE mk
Built(mk, g, n) ==
  LET from == From(mk, g, n)
  IN Max({from, Min({from + (IF n > Stall THEN 1 ELSE n), g + Lead})})

-----------------------------------------------------------------------------
Init ==
  /\ log = <<>> /\ next = -1 /\ queue = <<>> /\ phase = "boot" /\ frontier = 0
  /\ lost = "no" /\ ring = [i \in 0 .. Ring - 1 |-> Blank] /\ nettic = 0
  /\ world = <<>> /\ maketic = 0 /\ built = {}

SealTic ==
  /\ Len(log) < MaxTic
  /\ \E b \in Bundles : log' = Append(log, b)
  /\ built' = {}
  /\ UNCHANGED <<pumpVars, engineVars>>

\* The engine is up.  A game's start goes live at once; a drop-in or spectator
\* replays up to the frontier its launch message gave, unless that is tic 0.
Boot ==
  /\ phase = "boot"
  /\ \E join \in BOOLEAN, f \in 0 .. Len(log) :
       /\ phase' = IF join /\ f > 0 THEN "catchup" ELSE "live"
       /\ frontier' = IF join THEN f ELSE 0
  /\ built' = {}
  /\ UNCHANGED <<log, next, queue, lost, engineVars>>

Up == phase # "boot" /\ lost = "no"

\* lose(): the session ends with a reason; the page tears everything down.
Lose(reason) ==
  /\ lost' = reason
  /\ built' = {}
  /\ UNCHANGED <<log, next, queue, phase, frontier, engineVars>>

\* A bundle comes off the socket: accept(), then offer() once live.

Accept(tic) ==
  LET q == Append(queue, [tic |-> tic, b |-> log[tic + 1]]) IN
  /\ Len(queue) < Backlog
  /\ next' = tic + 1
  /\ IF phase = "live" THEN Offer(q)
     ELSE queue' = q /\ UNCHANGED <<ring, nettic>>
  /\ built' = {}
  /\ UNCHANGED <<log, phase, frontier, lost, world, maketic>>

Arrive ==
  LET tic == IF next = -1 THEN 0 ELSE next IN
  /\ Up
  /\ tic < Len(log)
  /\ \/ Accept(tic)
     \/ Len(queue) >= Backlog /\ Lose("behind")

\* What a relay never does: a tic again, which is dropped, or one too late.
Misorder ==
  /\ Faults /\ Up /\ next # -1
  /\ \/ /\ next > 0
        /\ IF phase = "live" THEN Offer(queue) ELSE UNCHANGED <<queue, ring, nettic>>
        /\ built' = {}
        /\ UNCHANGED <<log, next, phase, frontier, lost, world, maketic>>
     \/ next + 1 < Len(log) /\ Lose("skipped")

\* The socket closes or fails.
Disconnect == Up /\ Lose("closed")

\* The queue ran out within the chunk, at the frontier or past it: live bundles
\* keep arriving during the replay.
CaughtUp_Exactly(n, g) == n < Chunk /\ g + n = frontier
CaughtUp(n, g) == n < Chunk /\ g + n >= frontier

\* catchUp between two awaits: deliver and replay one bundle at a time, until
\* a chunk is done or the queue is empty, and go live at the frontier.
Turn ==
  LET n == Min({Chunk, Len(queue)})
      g == gametic
  IN
  /\ phase = "catchup" /\ lost = "no"
  /\ ring' = Put(ring, queue, n)
  /\ nettic' = IF n = 0 THEN nettic ELSE queue[n].tic + 1
  /\ world' = world \o [i \in 1 .. n |-> Put(ring, queue, i)[(g + i - 1) % Ring]]
  /\ queue' = SubSeq(queue, n + 1, Len(queue))
  /\ IF CaughtUp(n, g)
     THEN phase' = "live" /\ maketic' = g + n
     ELSE UNCHANGED <<phase, maketic>>
  /\ built' = {}
  /\ UNCHANGED <<log, next, frontier, lost>>

\* Nothing to replay for STALL_MS, short of the frontier.
StallOut == phase = "catchup" /\ lost = "no" /\ queue = <<>> /\ Lose("stalled")

\* main.js before every frame: offer() what the ring had no room for.
OfferWaiting == Offer(queue)

\* A frame: the offer, then TryRunTics: NetUpdate, then the
\* tics that are sealed and due, each followed by a NetUpdate of its own.
\* realtics of wall clock went by since the last frame, newtics of them since
\* the last NetUpdate.
Counts_Unsealed(low, realtics) == IF low > gametic THEN realtics ELSE 0
Counts(low, realtics) ==
  LET margin == low - gametic
      cap    == IF margin > 2 * inputdelay THEN realtics + 1 ELSE realtics
  IN Max({0, Min({margin - inputdelay, cap, margin})})

Frame(realtics) ==
  LET g == gametic IN
  /\ phase = "live" /\ lost = "no"
  /\ OfferWaiting
  /\ LET counts == Counts(nettic', realtics) IN
     \E newtics \in {n \in Elapsed : n <= realtics}, more \in [1 .. counts -> {0, 1}] :
       LET mk[i \in 0 .. counts] ==
             IF i = 0 THEN Built(maketic, g, newtics)
             ELSE Built(mk[i - 1], g + i, more[i])
       IN
       /\ world' = world \o [i \in 1 .. counts |-> ring'[(g + i - 1) % Ring]]
       /\ maketic' = mk[counts]
       /\ built' = (From(maketic, g, newtics) .. mk[0] - 1) \cup
                   UNION {From(mk[i - 1], g + i, more[i]) .. mk[i] - 1 : i \in 1 .. counts}
  /\ UNCHANGED <<log, next, phase, frontier, lost>>

Next ==
  \/ SealTic \/ Boot \/ Arrive \/ Misorder \/ Disconnect \/ Turn \/ StallOut
  \/ \E r \in Elapsed : Frame(r)

Spec == Init /\ [][Next]_vars

\* The socket delivers, catchUp's timer fires, and frames come with time
\* passing between them (requestAnimationFrame, or the hidden page's Worker).
FairSpec ==
  /\ Spec
  /\ WF_vars(Arrive) /\ WF_vars(Turn)
  /\ WF_vars(\E r \in Elapsed \ {0} : Frame(r))

-----------------------------------------------------------------------------
Entry == [tic : 0 .. MaxTic - 1, b : Bundles]

TypeOK ==
  /\ log \in Seq(Bundles) /\ Len(log) <= MaxTic
  /\ next \in -1 .. MaxTic
  /\ queue \in Seq(Entry) /\ Len(queue) <= Backlog
  /\ phase \in {"boot", "catchup", "live"}
  /\ frontier \in 0 .. MaxTic
  /\ lost \in {"no", "behind", "skipped", "closed", "stalled"}
  /\ ring \in [0 .. Ring - 1 -> Bundles \cup {Blank}]
  /\ nettic \in 0 .. MaxTic /\ maketic \in Nat
  /\ world \in Seq(Bundles \cup {Blank})
  /\ built \in SUBSET Nat

\* The simulation has run exactly the log's first tics, whatever the wire, the
\* backlog, the frames and the catch-up did: no ring entry is run before it is
\* written, twice, or after it is overwritten.
RanIsLog == gametic <= Len(log) /\ world = SubSeq(log, 1, gametic)

\* Every tic received is run, in the ring, or queued, in that order: nothing
\* the socket delivered is lost while the session lives.
NothingLost ==
  /\ gametic <= nettic /\ nettic - gametic <= Ring
  /\ lost = "no" /\ next # -1 =>
       /\ nettic + Len(queue) = next
       /\ \A i \in 1 .. Len(queue) : queue[i].tic = nettic + i - 1

\* A cmd is built once, for a tic the simulation has not run, and no more than
\* the lead ahead of it, also after a freeze or a catch-up.
CmdsAreFresh ==
  [][/\ \A t \in built' : maketic <= t /\ gametic <= t /\ t < gametic' + Lead
     /\ maketic <= maketic']_vars

\* A live client runs every tic that is sealed further than its delay ahead.
KeepsUp ==
  \A t \in 1 .. MaxTic :
    (phase = "live" /\ Len(log) >= t + inputdelay) ~> (gametic >= t \/ lost # "no")

\* A catch-up ends, live at the frontier or beyond.
CatchesUp == phase = "catchup" ~> (lost # "no" \/ (phase = "live" /\ gametic >= frontier))

\* Both: while the session lives, neither a page that froze nor a join late in
\* a game leaves the player behind for good.
Advances == KeepsUp /\ CatchesUp

\* netcode.md:240,249 and net.js:192: a player can join a game that is already
\* running, replaying the history the relay streams; the backlog limit is for
\* a page whose game loop stops (net.js:127).
CatchUpIsNotBehind == lost = "behind" => phase = "live"

\* Lockstep: the client is a replica of the relay's log.
TicLog == INSTANCE TicLog WITH Replicas <- {1}, log <- log, ran <- [r \in {1} |-> world]
IsReplica == TicLog!Spec
=============================================================================
