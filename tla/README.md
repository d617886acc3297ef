# webdoom in TLA+

A verification development for webdoom: DOOM in a browser, with a Node server
that keeps up to four players in lockstep. It holds TLA+ models of the parts
whose correctness depends on the order of events, TLC configurations that check
them on small instances, and theorems that TLAPS checks for instances of any
size. `PROJECT.json` maps every definition to the lines it stands for, lists the
hazards of the code and names, for each property, a bug that breaks it.

    tlc -workers 2 -config relay_dropin.cfg MCRelay     a run (see "Runs")
    tlapm Relay_proofs.tla                              the proofs about the relay

## The system

| component | state | operations | where |
|---|---|---|---|
| **Tic relay**, one game session | four slots (socket, token, roster bits, buffered cmds, last cmd, ages), the next tic, the history, the spectators | bind a game socket, a cmd frame, seal a tic, the 50 ms sweep, a socket's close, the end | `server/game.js` 287-674 |
| **Lobby** | seats, names, parameters, observers and their reservations, the countdown, the sessions one after another | connect, name, slot, params, start, join, close | `server/game.js` 139-281 |
| **Bundle pump** | queue of bundles, next tic expected, live or not, why it was lost | accept, offer, go, catch-up, lose, quit | `client/js/net.js` 118-283 |
| **Engine network clock** | ring of 35 tics, `nettics`, `gametic`, `maketic` | take a bundle, build cmds, run the tics due, replay one tic, end the catch-up | `engine/web/d_net.c` |
| **Launcher** | the lobby socket, the screen, the launches under way | enter, leave, launch (12 pings, then boot) | `client/js/lobby.js` |
| **Browser session** | the one active game; engine, relay, sync, audio and input handles | boot, frame, end | `client/js/main.js` |
| **Save persistence** | the engine's files, the dirty set, IndexedDB | load, write-through, sync, flush | `client/js/persist.js`, `idb.js` |
| **Demo store** | records in expiry order, bytes used | put, get, expire, evict | `server/demo-store.js` |
| **Game loop** | `gameaction`, `gamestate`, the level, the players in the game, the session's flags | one tic, a menu entry, a load, a demo, a seek | `engine/core/g_game.c`, `wi_stuff.c`, `engine/web/demo.c` |
| **Zone** | a ring of blocks, the rover, the lump cache | allocate, free, free by tag, cache a lump | `engine/core/z_zone.c`, `w_wad.c` |
| **Thinkers, movers** | the ring of thinkers; sectors, `specialdata`, the two active lists | one tic, a use of a line, a save and load | `engine/core/p_tick.c`, `p_plats.c`, `p_doors.c`, ... |
| **Weapons** | the sprite's state, ready and pending weapon, ammo | one tic, a pickup, death, the next level | `engine/core/p_pspr.c`, `p_inter.c` |
| **Bodies and items** | the players' mobjs, old corpses, items to come back, the shooter's spots | join, leave, die, respawn, level, save, load | `engine/core/g_game.c`, `p_mobj.c`, `p_enemy.c` |
| **Monsters** | frames, targets, who is dead | a frame, a hit, a move, a respawn, a crush | `engine/core/p_enemy.c`, `info.c` |
| **Offline caches, audio, renderer, menus** | caches, samples, pixels, screens | | `client/sw.js`, `engine/web/mus_opl.c`, ... |

They interact in four ways. A client's *lobby socket* takes a seat or, while a
game runs, observes it and reserves a free slot; the server answers a launch or a
join with a **token**. A *game socket* binds the slot with that token and from then
on carries cmds up and sealed bundles down; a *spectator socket* only gets bundles.
Inside the page, `net.js` queues bundles and hands them to the engine's ring, which
the frame loop drains; the engine calls back to send a cmd for each tic it builds.
All that the simulation depends on is the sequence of sealed bundles: the relay's
log is the game. Inside the simulation everything is shared memory: each tic runs
the players, then every thinker, over sectors and mobjs that point to one another.

What is hard about it:

* *Concurrency.* Node and the browser run one handler at a time, but handlers
  interleave at will: cmds, binds, closes, reservations, timeouts and the sweep on
  the server; socket messages, timers, frames and the awaits of a catch-up, a boot
  or a save in the page. A socket goes on delivering after the server closed it.
* *Time.* Six thresholds (grace 250 ms, drop 5 s, never joined 10 s, reservation
  30 s, quiet sweeps, the stall of a catch-up) race with late answers.
* *Failure.* Players freeze, leave, flood, stop reading, never connect, and come
  back; a history grows past its cap; a ring or a backlog fills; a transaction fails.
* *Ordering.* A drop-in must see every tic once, and enter at a tic nobody has
  sealed yet; a repeated cmd must not repeat its one-tic events; the next game must
  read what the last one saved.
* *Stale state.* Pointers outlive a level, a load or a player; a weapon state acts on
  a check made some states before; a monster is hit inside its own attack.

## Modules

| module | what it is |
|---|---|
| `Relay` | one session of the relay, and the lobby sockets that matter to it |
| `Lobby` | the lobby, its countdown, and the sessions it starts one after another |
| `Client` | one client: bundle queue, ring, clock, catch-up |
| `TicLog` | the abstract specification: one growing log, replicas that run prefixes of it |
| `Launcher` | one browser tab: screens, lobby connections, boots |
| `Persist` | the saves between the engine's files and IndexedDB |
| `DemoStore` | the server's recordings |
| `Game`, `Intermission` | the flow of a game; the intermission it steps through |
| `Zone` | the zone allocator and the lump cache over it |
| `Thinkers` | the ring of thinkers and its walk |
| `Movers` | moving sectors, the active lists, save and load |
| `Arsenal` | a player's weapon |
| `Mobjs` | the mobjs that something points to |
| `Monsters`, `MonsterInfo` | the monsters; the tables that drive them |
| `MCRelay`, `MCRelayBeat`, `MCLive` | instances of `Relay`; `Relay` under a sweep timer that keeps firing; with `Client`, the liveness run |
| `MCServer`, `MCSite`, `MCEngine` | what one run checks: the server, the browser with the demo store, the playsim's data |
| `MCGame`, `MCMovers`, `MCArsenal`, `MCMobjs`, `MCMonsters` | the small sessions, maps, kits and rooms they run on |
| `MCBodies` | `Mobjs` alone, for two of the findings |
| `Relay_proofs`, `Lobby_proofs`, `Client_proofs`, `Movers_proofs`, `Mobjs_proofs` | the theorems about the module each is named for |
| `Engine_proofs`, `Persist_proofs`, `Session_proofs` | those about `Zone`, `Thinkers` and `Arsenal`, about `Persist` and `DemoStore`, and about `Launcher` and `Game` |

`MCServer`, `MCSite`, `MCEngine` and `MCLive` each hold several components that do
not share state. Their variable `part` says which of them a behaviour runs; the
others do not move, so the states add up and do not multiply. A definition named
`X_Y` is `X` with a plausible bug in it: the run must fail when it takes `X`'s place.

### Relay

Every event handler of `game.js` is one action, since Node runs it to the end:

| action | code |
|---|---|
| `Launch` | the last tick of the countdown: tokens out, the sweep starts |
| `Reserve`, `LeaveLobby` | `join` from an observer; its lobby socket closes |
| `BindSeat`, `BindDropIn` | `relayConnect`; a drop-in is refused past the history cap, refused part-way through its burst, or sent the history |
| `Frame` | `on('message')`: heard, scheduled, stored, then `seal()` |
| `Refuse` | `refuse()`: a flood, a backlog, an error; the socket is terminated |
| `Close` | `on('close')`, with `endSession` when it was the last player |
| `Spectate` | `spectateConnect` |
| `Sweep` | `sealSweep`, all its parts in order |

`players[s]` is `session.players[s]`, field for field. Times become ages counted in
sweeps: `lastSeen` is `seenAge`, `lastHeard` is `heardAge`, `reservedAt` is
`reservedAge`, and a sweep that comes `d` periods after the last one (`d` in `Gaps`)
adds `d` to each. `lastHeard > prev` is `heardAge = 0`. `seal()` may seal several
tics; `SealStops` says at which tic its loop stops, `AfterSeal` what the players are
then, and `Bundle` what was sent for each tic. `cast` holds the bundles of the last
step alone, which is all the properties about bundles need; `sent[c]` is the set of
tics a client's game socket was ever sent.

A *client* is whatever holds one token (or one spectator socket). A person who
reconnects is another client. Frames are arbitrary: any tic inside the bounds, in
any order, or never; TCP keeps the order within a socket, so this allows more than
an honest client does. After a close the relay initiated, frames may still arrive
(`"closing"`) until the socket's own `Close`; after a termination none do (`"dead"`).

### Lobby

`ConnectSeat`, `ConnectObserver`, `RefuseLobby` are `lobbyConnect` with its cap;
`PickSlot`, `SetParams`, `Start` its messages, each with the refusals of the code;
`CloseLobby` the close. `Tick` and `LaunchGame` are the countdown's timer: a chain
per session, which goes on until it launches or finds its session over. `QueueSweep`
and `Immediate` are the two halves of a sweep (the interval, and the immediate it
queues behind the frames being read); `Bind`, `DropIn`, `GoLive` and `CloseGame` are
the game sockets, of which only what can end a session or change who plays is kept.
`socks` holds the open game sockets of every session, so those of an ended one can
still close into the next; `others` counts the sockets that hold no slot.

A member may ask for any number from 0 up to `MAXPLAYERS` as its slot, 1.5 too: the
handler compares and asks the Map, and does not look whether the number is whole.
`LobbySeats` are the slots and such numbers (`OddSlots`). A seat that is no slot is a
seat like the others until the last tick, which throws at it (`LaunchFails`): members
before it in the Map's order have their frames, the others get none, and no sweep is
ever set. The server goes on, and the session lasts until its players have left.

Names, and the clamping of each parameter, are not kept; what becomes of a drop-in's
reservation until it is bound is `Relay`'s.

### Client, TicLog

| action | code |
|---|---|
| `Boot` | `bootDoom`: attach, `callMain`, then `go()` or `catchUp()` |
| `Arrive`, `Misorder` | `onmessage`: `accept()` then `offer()` |
| `Disconnect` | `onclose`, `onerror` |
| `Turn` | `catchUp` from one await to the next, `web_replay_tic`, `web_end_catchup` |
| `StallOut` | the 15 s without progress |
| `Frame` | `relay.offer()`, then `TryRunTics` with its `NetUpdate`s |
| `SealTic` | the relay, as far as this client sees it |

`world` is the sequence of bundles the simulation has run, so `gametic` is its
length; the playsim is deterministic, and what it computes is a function of that
sequence. A bundle is opaque. The ring is indexed by tic modulo its size, like the C
arrays, and an entry keeps its old value until it is overwritten: running a tic too
early or too late reads the wrong bundle, and `RanIsLog` sees it. `IsReplica` is the
refinement: with `ran` mapped to `world`, `Client` implements `TicLog`, the promise of
lockstep. Two clients with the same `gametic` have run the same bundles.

### Launcher, Persist, DemoStore

`Launcher` follows the states of `docs/state-machine.md`, with the handlers that await
as records that stay pending: a launch is a connection and the pings it still waits
for, a boot has a phase (`entry`). The user acts between any two of their steps.

In `Persist` every operation awaits twice, a connection and a transaction. `opens` and
`txs` are IndexedDB's two queues; `Opened` and `Done` serve their heads, `OpenFails` and
`TxFails` fail one. What is waiting is a job: a `load`, a `write` (the write-through
of files.c), a `sync` or a `flush`, with the game it belongs to, the version it
carries and, for a sync or flush, the files still to come. `Save` is the engine's
write, `Sync` the interval, `End` and `Enter` leave a game and start the next,
`Crash` the loss of the page.

`DemoStore`'s record is an id and its expiry; a put refreshes or inserts at the end of
the Map, then expires and evicts from its front.

### Game and the playsim

`Game` is `G_Ticker` and what may call `gameaction` between two tics: the cmds, the
menu, the title loop, the cheat. `Tic(press)` is one tic in which somebody presses fire
or use, or nobody does; level exits, deaths and demo ends are part of it. A menu asks
what the game is as it opens (`OpenMenu`, `May`) and what is picked from it any number of
tics later asks nothing (`Picks`), so `menu` stays over whatever begins meanwhile. The
level cheat asks for no menu, and works in a net game. `under` remembers that a load
took over the net flags of a demo: `G_DoLoadGame` leaves them as they are.
`Intermission` is `WI_Ticker` stage by stage.

`Zone` has one action per pass of a loop of `Z_Malloc` (`Scan`) and of `Z_FreeTags`
(`FreeTagged`); the rest are whole calls. A header that is merged away keeps its
fields, as in the code, because the loops read on through it. Addresses and sizes
count the unit of a block header.

`Thinkers` splits `P_RunThinkers` at each read of a link and each call, so that what a
thinker does while it runs (add, mark, stasis) falls between them. `Movers` has `Use`
for a line or a start-up sector, `Think` for one thinker (with a thing in the way or
not) and `Reload` for a save and a load. `Arsenal`'s `Tic` is the keys and the sprite's
state for one tic; `Touch` a pickup; `Die`, `Reborn`, `NextLevel` what resets it.
`Mobjs` keeps addresses, and does not give one out again while some pointer holds it,
so that a stale pointer shows. `Monsters` has one action per event of a tic:
`NextFrame` runs the frame a mobj comes to, with its action and all that the action
hurts; where things are, what they see and how the dice fall are choices.

## Runs

Constants are named as in the modules; one sweep stands for 50 ms. Each passing run
takes one to four minutes with two workers.

| run | instance | distinct states | asks |
|---|---|---|---|
| `server` | 2 seats, 2 clients, 3 tics, one-tic events; a lobby of 2 slots and a seat that is none, 3 peers (alike), 2 sessions | 287,650 | the launched game: types, events, the start; the lobby from session to session |
| `relay_dropin` | 1 seat, 1 free slot, 2 clients, 3 tics, a history of 1 | 339,577 | a drop-in's or spectator's whole life |
| `live` | as `relay_dropin`, 2 tics, a timer that fires for ever; a client on a wire without faults, ring 4, 6 tics | 61,912 | progress |
| `engine` | a heap of 5 units, 2 lumps; 3 thinkers; 10 maps of up to 3 movers; 5 kits; 6 sessions of bodies and items; 25 rooms of monsters | 443,621 | the playsim's data |
| `site` | a client on a faulty wire (ring 4, backlog 2, 6 tics); the sessions of `MCGame`; a tab with 2 connections and 2 boots; saves over 2 games with 1 fault; 4 demos | 409,181 | the browser and the demo store |
| `relay_stale_cmd` | 2 seats, a drop-in, window 2, margin 1 | violated | finding 1 |
| `relay_drop_return` | 1 seat, a drop-in, drop after 1 sweep | violated | finding 2 |
| `client_backlog` | backlog 2, chunk 2, 5 tics | violated | finding 3 |
| `launcher_leave` | 2 connections, 2 boots | violated | finding 4 |
| `persist_retry` | 2 versions, 2 games, 1 fault | violated | finding 5 |
| `bodies_spot`, `bodies_touch` | the sessions of `MCMobjs` | violated | findings 6, 7 |

### Properties

Relay:

* `StreamWhole`: an open socket that holds a slot or watches was sent every tic.
* `HolderHasToken`: a slot's socket is its token's, and that client's slot is this one.
* `NoGhost`: a slot of the game that was ever connected has a socket.
* `ScheduledAhead`: a scheduled drop-in has its socket, is not yet in the game, and
  enters within the margin ahead of the frontier.
* `EventsAreSent`: a repeated cmd has no one-tic event.
* `FabricationIsEarned` (action): a player already live is fabricated only if silent,
  or without a filled tic for the grace, or as it fills a later one in the same step.
* `NobodyLeftAtStart` (action): nothing is sealed before every seat is connected or
  given up, nothing fabricated before everyone has sent or the 10 s are over.
* `SealProgress`, `NobodyLingers`: each tic is sealed or the session ends; a
  reservation goes live or is given back; a session without sockets ends.

Lobby: `LobbySound`, its tables agree with the sockets and with what each reader was
told; `LaunchIsOne`, every launch frame says the same game (its params, its seats, a
slot each), those of a launch that fails included, and a countdown of somebody's is
ended or launched by its own ticks alone, a launch reaching every member who reads.
What it does not say, because the code does not do it, is that every countdown ends in a
launch for all: where a seat is no slot, it ends in frames for some (see below).

Client: `RanIsLog`, `NothingLost`, `CmdsAreFresh`, `IsReplica`, `Advances`. Launcher:
`TabIsOne`, one engine at most, no seat held behind a menu, no boot that takes another
down. Persist: `StoredOrTold`, `ReloadSeesSaves`. Demo store: `QuotaHolds`.

Game: `FlagsAreTrue` (a session's flags are those of what is played), `RouteReturns` (the
way back from a secret level), `SeekIsFresh` (a seek starts from the state of a fresh
demo), `IntermissionEnds`.

Playsim: `HeapSound` (what `Z_CheckHeap` looks for, after every pass of every loop),
`CacheIsTrue`, `LatestSurvives`; `Linked`, `EachRunsOnce`; `MoversAgree`, `ReloadKeeps`;
`WeaponsSound` (`WeaponHeld`, `AmmoHolds`, `SpareShoots`); `ObjectsSound`
(`PointersHold`: a body, a corpse, a target that is pointed to is there; `ItemOnce`: an
item is in one place); `DeadStayDown`, `TargetsChecked`, `BossesTrigger`; `NothingHangs`
(movers come to rest, a weapon change comes up, `Z_Malloc` ends).

Each has a mutant: a definition of the model changed the way a plausible bug would
change the code, under which TLC finds the property violated in the same run.

### Bounds, and why they are enough

* *Two slots.* The code treats slots alike and one at a time; the rules that compare
  a player with the others (`live.some`, `live.every`, silence against others) need
  one other. The theorems hold for any number.
* *Two or three clients.* A holder, and a rival while the holder's socket is closing.
* *MaxTic* 2 or 3 in the relay: at the bound no frame comes and no tic is sealed, while
  sweeps, closes and timeouts go on, so the end of a session is reached from every
  state. Two tics are enough for a burst plus live bundles, three for a seal of several
  tics around a drop-in's entry.
* *Thresholds* 1 to 4 sweeps, kept in the order of the code's (grace < drop < never
  joined < reservation) where the run can afford it, distinct where two of them race.
  `JoinMargin` 1 is the least that schedules ahead. `Window` 1 lets a player be one
  tic ahead; `relay_stale_cmd` needs 2, because the window must exceed the margin, as
  512 exceeds 12.
* *MaxHistory* 1: below, at and past the cap are all reached.
* *Gaps* {1}: sweeps on time; the theorems allow any.
* *Lobby*: three peers for two slots, so that one observes, or sits beside them; one
  number that is no slot, since all of them are alike; two sessions, so that one's
  leftovers meet the next; a countdown of 2 has a tick before its last. No definition
  tells one peer from another, and no property of the run is a liveness one, so the
  peers are a symmetry set.
* *Ring 4* is the least that gives a lead (`Ring \div 2 - 1`) of 1; six tics make the
  ring wrap. `Elapsed` {0, 1, 3} has a frame with no tic due, with one, and a freeze
  longer than `Stall`.
* *Two of a kind* in the tab and the store: two connections, boots, games, versions;
  what is stale belongs to the first and harms the second. One fault, since each
  property must hold through it alone; four demos, two that differ only in bytes, one
  larger than the quota.
* *Zone*: five units of a header's size hold a block that splits, one that merges with both neighbours,
  and the cap. *Thinkers*: three, so that a neighbour of a removed one has a neighbour.
* *Movers*: a line that starts movers needs as many free ids as there are sectors
  (`Room`), since the zone gives out memory as long as there is any; every other line
  and every tic goes on without.
* *Game*: the sessions are listed in `MCGame` with what each is for: the episodes, Doom II,
  a saver, one who saves and pauses, the title loop, net games, one of them with the
  level cheat, a viewer of replays, one who watches the title loop's demo of two players
  and starts a replay of one under it, and one who saves, and loads from under a replay of
  two players.
* *Movers, Arsenal, Mobjs, Monsters*: the maps, kits, sessions and rooms are listed in
  their MC modules with what each is for; together they fire every action.

Deadlock checking is off: a session that is over, a client that has lost its
connection, a heap that failed and a room where all are dead stop.

### Fairness, and why the code gives it

* `MCRelayBeat!Timer`: the sweep keeps being run between launch and `endSession`, as
  `setInterval` does. It asks for sweeps (a bit flips at each), never that a sweep
  changes anything. Nothing is assumed of clients: they may stay silent, send garbage
  or never connect, and that is the point of the properties.
* `MCLive`, of `Client`: the socket delivers what the relay sent (TCP), `catchUp`'s
  `setTimeout(0)` fires, and frames come with time passing between them
  (`requestAnimationFrame`, or the Worker clock of a hidden page). Nothing is assumed
  of the relay: `Advances` speaks of the tics it has sealed.
* `MCSite`: tics run, and somebody presses fire or use again and again, which is what
  an intermission waits for.
* `MCEngine`: the engine is one thread and a tic runs every player and every thinker, so
  `Z_Malloc`'s scan, a mover nothing stands in the way of, and the weapon sprite go on.

## Findings

1. `relay_stale_cmd`. A slot's buffered cmds outlive its player. The next player's
   early tics are sealed with them, as if it had sent them.
2. `relay_drop_return`. `joining` is never cleared when a drop-in goes live, so a
   dropped drop-in whose frame is still on the wire is scheduled and re-enters.
3. `client_backlog`. The backlog limit, meant for a frozen page, also cuts off a
   joiner whose history arrives faster than it is replayed.
4. `launcher_leave`. The close event of a lobby that was left is taken for the loss of
   the next one, and resets it.
5. `persist_retry`. A write of older bytes clears the dirty mark of newer ones; when
   their own write fails, nothing tries again.
6. `bodies_spot`. A player who drops in is spawned into another who stands at its start.
7. `bodies_touch`. The body a player left behind picks things up for the player at
   address 0.

Met on the way, and in the models as they are: SIGIL's episode has no case in the
secret-level route (`g_game.c:1181`), so its secret level leads to itself; a net game
saved after somebody left cannot be loaded (`p_saveg.c:425`); a load alone under
`-altdeath` puts an item back that still lies there (`ItemOnce` excepts it); the cube
spitter divides by its target's `momy` (`p_enemy.c:1951`). A tag with more sectors than
`MAXCEILINGS` may start more ceilings than `activeceilings` holds: those beyond go
unrecorded (`p_ceilng.c:251`), a load gives slots out again in the order of the list
(`p_saveg.c:650`), so a ceiling in stasis may lose its slot to one that had none; nothing
wakes it then, and the next save leaves it out (`p_saveg.c:512`). `MoversAgree` and
`ReloadKeeps` except it (`Crowded`, `SlotLost`). A replay of one player that starts, or is
sought, while a demo of two plays stays a net game: `begin_replay` sets `netgame` and never
clears it (`demo.c:118`), though each start is to put the engine "in the state a fresh
-playdemo would" (`demo.c:8`). `SeekIsFresh` excepts it (`NetLeft`).
A lobby member may sit on a number that is no slot (`game.js:230` asks for no whole
number, as line 205 does): the launch then throws at it (`game.js:331`), some members never
hear of it, and the session is never swept (`LaunchFails`). A game that is loaded from a
menu opened before a demo or a replay of two players began keeps the demo's `netgame` and
`netdemo` (`G_DoLoadGame` of `g_game.c` sets neither): the menus then refuse to load or to
end it (`FlagsAreTrue` excepts it by `under`).

## Proofs

The theorems hold for every value of the constants that the named assumptions of each
module allow; TLC evaluates those in the runs. No invariant below is inductive by
itself: each module says what must be added (`IInv`, or, where a module holds two
proofs, `ZoneInv` and `ListInv`, `FlowInv` and `TabInv`, `StoreInv`), proves that it holds at the
start, has one lemma per action for the step, and draws the theorems from it.

### Relay

For every set of slots and clients, every value of the thresholds and caps and every
number of tics (`SlotsAssumption`, `NumbersAssumption`):

| theorem | states |
|---|---|
| `Invariance`, `Typing` | `IInv`, `TypeOK` |
| `WholeStreams`, `TokensHold`, `NoGhosts`, `DropInsAhead`, `EventsOnce` | `StreamWhole`, `HolderHasToken`, `NoGhost`, `ScheduledAhead`, `EventsAreSent` |
| `HeardBeforeJudged` | a slot that is scheduled or judged silent has sent a frame |
| `FabricationEarned`, `StartLeavesNobody` | the action properties `FabricationIsEarned`, `NobodyLeftAtStart` |

`IInv` adds what these need of one another:

* `SlotInv`, per slot: a socket comes with its token and counts as joined, a seat that
  has not joined means no tic was sealed (so it has missed nothing, which is what lets
  `BindSeat` send it no history), and the cmd kept for repetition has no event.
* `Bindings`: a client that holds a slot names that slot and has used its one socket.
  Without it two slots could share a client, and `Close` would release the wrong one.
* `Newcomers`: a client without a socket was sent nothing, so that a bind starts its
  stream at tic 0.
* `SeatsAwaitLaunch`: no seat has a token or a socket before the launch, so that
  `Launch` may give out tokens without taking one from a bound socket.

Those that seal go through `SealInv` and `SweepSealOK`: `AfterSealOK` moves a slot's
invariant from frontier `t0` to `k`, `BundlesOK` types what was broadcast, `SendToOK`
extends every stream from `t0` to `k`. A release of a slot goes through `ReleaseInv`:
fewer sockets hold slots, so every stream still owed is still whole (`StreamOfFewer`).

The action properties are about the step that seals. `SweepShape` cuts a sweep into the
slots it touches once, less or more often, and says what it seals and what it forces;
`FramePlan` and `QuietPlan` do the same for the others. `MaskIsLive` says who is in a
bundle; then a fabricated cmd is either one the seal repeats for a slot that was judged
(`SealFabricates`), or one the sweep forced after the grace (`SweepEarns`). That nobody
is fabricated who never sent needs `HeardFirst`: silence is judged, and a drop-in
scheduled, only after a frame. The frame that schedules a drop-in may also trigger the
seal that promotes it, which is why `NobodyLeftAtStart` asks for `sentAny` after the step.

### Lobby

For every set of slots, of seats that are no slots, of peers and params, every cap, every
length of the countdown and any number of sessions (`LobbyAssumption`): `LobbyStaysSound`
(`LobbySound`) and `LaunchStaysOne` (`LaunchIsOne`). `IInv` is `LobbySound` with
`SessionTrue` (the session that stands is the last one started, shows the lobby's params
and, while it counts down, has every member on one of its seats and plays those that are
slots), `NotYet` (while it counts down no slot that plays has a token or a socket, and no
sweep is due; a session still to come has nothing) and `Counters`. A session whose launch
failed is neither counting down nor launched, which is why both speak of `ticks` and not of
`launched`. `LaunchIsOne` follows step by step: what the last tick sends, to all or to
some, is read from one state (`FramesAgree`); and a countdown of somebody's is touched only
by its own steps: nobody who plays can be bound or lose a socket before the launch, and as
long as nobody is, nothing is sealed and no drop-in goes live.

### Client

For every ring of four places or more, every backlog, chunk and delay, every number of
tics, and a wire that repeats or skips (`ClientAssumption`):

| theorem | states |
|---|---|
| `Invariance` | `Spec => []IInv` |
| `RunIsTheLog` | `RanIsLog` |
| `NothingIsLost` | `NothingLost` |
| `Refinement` | `Spec => IsReplica`: a client is a replica of one growing log |
| `CmdsStayFresh` | the action property `CmdsAreFresh` |
| `Typing` | `TypeOK` |

`RanIsLog` says nothing of what will be run, so `IInv` says where every bundle of the
log is: the first `gametic` are what was run (`Prefix`), those up to `nettic` stand in
the ring at their place (`Written`), those up to `next` wait in the queue in order
(`Follows`), and the rest have not arrived; and the frontier is at most `Ring` ahead of
the simulation, and at it until the client is live.

`OfferOK` moves the cut between queue and ring. It rests on `TakenIs` (the engine takes
a prefix of the queue, no longer than the room in the ring) and `PutWrites` (what is
put overwrites no tic still to be run), and that on `ModDistinct`: tics less than `Ring`
apart have different places. `TurnOK` needs no such room, since a catch-up runs each
bundle before it puts the next; the proof holds for a chunk longer than the ring, as
512 is longer than 35. `RunPrefix` extends what was run, `CountsBounds` keeps a
frame behind the frontier. `NextOK` also says that each step either appends to the log
or runs on, and `Refinement` turns that into `TicLog`'s steps.

A frame's clock is a recursive function, the mark `maketic` stands at after each tic of
the frame. What it computes needs no induction theorem: `MarksExist` and `MarksRise` take
the least index at which there would be no mark, or a mark that falls, and contradict it
(`LeastNat`). `BuiltBounds` says what one `NetUpdate` builds, and `Clocked`, that no cmd is
built before a client is live, that the end of a catch-up does not turn the clock back.

### Persist

For any number of games, versions, waiting jobs and faults (`PersistAssumption`):
`SavesReachTheStore` (`StoredOrTold`) and `NextGameReadsTheLast` (`ReloadSeesSaves`). What is
stored now says little; what counts is what will be. `Arrives` says of a file that each
job that would store something else has behind it, in the queue it waits in, the
write-through of the newest bytes. It holds of the running game's files as long as no
load failed (`OwnArrive`) and of every game's as long as nothing did (`AllArrive`), and
both rest on the order of the queues: a load asked for its connection after the last
game's flush did (`LoadOpens`, `LoadFirst`, `LoadLast`). `StoredOrTold`'s exception (a load
that failed) is where this order breaks.

### DemoStore

For every set of demos, their sizes, the caps, the quota and the time to live
(`DemoAssumption`, what `envInt` lets through): `StoreTyped` (`DemoTypeOK`) and `QuotaIsHeld`
(`QuotaHolds`). Expiry and eviction look at the front of the Map and stop there, so the
invariant, `Kept`, is about its order: no id twice (`Keyed`), records by expiry (`Ordered`),
none that outlives an upload made now (`Timely`), and the counter the sum of the costs. What
a removal does to that sum is `CostWithout`, a removal from the front `CostOfRest`; the sum
is a recursive function, whose values are found by `NaturalsOf` (a set of naturals with 0
that holds the successor of each of its members is all of them, which follows from the
library's theorem about the least element of a set). A refreshed record goes to the back,
which is where its new expiry belongs; `Refresh_InPlace` leaves it and breaks `Ordered`.

### Zone

For every heap size, least fragment, set of lumps and request (`ZoneAssumption`):
`ZoneTypes`, `HeapStaysSound` (`HeapSound`), `CacheStaysTrue` (`CacheIsTrue`), `LatestIsKept`
(the action property `LatestSurvives`). `Heap(Ring, Users)` is the ring of blocks as
order and adjacency of addresses: no path is followed, so no induction is needed. `ZoneInv`
adds that the rover is a block, that the last block returned is in use, and, while a scan
runs, that its base and its start are blocks and what it wants is a request. `MergeSound`,
`SplitSound`, `FillSound` and `ReleaseKeeps` are the four ways a ring changes.

### Thinkers

For any set of blocks (`ThinkersAssumption`): `ListTypes`, `ListIsLinked` (`Linked`),
`TicRunsEach` (`EachRunsOnce`). `OneRing` says that no proper part of the ring is closed
under `tnext`; it stands for reachability, and a splice keeps it. `Walked` says that
what a walk has passed is closed backwards from where it stands, which is what makes a
thinker that is freed or spawned in mid-walk neither missed nor run twice.

### Movers

For every set of maps, any number of movers and any size of the two tables
(`MoversAssumption`: a map's lines are of the types the code has, a staircase comes by no
sector twice and by no tagged one, a donut is one hole and one ring, and no door's own line
faces a sector tagged for a ceiling): `MoversTypes` (`MoversTypeOK`), `MoversStayAgreed`
(`MoversAgree`) and `MoversComeBack` (the action property `ReloadKeeps`).

One line may start a mover in every sector of a tag, or build a staircase, and a load
starts every saved mover again: each is a loop, a fold in the model. The provers know
nothing of folds but their definition, by `CHOOSE`, so `FoldExists` first shows that there
is such a function, when the loop's body keeps within a set of values, and `FoldSteps`
gives it a trace: a function from the number of passes to the value after so many. Both
take the least number for which it would fail (`LeastNat`), so that no induction theorem is
needed. `EachTraced` and `TaggedTraced` are the traces of the movers of a list and of the
sectors of a tag; what the lemmas about loops say is then shown pass by pass.

`Good` is the invariant of one state. `Listed`: the list of thinkers names each mover
once, and no other. `Points`, `Owned`: a sector's `specialdata` is a mover of that
sector, and a mover's sector points back, but for those where the code starts a mover
without looking (`Overwritten`). `PlatsTrue`, `CeilingsTrue`: the tables hold the
platforms and the ceilings there are. `Wakes`: what is in stasis is in its table and
remembers a direction. A platform that finds its table full ends the game, a ceiling goes
unrecorded; so `CeilingFits` shows that there is a slot: ceilings have tagged sectors
of their own, and there are no more of these than slots, unless the map is `Crowded`.

The step has a lemma for lines (`UseGood`), one for a tic (a thinker changes itself and
its sector's heights, `Tuned`, or finishes, `RemoveGood`) and one for a load
(`EachBack`). For `ReloadKeeps`, `EachPlaced` follows the movers: the one at place `i` of
the saved list stands at `Place(i)` of the loaded one.

### Arsenal

For every kit, ammo limit, clip size and cost of a BFG shot (`ArsenalAssumption`: the
player has fist and pistol, ammo is within its limits, no plasma rifle or BFG is to be
found in shareware): `TypeCorrect` and `WeaponsStaySound` (`WeaponsSound`). `Held` says the
weapons ready, pending and shown are owned; `Drawn` that from the first state of an
attack to its shot the ammo that was checked is still there, whatever is picked up in
between, and that in shareware a rare weapon got by the cheat comes with cells.

### Mobjs

For every number of players, any sessions, maps and rooms, and any length of the two rings
and of the list of spots (`MobjsAssumption`: a map has a start, and there are addresses for
what a level, or a room, holds besides what the list of spots still names): `ObjectsTyped`
(`MobjsTypeOK`), `NoneDangles` (`PointersHold`), `NoneTwice` (`ItemOnce`) and
`ObjectsStaySound` (`ObjectsSound`, both).

Between two steps a world is `Sound`: `Owned` (a player's `mo` and that body's `player` lead
to each other, and whoever plays and does not wait to be reborn has one), `Buried` (the ring
of corpses names each once, and only bodies that are nobody's), `Aimed` (an awake shooter's
list is of spots that are there, a cube's target too), `Stocked` (items and their queue).
None is inductive alone: a corpse is freed when the ring is full, which would take a
player's body with it but for `Owned`, and a mobj spawned at an address that is still
pointed to would do the same, which is why `NewAddress` needs room (`RoomGives`, `BareHasRoom`).

A step is long: a drop-in may look at every start, pick up an item at each, bury its old
body at the one that is free, be spawned there or be told to step aside. On the way some
players, `X`, have no body that is theirs. `Underway(v, X, new, o)` says what holds of a world
`v` then, `o` being the world the step began in and `new` a level being set up, and each
function keeps it or takes a player from `X`: `TouchKept`, `BuryKept`, `CheckSpotKept`,
`SpawnKept`, `AsideKept`, `DeathMatchKept`, `TurnKept`, until `UnderwayEnds` with `X` empty.
The loops over the starts and over the players are recursive functions; `TryStartsSteps`,
`MissSteps` and `TurnSteps` say that they exist and what one pass does, `TryStartsKept`,
`MissKept` and `InTurnKept` follow them by `NaturalsOf`.

A save is read back at other addresses. `Fits` says of the file what a load relies on (no
target, one body a player, a spot if the shooter is awake or the map has any); a save makes
such a file (`ArchiveFits`), and `ReadIs` and `LoadKept` take it back to a `Sound` world, or
to one that ends in an I_Error, of which only the types are claimed.

### Launcher

For any sets of connections and games and any number of pings (`LauncherAssumption`):
`TabTyped` (`LauncherTypeOK`) and `TabStaysOne` (`TabIsOne`). `OneSession` and `NoSeatUnseen`
are not inductive. `Known` adds that the tab's active game is one whose engine may run, and
that there is one exactly while `booted` says so; `Ended`, that what was ended had been
entered and was past its load, so that a boot that fails while another runs is one that was
ended before, whose failure resets nothing. Every way back to the launcher (`endSession`,
a failed boot, a lost lobby) is one step, `TakesOver`, and one lemma (`TakenOver`).

### Game

For any sessions, slots and lengths of texts and pages (`GameAssumption`: the flags of a
session and of a header are Booleans, its players are slots, its levels have numbers, and
the title loop goes round at least one page or demo; `MapsAssumption`, for `RoutesReturn`
alone: where the maps' secret exits are): `GameTyped` (`GameTypeOK`), `FlagsStayTrue`
(`FlagsAreTrue`) and, of the action properties, `SeeksStayFresh` (`SeekIsFresh`) and
`RoutesReturn` (`RouteReturns`).

`Good` is the invariant of one state, and each of the calls a tic is made of has a lemma
that it leads from one such state to another: `ActGood` gathers those of `gameaction`,
`BegunGood` a tic up to its cmds, `TicGood` the tic. Beyond the types it says:

* `Flagged`: `netdemo` is set only over a net game, while a demo plays or after a game was
  loaded from under one (`under`); a net game was started as one or has `netdemo`; a user's
  game is no demo.
* `Asked`: a load that is asked for has a save to load, in a session that loads; the menus
  do not give more, since the game may have changed under them. A demo that is asked for
  is there.
* `Paced`: as long as neither a load nor `-fast` was asked for, the tables are as often
  shifted as the skill says, those a replay goes back to included.
* `Rewinds`: a replay's first start is `Started` of its header and of the tables it goes back
  to, which never change again. So a seek, which starts from the same header and the same
  tables, differs from it at most in `netgame`.

`RoutesReturn` needs more, `Route`: an intermission's next level is `NextMap` of the level and
the exit it was left by, and nobody in it waits to be reborn. The first must outlast every
request and every cmd that runs under an intermission. The second is why the level is not
loaded again in place of the next: a player who presses use in the tic the level is left is
reborn before `G_DoCompleted` is looked at, and a drop-in in the tic it joins.

The provers compare long records badly, so most lemmas say which fields a call sets and
that the others are as they were (`Differs`).

### Only model-checked

* Liveness under fairness and `ENABLED`: `SealProgress`, `NobodyLingers`, `Advances`,
  `IntermissionEnds`, `NothingHangs`.
* `Monsters` (`DeadStayDown`, `TargetsChecked`, `BossesTrigger`): a frame's action hurts, what
  is hurt runs a frame of its own, and so on, in operators that are RECURSIVE and call each
  other, which keeps the provers out of the module.
* `TypesOK` in `MCEngine` and `MCSite` gathers the type invariants of the parts;
  those of all but `Monsters` are proved in their modules.

## Abstractions

* The contents of a cmd are its sender and whether it carries a one-tic event.
* The countdown's three seconds add no age in `Relay` except that a bind before the
  launch is not "heard since the last sweep"; a session that ends during the countdown
  is included, since its last player can only leave by a game socket's close.
* `Relay`'s sessions are launched whole; of one whose launch failed there is what `Lobby`
  has: it is never swept, so nobody in it is dropped or timed out.
* `Lobby` does not keep the Map's order: where a launch fails, any of the members on slots
  may have been before the seat it fails at.
* `SEND_BACKLOG_CAP` and the rate cap are not counted: a socket may be refused at any
  moment. A burst refused part-way leaves the slot as the code's hand-made release does.
* The history slabs are the set of the tics retained; their offsets are not modelled.
* A frame for tic `t` beyond `MaxTic` is not sent.
* `Client`'s `Misorder` has no wrong first bundle: `accept` knows no order before it
  (`net.js:150`), so the log is the relay's from a first tic that is taken on trust.
* In `Game`, an open menu does not stop a level of one's own (`P_Ticker` of `p_tick.c`):
  more may happen under it than does. A prompt's answer and a menu's pick are one.
* In `Client`, the roster that `lowtic` ranges over is left out (the relay writes all
  `nettics` alike), the in-loop `NetUpdate`s of `TryRunTics` see at most one tic pass,
  and cmds are not stored: which tics they are built for is what matters.
* In `Movers`, types that differ in speed, sound or texture are one, and a plane moves a
  step of height a tic; a field the code leaves uninitialised takes any value of
  `Garbage`. The one exception is the `type` of the floors `EV_BuildStairs` raises, which
  is `step` and does nothing: the code never sets it. Where the heap happened to hold
  `donutRaise`, the step would take a garbage flat and special as it is done
  (`p_floor.c:228`); with that or `lowerAndChange`, a load may refuse the save
  (`p_saveg.c:674`).
* In `Mobjs`, a map has one start for each player: voodoo dolls, the further bodies that
  `P_SpawnMapThing` gives a player for duplicate starts, are outside it.
* In `Monsters`, distance, sight, dice and counts of tics are choices, and what is read
  in a freed mobj is too. `P_RadiusAttack` hits who is in reach in one fixed order, and
  what the blast itself spawns is not hit by it. Positions, moves over special lines, teleports and sound
  targets are left out. A crushed boss or keen never runs `A_BossDeath` or `A_KeenDie`,
  as in the code: `unwitnessed` remembers it, and `BossesTrigger` excepts it. A skull
  that slams because a corpse is raised inside its own frame needs three mobjs
  (`Level(<<"MT_SKULL", "MT_VILE", "MT_SHADOWS">>, 3)`, a million states), which the
  kept run leaves out.

## Not modelled, and the plan

Left out for good: the service worker and the WAD caches (each operation is one call
of the Cache API), file serving, music and sound samples, movement, collision and sight
(arithmetic on level data), the renderer and menus' drawing, the bare-metal ports and the
test tools.

Next, in this order: a `Monsters` whose frames nest to a stated depth, or whose hits wait
in a list, so that `DeadStayDown` and `TargetsChecked` can be proved; several `Client`s over
`Relay`'s sockets as one `TicLog`.
