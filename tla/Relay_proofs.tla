----------------------------- MODULE Relay_proofs -----------------------------
(***************************************************************************)
(* Proofs about Relay, for every number of slots, clients and tics and     *)
(* every value of the thresholds: IInv is inductive, so the types, the     *)
(* binding of sockets to slots, the schedule of drop-ins and the stream of *)
(* bundles each socket was sent are right in every reachable state.        *)
(***************************************************************************)
EXTENDS Relay, WellFoundedInduction, TLAPS

\* A set of naturals that is not empty has a least element.
LEMMA LeastNat ==
  ASSUME NEW T \in SUBSET Nat, T # {}
  PROVE  \E m \in T : \A n \in T : m <= n
<1> DEFINE R == {ss \in Nat \X Nat : ss[1] < ss[2]}
<1>1. IsWellFoundedOn(R, Nat)
  BY NatLessThanWellFounded, Zenon DEF OpToRel
<1>2. PICK m \in T : \A n \in T : ~ (<<n, m>> \in R)
  <2> HIDE DEF R
  <2> QED  BY <1>1, WFMin
<1>3. ASSUME NEW n \in T, n < m  PROVE FALSE
  <2>1. <<n, m>> \in Nat \X Nat /\ <<n, m>>[1] < <<n, m>>[2]  BY <1>3
  <2>2. <<n, m>> \in R  BY <2>1, Zenon
  <2> QED  BY <1>2, <1>3, <2>2
<1>4. \A n \in T : n \in Nat /\ m \in Nat  OBVIOUS
<1> QED  BY <1>3, <1>4

\* Max is what its name says on a set of naturals below a bound.
LEMMA MaxIsGreatest ==
  ASSUME NEW N \in Int, NEW S \in SUBSET (0 .. N), S # {}
  PROVE  Max(S) \in S /\ \A x \in S : Max(S) >= x
<1> DEFINE T == {n \in Nat : \A x \in S : x <= n}
<1>1. T \in SUBSET Nat /\ N \in T
  <2>1. PICK x \in S : TRUE  OBVIOUS
  <2>2. x \in 0 .. N  BY <2>1
  <2>3. N \in Nat  BY <2>2
  <2> QED  BY <2>3
<1>2. PICK m \in T : \A n \in T : m <= n
  <2> HIDE DEF T
  <2> QED  BY <1>1, LeastNat
<1>3. m \in S
  <2>1. SUFFICES ASSUME m \notin S PROVE FALSE  OBVIOUS
  <2>2. PICK x \in S : TRUE  OBVIOUS
  <2>3. m \in Nat /\ \A y \in S : y \in Nat /\ y <= m /\ y # m  BY <1>2, <2>1
  <2>4. m > 0  BY <2>2, <2>3
  <2>5. m - 1 \in Nat /\ \A y \in S : y <= m - 1  BY <2>3, <2>4
  <2>6. m - 1 \in T  BY <2>5
  <2> QED  BY <1>2, <2>3, <2>6
<1>4. \E x \in S : \A y \in S : x >= y  BY <1>2, <1>3
<1> QED  BY <1>4 DEF Max

-----------------------------------------------------------------------------
(* What one slot's record goes through.                                    *)

SlotsOK(pl, t) ==
  /\ pl = [s \in Slots |-> pl[s]]
  /\ \A s \in Slots : IsPlayer(pl[s]) /\ SlotInv(pl[s], t)

\* Sockets are only ever taken from slots, never given.
OnlyReleased(pl, ql) ==
  \A s \in Slots : ql[s].ws # NoClient => ql[s].ws = pl[s].ws

\* The fields of a slot's record, one by one.
LEMMA PlayerFields ==
  ASSUME NEW p, IsPlayer(p)
  PROVE  /\ p \in Player(p.cmds) /\ IsMap(p.cmds, Tics, Cmd)
         /\ p.ws \in Clients \cup {NoClient} /\ p.token \in Clients \cup {NoClient}
         /\ p.joined \in BOOLEAN /\ p.ingame \in BOOLEAN /\ p.joining \in BOOLEAN
         /\ p.reservedAge \in Nat \cup {NotHeld} /\ p.joinAt \in Nat
         /\ p.seenAge \in Nat /\ p.heardAge \in Nat /\ p.quiet \in Nat
         /\ p.silent \in BOOLEAN /\ p.sentAny \in BOOLEAN /\ p.last \in Cmd
BY DEF IsPlayer, Player

\* A repeated cmd is a cmd, and carries no one-tic event.
LEMMA LastCmdOK ==
  ASSUME NEW p, IsPlayer(p), ~ p.last.ev, NEW t0 \in Int, NEW t \in Int
  PROVE  LastCmd(p, t0, t) \in Cmd /\ ~ LastCmd(p, t0, t).ev
<1> DEFINE own == Own(p, t0, t)
<1>1. CASE own = {}
  BY <1>1, PlayerFields DEF LastCmd
<1>2. CASE own # {}
  <2>1. MaxTic - 1 \in Int /\ own \in SUBSET (0 .. MaxTic - 1)
    BY NumbersAssumption DEF IsPlayer, IsMap, Own, Tics
  <2>2. Max(own) \in own
    <3> HIDE DEF own
    <3> QED  BY <1>2, <2>1, MaxIsGreatest
  <2>3. p.cmds[Max(own)] \in Cmd
    BY <2>2 DEF IsPlayer, IsMap, Own
  <2>4. LastCmd(p, t0, t) = Strip(p.cmds[Max(own)])
    BY <1>2 DEF LastCmd
  <2> QED  BY <2>3, <2>4 DEF Strip, Cmd
<1> QED  BY <1>1, <1>2

\* A map cut down to fewer entries is still a map.
LEMMA MapRestricted ==
  ASSUME NEW f, NEW T, NEW V, IsMap(f, T, V), NEW D, D \subseteq DOMAIN f
  PROVE  IsMap([t \in D |-> f[t]], T, V)
BY DEF IsMap

\* Sealing tics t0..k-1 keeps a slot's record right, now at frontier k: a
\* drop-in due is live with its socket, one not yet due stays ahead.
LEMMA AfterSealOK ==
  ASSUME NEW pl, NEW t0 \in Nat, NEW k \in Nat, t0 <= k,
         SlotsOK(pl, t0), k = t0 \/ AllJoined(pl)
  PROVE  /\ SlotsOK(AfterSeal(pl, t0, k), k)
         /\ AllJoined(pl) => AllJoined(AfterSeal(pl, t0, k))
         /\ \A s \in Slots :
              /\ AfterSeal(pl, t0, k)[s].ws = pl[s].ws
              /\ AfterSeal(pl, t0, k)[s].token = pl[s].token
              /\ pl[s].ingame => AfterSeal(pl, t0, k)[s].ingame
<1> DEFINE ql == AfterSeal(pl, t0, k)
<1>1. ASSUME NEW s \in Slots
      PROVE  /\ ql[s] = [pl[s] EXCEPT
                  !.ingame  = @ \/ Due(pl[s], k),
                  !.joinAt  = IF Due(pl[s], k) THEN NotScheduled ELSE @,
                  !.seenAge = IF Own(pl[s], t0, k - 1) # {} THEN 0 ELSE @,
                  !.last    = LastCmd(pl[s], t0, k - 1),
                  !.cmds    = [t \in DOMAIN @ \ (t0 .. k - 1) |-> @[t]]]
             /\ IsPlayer(pl[s]) /\ SlotInv(pl[s], t0)
             /\ LastCmd(pl[s], t0, k - 1) \in Cmd /\ ~ LastCmd(pl[s], t0, k - 1).ev
  <2>1. IsPlayer(pl[s]) /\ SlotInv(pl[s], t0)  BY DEF SlotsOK
  <2>2. LastCmd(pl[s], t0, k - 1) \in Cmd /\ ~ LastCmd(pl[s], t0, k - 1).ev
    BY <2>1, LastCmdOK DEF SlotInv
  <2> QED  BY <2>1, <2>2 DEF AfterSeal
<1>2. ASSUME NEW s \in Slots
      PROVE  /\ ql[s].ws = pl[s].ws /\ ql[s].token = pl[s].token
             /\ ql[s].joined = pl[s].joined /\ ql[s].joining = pl[s].joining
             /\ ql[s].ingame = (pl[s].ingame \/ Due(pl[s], k))
             /\ ql[s].joinAt = IF Due(pl[s], k) THEN NotScheduled ELSE pl[s].joinAt
             /\ ql[s].last = LastCmd(pl[s], t0, k - 1)
             /\ IsPlayer(ql[s])
  <2> HIDE DEF ql
  <2>1. pl[s] \in Player(pl[s].cmds) /\ IsMap(pl[s].cmds, Tics, Cmd)
    BY <1>1 DEF IsPlayer
  <2>2. /\ ql[s].ws = pl[s].ws /\ ql[s].token = pl[s].token
        /\ ql[s].joined = pl[s].joined /\ ql[s].joining = pl[s].joining
        /\ ql[s].ingame = (pl[s].ingame \/ Due(pl[s], k))
        /\ ql[s].joinAt = IF Due(pl[s], k) THEN NotScheduled ELSE pl[s].joinAt
        /\ ql[s].last = LastCmd(pl[s], t0, k - 1)
        /\ ql[s].cmds = [t \in DOMAIN pl[s].cmds \ (t0 .. k - 1) |-> pl[s].cmds[t]]
    BY <1>1, <2>1 DEF Player
  <2>3. IsMap(ql[s].cmds, Tics, Cmd)
    BY <2>1, <2>2, MapRestricted
  <2>4. ql[s] \in Player(ql[s].cmds)
    <3>1. (pl[s].ingame \/ Due(pl[s], k)) \in BOOLEAN
      BY <2>1 DEF Due, Player
    <3>2. (IF Due(pl[s], k) THEN NotScheduled ELSE pl[s].joinAt) \in Nat
      BY <2>1 DEF Player, NotScheduled
    <3>3. (IF Own(pl[s], t0, k - 1) # {} THEN 0 ELSE pl[s].seenAge) \in Nat
      BY <2>1 DEF Player
    <3> DEFINE g == pl[s].ingame \/ Due(pl[s], k)
               a == IF Due(pl[s], k) THEN NotScheduled ELSE pl[s].joinAt
               v == IF Own(pl[s], t0, k - 1) # {} THEN 0 ELSE pl[s].seenAge
               m == [t \in DOMAIN pl[s].cmds \ (t0 .. k - 1) |-> pl[s].cmds[t]]
               l == LastCmd(pl[s], t0, k - 1)
    <3>4. ql[s] = [pl[s] EXCEPT !.ingame = g, !.joinAt = a, !.seenAge = v,
                                !.last = l, !.cmds = m]
      BY <1>1, <2>1 DEF Player
    <3>5. l \in Cmd  BY <1>1
    <3> HIDE DEF g, a, v, m, l
    <3> QED  BY <2>1, <3>1, <3>2, <3>3, <3>4, <3>5 DEF Player, g, a, v
  <2> QED  BY <2>2, <2>3, <2>4 DEF IsPlayer
<1>3. ASSUME NEW s \in Slots  PROVE SlotInv(ql[s], k)
  <2> HIDE DEF ql
  <2>1. Due(pl[s], k) => pl[s].ws # NoClient /\ pl[s].joined
    BY <1>1 DEF Due, SlotInv
  <2>2. pl[s].joinAt \in Nat /\ pl[s].ingame \in BOOLEAN  BY <1>1, PlayerFields
  <2>3. k = t0 \/ (pl[s].ingame => pl[s].joined)
    BY DEF AllJoined, Live
  <2>4. CASE Due(pl[s], k)
    BY <1>1, <1>2, <2>1, <2>2, <2>4 DEF SlotInv
  <2>5. CASE ~ Due(pl[s], k)
    <3>1. ql[s].joinAt = pl[s].joinAt /\ ql[s].ingame = pl[s].ingame
      BY <1>2, <2>2, <2>5
    <3>2. pl[s].joinAt # NotScheduled => k <= pl[s].joinAt /\ pl[s].joinAt <= k + JoinMargin
      <4>1. JoinMargin \in Nat  BY NumbersAssumption
      <4>2. SlotInv(pl[s], t0)  BY <1>1
      <4> QED  BY <2>2, <2>5, <4>1, <4>2 DEF Due, SlotInv
    <3> QED  BY <1>1, <1>2, <2>3, <3>1, <3>2 DEF SlotInv
  <2> QED  BY <2>4, <2>5
<1>4. ql = [s \in Slots |-> ql[s]]  BY DEF AfterSeal
<1>5. AllJoined(pl) => AllJoined(ql)
  <2>1. ASSUME NEW s \in Slots, AllJoined(pl), ql[s].ingame  PROVE ql[s].joined
    BY <1>1, <1>2, <2>1 DEF AllJoined, Live, Due, SlotInv
  <2> QED  BY <2>1 DEF AllJoined, Live
<1> QED  BY <1>2, <1>3, <1>4, <1>5 DEF SlotsOK

\* A sealed bundle has its shape, and what the relay supplied is no event.
LEMMA BundleOK ==
  ASSUME NEW pl, NEW t0 \in Int, NEW t \in Int,
         \A s \in Slots : IsPlayer(pl[s]) /\ ~ pl[s].last.ev
  PROVE  /\ Bundle(pl, t0, t) \in BundleType
         /\ \A s \in Bundle(pl, t0, t).fab : ~ Bundle(pl, t0, t).cmd[s].ev
<1> DEFINE C(s) == LET p == pl[s] IN
                   IF t \in DOMAIN p.cmds THEN p.cmds[t] ELSE LastCmd(p, t0, t)
<1>1. ASSUME NEW s \in Slots  PROVE C(s) \in Cmd
  BY LastCmdOK DEF IsPlayer, IsMap
<1>2. ASSUME NEW s \in Slots, s \notin Sent(pl, t)  PROVE ~ C(s).ev
  BY <1>2, LastCmdOK DEF Sent
<1>3. Bundle(pl, t0, t) = [mask |-> LiveAt(pl, t + 1), fab |-> Slots \ Sent(pl, t),
                           cmd |-> [s \in Slots |-> C(s)]]
  BY DEF Bundle
<1> HIDE DEF C
<1> QED  BY <1>1, <1>2, <1>3 DEF BundleType, LiveAt

\* What a step may have broadcast.
CastOK(f) ==
  /\ IsMap(f, Tics, BundleType)
  /\ \A t \in DOMAIN f : \A s \in f[t].fab : ~ f[t].cmd[s].ev

\* Every bundle of a run of seals is well formed and repeats no event.
LEMMA BundlesOK ==
  ASSUME NEW pl, NEW t0 \in Nat, NEW k \in 0 .. MaxTic,
         \A s \in Slots : IsPlayer(pl[s]) /\ ~ pl[s].last.ev
  PROVE  CastOK(Sealed(pl, t0, k))
<1>1. DOMAIN Sealed(pl, t0, k) = t0 .. k - 1
      /\ \A t \in t0 .. k - 1 : Sealed(pl, t0, k)[t] = Bundle(pl, t0, t)
  BY DEF Sealed
<1>2. \A t \in t0 .. k - 1 : t \in Int /\ t \in Tics
  BY NumbersAssumption DEF Tics
<1>3. \A t \in t0 .. k - 1 :
        /\ Bundle(pl, t0, t) \in BundleType
        /\ \A s \in Bundle(pl, t0, t).fab : ~ Bundle(pl, t0, t).cmd[s].ev
  BY <1>2, BundleOK
<1>4. IsMap(Sealed(pl, t0, k), Tics, BundleType)
  BY <1>1, <1>2, <1>3 DEF IsMap, Sealed
<1> QED  BY <1>1, <1>3, <1>4 DEF CastOK

\* A step that seals nothing broadcasts nothing wrong.
LEMMA NothingOK == CastOK(Nothing)
BY DEF CastOK, Nothing, IsMap

\* Every socket bundles go to has been sent the tics before t.
StreamUpTo(pl, cl, snt, t) ==
  \A c \in Clients : Receives(pl, cl, c) => snt[c] = 0 .. t - 1

\* Sending the tics t0..k-1 to every open socket that reads leaves each of
\* them with all the tics before k, if it had all those before t0.
LEMMA SendToOK ==
  ASSUME NEW pl, NEW cl, NEW snt \in [Clients -> SUBSET Tics],
         NEW t0 \in Nat, NEW k \in 0 .. MaxTic, t0 <= k,
         StreamUpTo(pl, cl, snt, t0)
  PROVE  /\ SendTo(pl, cl, snt, t0, k) \in [Clients -> SUBSET Tics]
         /\ StreamUpTo(pl, cl, SendTo(pl, cl, snt, t0, k), k)
         /\ \A c \in Clients : cl[c].sock # "open" => SendTo(pl, cl, snt, t0, k)[c] = snt[c]
<1>1. MaxTic \in Nat /\ t0 .. k - 1 \subseteq Tics
  BY NumbersAssumption DEF Tics
<1>2. \A c \in Clients : SendTo(pl, cl, snt, t0, k)[c] =
        IF Receives(pl, cl, c) THEN snt[c] \cup (t0 .. k - 1) ELSE snt[c]
  BY DEF SendTo
<1>3. (0 .. t0 - 1) \cup (t0 .. k - 1) = 0 .. k - 1
  OBVIOUS
<1>4. StreamUpTo(pl, cl, SendTo(pl, cl, snt, t0, k), k)
  BY <1>2, <1>3 DEF StreamUpTo
<1>5. SendTo(pl, cl, snt, t0, k) \in [Clients -> SUBSET Tics]
  BY <1>1, <1>2 DEF SendTo
<1> QED  BY <1>2, <1>4, <1>5 DEF Receives

-----------------------------------------------------------------------------
(* The helpers on one slot's record keep it right.                         *)

RightSlot(p, t) == IsPlayer(p) /\ SlotInv(p, t)

\* A bind by the slot's token holder; a slot out of the game may then be marked
\* as joining, or be unbound again by a refusal.
LEMMA BoundOK ==
  ASSUME NEW p, NEW t \in Nat, RightSlot(p, t), NEW c \in Clients,
         p.ws = NoClient, p.token = c
  PROVE  /\ RightSlot(Bound(p, c), t)
         /\ Bound(p, c).ws = c /\ Bound(p, c).ingame = p.ingame
<1>1. p \in Player(p.cmds) /\ IsMap(p.cmds, Tics, Cmd)  BY PlayerFields DEF RightSlot
<1>2. Bound(p, c) \in Player(p.cmds) /\ Bound(p, c).cmds = p.cmds
  BY <1>1 DEF Bound, Player
<1>3. SlotInv(Bound(p, c), t)
  BY <1>1, SlotsAssumption DEF Bound, Player, SlotInv, RightSlot
<1> QED  BY <1>1, <1>2, <1>3 DEF IsPlayer, RightSlot, Bound, Player

\* A bound slot may be marked as joining, whenever its hold began.
LEMMA JoiningOK ==
  ASSUME NEW p, NEW t \in Nat, RightSlot(p, t), NEW a \in Nat \cup {NotHeld}
  PROVE  /\ RightSlot([p EXCEPT !.joining = TRUE, !.reservedAge = a], t)
         /\ [p EXCEPT !.joining = TRUE, !.reservedAge = a].ws = p.ws
<1>1. p \in Player(p.cmds) /\ IsMap(p.cmds, Tics, Cmd)  BY PlayerFields DEF RightSlot
<1> QED  BY <1>1 DEF IsPlayer, RightSlot, Player, SlotInv

\* A drop-in's slot that relayConnect binds and at once releases by hand (a
\* full history, a burst not read) is a free slot again.
LEMMA UnboundOK ==
  ASSUME NEW p, NEW t \in Nat, RightSlot(p, t), NEW c \in Clients,
         p.ws = NoClient, ~ p.ingame
  PROVE  /\ RightSlot(Unbound(Bound(p, c)), t)
         /\ RightSlot([Unbound(Bound(p, c)) EXCEPT !.joining = FALSE,
                         !.reservedAge = NotHeld, !.token = NoClient], t)
         /\ Unbound(Bound(p, c)).ws = NoClient
         /\ [Unbound(Bound(p, c)) EXCEPT !.joining = FALSE,
               !.reservedAge = NotHeld, !.token = NoClient].ws = NoClient
<1>1. p \in Player(p.cmds) /\ IsMap(p.cmds, Tics, Cmd)  BY PlayerFields DEF RightSlot
<1>2. p.joinAt = NotScheduled  BY DEF RightSlot, SlotInv
<1> DEFINE u == Unbound(Bound(p, c))
<1>3. /\ u \in Player(p.cmds) /\ u.cmds = p.cmds /\ u.ws = NoClient
      /\ u.joinAt = NotScheduled /\ ~ u.ingame /\ u.last = p.last
  BY <1>1, <1>2 DEF Bound, Unbound, Player
<1>4. RightSlot(u, t)
  BY <1>1, <1>3 DEF RightSlot, IsPlayer, SlotInv
<1> DEFINE v == [u EXCEPT !.joining = FALSE, !.reservedAge = NotHeld, !.token = NoClient]
<1>5. /\ v \in Player(p.cmds) /\ v.cmds = p.cmds /\ v.ws = NoClient
      /\ v.joinAt = NotScheduled /\ ~ v.ingame /\ v.last = p.last
  <2> HIDE DEF u
  <2> QED  BY <1>3 DEF Player
<1>6. RightSlot(v, t)
  BY <1>1, <1>5 DEF RightSlot, IsPlayer, SlotInv
<1> QED  BY <1>3, <1>4, <1>5, <1>6

\* A reservation, and the lobby socket that takes its own away.
LEMMA ReservedOK ==
  ASSUME NEW p, NEW t \in Nat, RightSlot(p, t), p.ws = NoClient, NEW c \in Clients
  PROVE  /\ RightSlot([p EXCEPT !.token = c, !.joining = TRUE, !.reservedAge = 0], t)
         /\ [p EXCEPT !.token = c, !.joining = TRUE, !.reservedAge = 0].ws = NoClient
         /\ RightSlot([p EXCEPT !.token = NoClient, !.joining = FALSE,
                                !.reservedAge = NotHeld], t)
         /\ [p EXCEPT !.token = NoClient, !.joining = FALSE,
                      !.reservedAge = NotHeld].ws = NoClient
<1>1. p \in Player(p.cmds) /\ IsMap(p.cmds, Tics, Cmd)  BY PlayerFields DEF RightSlot
<1>2. p.joinAt = NotScheduled  BY DEF RightSlot, SlotInv
<1> QED  BY <1>1, <1>2 DEF RightSlot, IsPlayer, Player, SlotInv

\* A frame from the slot's socket, a joiner's first included, which schedules
\* it ahead of the frontier.
LEMMA HeardOK ==
  ASSUME NEW p, tic \in Nat, RightSlot(p, tic), p.ws # NoClient
  PROVE  /\ RightSlot(Heard(p), tic)
         /\ Heard(p).ws = p.ws /\ Heard(p).token = p.token
         /\ Heard(p).ingame = p.ingame /\ Heard(p).joined = p.joined
         /\ Heard(p).cmds = p.cmds
<1>1. p \in Player(p.cmds) /\ IsMap(p.cmds, Tics, Cmd)  BY PlayerFields DEF RightSlot
<1>2. JoinMargin \in Nat  BY NumbersAssumption
<1> DEFINE h == Heard(p)
           a == IF p.joining /\ ~ p.ingame /\ p.joinAt = NotScheduled
                THEN tic + JoinMargin ELSE p.joinAt
<1>3. /\ h \in Player(p.cmds) /\ h.cmds = p.cmds /\ h.ws = p.ws /\ h.token = p.token
      /\ h.ingame = p.ingame /\ h.joined = p.joined /\ h.joining = p.joining
      /\ h.last = p.last /\ h.joinAt = a
  <2>1. a \in Nat  BY <1>1, <1>2 DEF Player
  <2>2. h = [p EXCEPT !.sentAny = TRUE, !.heardAge = 0, !.quiet = 0,
                      !.silent = FALSE, !.joinAt = a]
    BY <1>1 DEF Heard, Player
  <2> HIDE DEF a, h
  <2> QED  BY <1>1, <2>1, <2>2 DEF Player
<1>4. SlotInv(h, tic)
  <2> HIDE DEF h
  <2> QED  BY <1>2, <1>3 DEF RightSlot, SlotInv
<1> QED  BY <1>1, <1>3, <1>4 DEF RightSlot, IsPlayer

\* A cmd stored for a tic of the window.
LEMMA StoreOK ==
  ASSUME NEW p, NEW n \in Nat, RightSlot(p, n), NEW t \in Tics, NEW cmd \in Cmd
  PROVE  /\ RightSlot(Store(p, t, cmd), n)
         /\ Store(p, t, cmd).ws = p.ws /\ Store(p, t, cmd).token = p.token
         /\ Store(p, t, cmd).ingame = p.ingame /\ Store(p, t, cmd).joined = p.joined
<1>1. p \in Player(p.cmds) /\ IsMap(p.cmds, Tics, Cmd)  BY PlayerFields DEF RightSlot
<1> DEFINE m == [u \in DOMAIN p.cmds \cup {t} |-> IF u = t THEN cmd ELSE p.cmds[u]]
           a == IF tic \in DOMAIN m THEN 0 ELSE p.seenAge
<1>2. IsMap(m, Tics, Cmd)  BY <1>1 DEF IsMap
<1>3. a \in Nat  BY <1>1 DEF Player
<1>4. Store(p, t, cmd) = [p EXCEPT !.cmds = m, !.seenAge = a]
  BY <1>1 DEF Store, Player
<1> HIDE DEF m, a
<1>5. /\ Store(p, t, cmd) \in Player(m) /\ Store(p, t, cmd).cmds = m
      /\ Store(p, t, cmd).ws = p.ws /\ Store(p, t, cmd).token = p.token
      /\ Store(p, t, cmd).ingame = p.ingame /\ Store(p, t, cmd).joined = p.joined
      /\ Store(p, t, cmd).joining = p.joining /\ Store(p, t, cmd).joinAt = p.joinAt
      /\ Store(p, t, cmd).last = p.last
  BY <1>1, <1>3, <1>4 DEF Player
<1>6. SlotInv(Store(p, t, cmd), n)  BY <1>5 DEF RightSlot, SlotInv
<1> QED  BY <1>2, <1>5, <1>6 DEF RightSlot, IsPlayer

\* A slot whose socket closed holds nothing and is scheduled for nothing.
LEMMA LeftOK ==
  ASSUME NEW p, NEW t \in Nat, RightSlot(p, t)
  PROVE  RightSlot(Left(p), t) /\ Left(p).ws = NoClient
<1>1. p \in Player(p.cmds) /\ IsMap(p.cmds, Tics, Cmd)  BY PlayerFields DEF RightSlot
<1>2. /\ Left(p) \in Player(p.cmds) /\ Left(p).cmds = p.cmds /\ Left(p).ws = NoClient
      /\ Left(p).joinAt = NotScheduled /\ ~ Left(p).ingame /\ Left(p).last = p.last
  BY <1>1 DEF Left, Player, NotScheduled
<1> QED  BY <1>1, <1>2 DEF RightSlot, IsPlayer, SlotInv

\* An age that stops at its cap is still an age.
LEMMA AtMostNat ==
  ASSUME NEW n \in Nat, NEW cap \in Nat
  PROVE  AtMost(n, cap) \in Nat
BY DEF AtMost

\* What the sweep does to one slot's record: its ages, a reservation that timed
\* out, a seat nobody connected to.  A socket may go, and so may the slot.
LEMMA AgedOK ==
  ASSUME NEW p, NEW t \in Nat, RightSlot(p, t), NEW d \in Nat
  PROVE  /\ RightSlot(Aged(p, d), t)
         /\ Aged(p, d).ws = p.ws
<1>1. p \in Player(p.cmds) /\ IsMap(p.cmds, Tics, Cmd)  BY PlayerFields DEF RightSlot
<1> DEFINE r == IF p.reservedAge = NotHeld THEN p.reservedAge
                ELSE AtMost(p.reservedAge + d, JoinTimeout + 1)
           a == AtMost(p.seenAge + d, Drop + 1)
           h == AtMost(p.heardAge + d, Grace + 1)
<1>2. r \in Nat \cup {NotHeld} /\ a \in Nat /\ h \in Nat
  <2>1. JoinTimeout + 1 \in Nat /\ Drop + 1 \in Nat /\ Grace + 1 \in Nat
    BY NumbersAssumption
  <2>2. p.seenAge + d \in Nat /\ p.heardAge + d \in Nat  BY <1>1 DEF Player
  <2>3. p.reservedAge # NotHeld => p.reservedAge + d \in Nat  BY <1>1 DEF Player
  <2> QED  BY <2>1, <2>2, <2>3, AtMostNat
<1>3. Aged(p, d) = [p EXCEPT !.reservedAge = r, !.seenAge = a, !.heardAge = h]
  BY <1>1 DEF Aged, Player
<1> HIDE DEF r, a, h
<1>4. /\ Aged(p, d) \in Player(p.cmds) /\ Aged(p, d).cmds = p.cmds
      /\ Aged(p, d).ws = p.ws /\ Aged(p, d).token = p.token
      /\ Aged(p, d).ingame = p.ingame /\ Aged(p, d).joined = p.joined
      /\ Aged(p, d).joining = p.joining /\ Aged(p, d).joinAt = p.joinAt
      /\ Aged(p, d).last = p.last
  BY <1>1, <1>2, <1>3 DEF Player
<1> QED  BY <1>1, <1>4 DEF RightSlot, IsPlayer, SlotInv

\* A timed-out reservation takes the socket, the schedule and a bound token.
LEMMA ReclaimOK ==
  ASSUME NEW p, NEW t \in Nat, RightSlot(p, t)
  PROVE  /\ RightSlot(Reclaim(p), t)
         /\ Reclaim(p).ws # NoClient => Reclaim(p).ws = p.ws
<1>1. p \in Player(p.cmds) /\ IsMap(p.cmds, Tics, Cmd)  BY PlayerFields DEF RightSlot
<1> DEFINE k == IF p.ws = NoClient THEN p.token ELSE NoClient
           r == [p EXCEPT !.joining = FALSE, !.reservedAge = NotHeld,
                          !.joinAt = 0, !.ws = NoClient, !.token = k]
<1>2. Reclaim(p) = IF ~ TimedOut(p) THEN p ELSE r
  BY <1>1 DEF Reclaim, Player, NotScheduled
<1>3. k \in Clients \cup {NoClient}  BY <1>1 DEF Player
<1>4. /\ r \in Player(p.cmds) /\ r.cmds = p.cmds /\ r.ws = NoClient
      /\ r.joinAt = NotScheduled /\ r.ingame = p.ingame /\ r.last = p.last
  <2> HIDE DEF k
  <2> QED  BY <1>1, <1>3 DEF Player, NotScheduled
<1>5. CASE TimedOut(p)
  BY <1>1, <1>2, <1>4, <1>5 DEF TimedOut, RightSlot, IsPlayer, SlotInv
<1>6. CASE ~ TimedOut(p)
  BY <1>2, <1>6
<1> QED  BY <1>5, <1>6

\* A seat nobody connected to leaves the game.
LEMMA AbsentOK ==
  ASSUME NEW p, NEW t \in Nat, RightSlot(p, t), NEW age
  PROVE  RightSlot(Absent(p, age), t) /\ Absent(p, age).ws = p.ws
<1>1. p \in Player(p.cmds) /\ IsMap(p.cmds, Tics, Cmd)  BY PlayerFields DEF RightSlot
<1> QED  BY <1>1 DEF Absent, RightSlot, IsPlayer, Player, SlotInv

\* What the sweep does to the slots together keeps who holds them and who is
\* still to connect.
SameSockets(pl, ql) ==
  /\ \A s \in Slots : ql[s].ws = pl[s].ws
  /\ AllJoined(pl) => AllJoined(ql)

\* Judging who is silent changes no socket, no token and no roster.
LEMMA SilenceOK ==
  ASSUME NEW pl, NEW t \in Nat, SlotsOK(pl, t)
  PROVE  SlotsOK(Silence(pl), t) /\ SameSockets(pl, Silence(pl))
<1> DEFINE ql == Silence(pl)
<1>1. ASSUME NEW s \in Slots
      PROVE  /\ IsPlayer(ql[s]) /\ SlotInv(ql[s], t) /\ ql[s].ws = pl[s].ws
             /\ ql[s].joined = pl[s].joined /\ ql[s].ingame = pl[s].ingame
  <2> DEFINE p == pl[s]
             n == AtMost(p.quiet + 1, QuietSweeps)
             b == p.silent \/ (p.quiet + 1 >= QuietSweeps /\ p.heardAge > Grace)
             r == [p EXCEPT !.quiet = n, !.silent = b]
  <2>1. IsPlayer(p) /\ SlotInv(p, t)  BY DEF SlotsOK
  <2>2. p \in Player(p.cmds) /\ IsMap(p.cmds, Tics, Cmd)  BY <2>1, PlayerFields
  <2>3. ql[s] = p \/ ql[s] = r  BY <2>2 DEF Silence, Player
  <2>4. n \in Nat /\ b \in BOOLEAN
    <3>1. p.quiet + 1 \in Nat /\ QuietSweeps \in Nat
      BY <2>2, NumbersAssumption DEF Player
    <3>2. n \in Nat  BY <3>1, AtMostNat
    <3>3. b \in BOOLEAN  BY <2>2 DEF Player
    <3> QED  BY <3>2, <3>3
  <2>5. /\ r \in Player(p.cmds) /\ r.cmds = p.cmds /\ r.ws = p.ws /\ r.token = p.token
        /\ r.ingame = p.ingame /\ r.joined = p.joined /\ r.joining = p.joining
        /\ r.joinAt = p.joinAt /\ r.last = p.last
    <3> HIDE DEF n, b, p
    <3> QED  BY <2>2, <2>4 DEF Player
  <2>6. IsPlayer(r) /\ SlotInv(r, t)
    <3> HIDE DEF r, p
    <3> QED  BY <2>1, <2>2, <2>5 DEF IsPlayer, SlotInv
  <2> HIDE DEF p, r
  <2>7. IsPlayer(ql[s]) /\ SlotInv(ql[s], t)  BY <2>1, <2>3, <2>6
  <2>8. ql[s].ws = p.ws /\ ql[s].joined = p.joined /\ ql[s].ingame = p.ingame
    BY <2>3, <2>5
  <2> QED  BY <2>7, <2>8 DEF p
<1>2. ql = [s \in Slots |-> ql[s]]  BY DEF Silence
<1> HIDE DEF ql
<1>3. SlotsOK(ql, t) /\ SameSockets(pl, ql)
  BY <1>1, <1>2 DEF SlotsOK, SameSockets, AllJoined, Live
<1> QED  BY <1>3 DEF ql

\* A drop takes slots out of the game and leaves their sockets bound.
LEMMA DroppedOK ==
  ASSUME NEW pl, NEW t \in Nat, SlotsOK(pl, t), NEW k
  PROVE  SlotsOK(Dropped(pl, k), t) /\ SameSockets(pl, Dropped(pl, k))
<1> DEFINE ql == Dropped(pl, k)
<1>1. ASSUME NEW s \in Slots
      PROVE  /\ IsPlayer(ql[s]) /\ SlotInv(ql[s], t) /\ ql[s].ws = pl[s].ws
             /\ ql[s].joined = pl[s].joined
             /\ ql[s].ingame => pl[s].ingame
  <2> DEFINE p == pl[s]
             r == [p EXCEPT !.ingame = FALSE]
  <2>1. IsPlayer(p) /\ SlotInv(p, t)  BY DEF SlotsOK
  <2>2. p \in Player(p.cmds) /\ IsMap(p.cmds, Tics, Cmd)  BY <2>1, PlayerFields
  <2>3. ql[s] = p \/ (ql[s] = r /\ s \in Live(pl))
    BY DEF Dropped, ToDrop, Laggards
  <2>4. /\ r \in Player(p.cmds) /\ r.cmds = p.cmds /\ r.ws = p.ws /\ r.token = p.token
        /\ ~ r.ingame /\ r.joined = p.joined /\ r.joining = p.joining
        /\ r.joinAt = p.joinAt /\ r.last = p.last
    BY <2>2 DEF Player
  <2> HIDE DEF p, r
  <2>5. s \in Live(pl) => p.ingame  BY DEF Live, p
  <2>6. s \in Live(pl) => IsPlayer(r) /\ SlotInv(r, t)
    BY <2>1, <2>2, <2>4, <2>5 DEF IsPlayer, SlotInv
  <2>7. IsPlayer(ql[s]) /\ SlotInv(ql[s], t)  BY <2>1, <2>3, <2>6
  <2>8. ql[s].ws = p.ws /\ ql[s].joined = p.joined /\ (ql[s].ingame => p.ingame)
    BY <2>3, <2>4
  <2> QED  BY <2>7, <2>8 DEF p
<1>2. ql = [s \in Slots |-> ql[s]]  BY DEF Dropped
<1> HIDE DEF ql
<1>3. SlotsOK(ql, t) /\ SameSockets(pl, ql)
  BY <1>1, <1>2 DEF SlotsOK, SameSockets, AllJoined, Live
<1> QED  BY <1>3 DEF ql

-----------------------------------------------------------------------------
(* Sockets.                                                                *)

\* cl2 is cl with some sockets further on the way to being closed.
Fewer(cl, cl2) ==
  \A c \in Clients :
    /\ cl2[c].lobby = cl[c].lobby /\ cl2[c].at = cl[c].at
    /\ cl2[c].sock = "open" => cl[c].sock = "open"
    /\ cl2[c].sock = "none" <=> cl[c].sock = "none"

\* Closing sockets opens none.
LEMMA ClosingOK ==
  ASSUME NEW cl \in [Clients -> Client], NEW C
  PROVE  Closing(cl, C) \in [Clients -> Client] /\ Fewer(cl, Closing(cl, C))
<1>1. ASSUME NEW c \in Clients
      PROVE  /\ Closing(cl, C)[c] \in Client
             /\ Closing(cl, C)[c].lobby = cl[c].lobby /\ Closing(cl, C)[c].at = cl[c].at
             /\ Closing(cl, C)[c].sock = "open" => cl[c].sock = "open"
             /\ Closing(cl, C)[c].sock = "none" <=> cl[c].sock = "none"
  <2>1. cl[c] \in Client  OBVIOUS
  <2>2. Closing(cl, C)[c] = IF c \in C /\ cl[c].sock = "open"
                            THEN [cl[c] EXCEPT !.sock = "closing"] ELSE cl[c]
    BY DEF Closing
  <2> QED  BY <2>1, <2>2 DEF Client
<1>2. Closing(cl, C) = [c \in Clients |-> Closing(cl, C)[c]]  BY DEF Closing
<1> QED  BY <1>1, <1>2 DEF Fewer

\* Taking sockets away, or closing them, leaves the streams of the rest whole.
LEMMA StreamOfFewer ==
  ASSUME NEW pl, NEW ql, NEW cl, NEW cl2, NEW snt, NEW t,
         OnlyReleased(pl, ql), Fewer(cl, cl2), NoClient \notin Clients,
         StreamUpTo(pl, cl, snt, t)
  PROVE  StreamUpTo(ql, cl2, snt, t)
BY DEF StreamUpTo, Receives, Reads, OnlyReleased, Fewer

\* The sweep's seal, drops and forced tic, from slots pl and sockets cl.
LEMMA SweepSealOK ==
  ASSUME NEW pl, NEW cl \in [Clients -> Client], tic \in 0 .. MaxTic,
         sent \in [Clients -> SUBSET Tics],
         SlotsOK(pl, tic), AllJoined(pl), StreamUpTo(pl, cl, sent, tic),
         SweepSeal(pl, cl)
  PROVE  /\ tic' \in 0 .. MaxTic
         /\ SlotsOK(players', tic')
         /\ \A s \in Slots : players'[s].ws = pl[s].ws
         /\ CastOK(cast')
         /\ client' \in [Clients -> Client] /\ Fewer(cl, client')
         /\ sent' \in [Clients -> SUBSET Tics]
         /\ StreamUpTo(players', client', sent', tic')
         /\ \A c \in Clients : cl[c].sock # "open" => sent'[c] = sent[c]
<1>0. MaxTic \in Nat /\ tic \in Nat /\ NoClient \notin Clients
  BY NumbersAssumption, SlotsAssumption
<1>a. PICK k1 \in tic .. MaxTic : SweepSeal(pl, cl)!(k1)
  BY DEF SweepSeal
<1> DEFINE p1 == AfterSeal(pl, tic, k1)
           p2 == Dropped(p1, k1)
           c2 == Closing(cl, {p1[s].ws : s \in ToDrop(p1, k1)})
           b1 == Sealed(pl, tic, k1)
           n1 == SendTo(pl, cl, sent, tic, k1)
<1>1. k1 \in Nat /\ tic <= k1 /\ k1 \in 0 .. MaxTic  BY <1>0, <1>a
<1>2. SlotsOK(p1, k1) /\ AllJoined(p1) /\ \A s \in Slots : p1[s].ws = pl[s].ws
  BY <1>0, <1>1, AfterSealOK
<1>3. SlotsOK(p2, k1) /\ AllJoined(p2) /\ \A s \in Slots : p2[s].ws = pl[s].ws
  <2> HIDE DEF p1
  <2> QED  BY <1>1, <1>2, DroppedOK DEF SameSockets
<1>4. c2 \in [Clients -> Client] /\ Fewer(cl, c2)  BY ClosingOK
<1>5. CastOK(b1)
  BY <1>0, <1>1, BundlesOK DEF SlotsOK, SlotInv
<1>6. /\ n1 \in [Clients -> SUBSET Tics] /\ StreamUpTo(pl, cl, n1, k1)
      /\ \A c \in Clients : cl[c].sock # "open" => n1[c] = sent[c]
  <2>1. /\ sent \in [Clients -> SUBSET Tics] /\ tic \in Nat /\ k1 \in 0 .. MaxTic
        /\ tic <= k1 /\ StreamUpTo(pl, cl, sent, tic)
    BY <1>0, <1>1
  <2> HIDE DEF n1
  <2>2. /\ SendTo(pl, cl, sent, tic, k1) \in [Clients -> SUBSET Tics]
        /\ StreamUpTo(pl, cl, SendTo(pl, cl, sent, tic, k1), k1)
        /\ \A c \in Clients : cl[c].sock # "open" =>
             SendTo(pl, cl, sent, tic, k1)[c] = sent[c]
    BY <2>1, SendToOK
  <2> QED  BY <2>2 DEF n1
<1>7. Fewer(cl, cl)  BY DEF Fewer
<1>8. OnlyReleased(pl, p1) /\ OnlyReleased(pl, p2)
  BY <1>2, <1>3 DEF OnlyReleased
<1> HIDE DEF p1, p2, c2, b1, n1
<1>9. CASE players' = p1 /\ client' = cl /\ tic' = k1 /\ cast' = b1 /\ sent' = n1
  <2>1. StreamUpTo(p1, cl, n1, k1)  BY <1>0, <1>6, <1>7, <1>8, StreamOfFewer
  <2> QED  BY <1>1, <1>2, <1>5, <1>6, <1>7, <1>9, <2>1
<1>10. CASE players' = p2 /\ client' = c2 /\ tic' = k1 /\ cast' = b1 /\ sent' = n1
  <2>1. StreamUpTo(p2, c2, n1, k1)  BY <1>0, <1>4, <1>6, <1>8, StreamOfFewer
  <2> QED  BY <1>1, <1>3, <1>4, <1>5, <1>6, <1>10, <2>1
<1>11. ASSUME k1 < MaxTic, NEW k2 \in k1 + 1 .. MaxTic,
              LET p3 == AfterSeal(p2, k1, k1 + 1) IN
               /\ SealStops(p3, k1 + 1, k2)
               /\ players' = AfterSeal(p3, k1 + 1, k2)
               /\ client' = c2
               /\ tic' = k2
               /\ cast' = [t \in tic .. k2 - 1 |->
                             CASE t < k1 -> b1[t]
                               [] t = k1 -> Bundle(p2, k1, t)
                               [] t > k1 -> Bundle(p3, k1 + 1, t)]
               /\ sent' = SendTo(p2, c2, n1, k1, k2)
       PROVE  /\ tic' \in 0 .. MaxTic
              /\ SlotsOK(players', tic')
              /\ \A s \in Slots : players'[s].ws = pl[s].ws
              /\ CastOK(cast')
              /\ client' \in [Clients -> Client] /\ Fewer(cl, client')
              /\ sent' \in [Clients -> SUBSET Tics]
              /\ StreamUpTo(players', client', sent', tic')
              /\ \A c \in Clients : cl[c].sock # "open" => sent'[c] = sent[c]
  <2> DEFINE p3 == AfterSeal(p2, k1, k1 + 1)
             p4 == AfterSeal(p3, k1 + 1, k2)
  <2>1. /\ k1 + 1 \in Nat /\ k1 <= k1 + 1 /\ k2 \in Nat /\ k1 + 1 <= k2
        /\ k2 \in 0 .. MaxTic /\ k1 <= k2
    BY <1>0, <1>1, <1>11
  <2>2. SlotsOK(p3, k1 + 1) /\ AllJoined(p3) /\ \A s \in Slots : p3[s].ws = p2[s].ws
    BY <1>1, <1>3, <2>1, AfterSealOK
  <2>3. SlotsOK(p4, k2) /\ \A s \in Slots : p4[s].ws = p3[s].ws
    <3> HIDE DEF p3
    <3> QED  BY <2>1, <2>2, AfterSealOK
  <2>4. StreamUpTo(p2, c2, n1, k1)  BY <1>0, <1>4, <1>6, <1>8, StreamOfFewer
  <2>5. /\ SendTo(p2, c2, n1, k1, k2) \in [Clients -> SUBSET Tics]
        /\ StreamUpTo(p2, c2, SendTo(p2, c2, n1, k1, k2), k2)
        /\ \A c \in Clients : c2[c].sock # "open" => SendTo(p2, c2, n1, k1, k2)[c] = n1[c]
    <3>1. /\ n1 \in [Clients -> SUBSET Tics] /\ k1 \in Nat /\ k2 \in 0 .. MaxTic
          /\ k1 <= k2 /\ StreamUpTo(p2, c2, n1, k1)
      BY <1>1, <1>6, <2>1, <2>4
    <3> QED  BY <3>1, SendToOK, Z3
  <2>6. OnlyReleased(p2, p4) /\ Fewer(c2, c2)
    BY <2>2, <2>3 DEF OnlyReleased, Fewer
  <2>7. StreamUpTo(p4, c2, SendTo(p2, c2, n1, k1, k2), k2)
    <3> HIDE DEF p4
    <3> QED  BY <1>0, <2>5, <2>6, StreamOfFewer
  <2>8. CastOK(cast')
    <3> DEFINE Right(b) == b \in BundleType /\ \A s \in b.fab : ~ b.cmd[s].ev
    <3>1. \A t \in tic .. k1 - 1 : Right(b1[t])
      BY <1>5, <1>0, <1>1 DEF CastOK, IsMap, b1, Sealed
    <3>2. \A t \in Int : Right(Bundle(p2, k1, t))
      BY <1>1, <1>3, BundleOK DEF SlotsOK, SlotInv
    <3>3. \A t \in Int : Right(Bundle(p3, k1 + 1, t))
      <4> HIDE DEF p3
      <4> QED  BY <2>1, <2>2, BundleOK DEF SlotsOK, SlotInv
    <3>4. ASSUME NEW t \in tic .. k2 - 1  PROVE Right(cast'[t]) /\ t \in Tics
      <4>1. t \in Int /\ t \in Tics /\ (t < k1 => t \in tic .. k1 - 1)
        BY <1>0, <1>1, <2>1 DEF Tics
      <4> HIDE DEF Right, p3
      <4>2. cast'[t] = CASE t < k1 -> b1[t]
                         [] t = k1 -> Bundle(p2, k1, t)
                         [] t > k1 -> Bundle(p3, k1 + 1, t)
        BY <1>11 DEF p3
      <4>3. CASE t < k1
        <5>1. cast'[t] = b1[t]  BY <4>1, <4>2, <4>3, <1>1
        <5> QED  BY <3>1, <4>1, <4>3, <5>1
      <4>4. CASE t = k1
        <5>1. cast'[t] = Bundle(p2, k1, t)  BY <4>1, <4>2, <4>4, <1>1
        <5> QED  BY <3>2, <4>1, <5>1
      <4>5. CASE t > k1
        <5>1. cast'[t] = Bundle(p3, k1 + 1, t)  BY <4>1, <4>2, <4>5, <1>1
        <5> QED  BY <3>3, <4>1, <5>1
      <4> QED  BY <4>1, <4>3, <4>4, <4>5, <1>1
    <3>5. DOMAIN cast' = tic .. k2 - 1 /\ cast' = [t \in DOMAIN cast' |-> cast'[t]]
      BY <1>11
    <3> QED  BY <3>4, <3>5 DEF CastOK, IsMap
  <2>9. /\ tic' = k2 /\ players' = p4 /\ client' = c2
        /\ sent' = SendTo(p2, c2, n1, k1, k2)
    BY <1>11
  <2>10. \A c \in Clients : cl[c].sock # "open" => c2[c].sock # "open"
    BY <1>4 DEF Fewer
  <2> HIDE DEF p3, p4
  <2> QED  BY <1>3, <1>4, <1>6, <2>1, <2>2, <2>3, <2>5, <2>7, <2>8, <2>9, <2>10
<1>12. \/ players' = p1 /\ client' = cl /\ tic' = k1 /\ cast' = b1 /\ sent' = n1
       \/ players' = p2 /\ client' = c2 /\ tic' = k1 /\ cast' = b1 /\ sent' = n1
       \/ /\ k1 < MaxTic
          /\ \E k2 \in k1 + 1 .. MaxTic :
               LET p3 == AfterSeal(p2, k1, k1 + 1) IN
               /\ SealStops(p3, k1 + 1, k2)
               /\ players' = AfterSeal(p3, k1 + 1, k2)
               /\ client' = c2
               /\ tic' = k2
               /\ cast' = [t \in tic .. k2 - 1 |->
                             CASE t < k1 -> b1[t]
                               [] t = k1 -> Bundle(p2, k1, t)
                               [] t > k1 -> Bundle(p3, k1 + 1, t)]
               /\ sent' = SendTo(p2, c2, n1, k1, k2)
  BY <1>a DEF p1, p2, c2, b1, n1
<1> QED  BY <1>9, <1>10, <1>11, <1>12

-----------------------------------------------------------------------------
(* The invariant, part by part: what each action has to establish.          *)

Parts ==
  /\ SlotsOK(players, tic)
  /\ tic \in 0 .. MaxTic
  /\ CastOK(cast)
  /\ spectators \in SUBSET Clients
  /\ launchAge \in {NotLaunched} \cup Nat
  /\ over \in BOOLEAN
  /\ client \in [Clients -> Client]
  /\ sent \in [Clients -> SUBSET Tics]
  /\ Bindings /\ Newcomers /\ SeatsAwaitLaunch
  /\ ~ over => StreamUpTo(players, client, sent, tic)

\* IInv as the parts the lemmas below speak of.
LEMMA PartsOfInv == IInv <=> Parts
BY DEF IInv, Parts, TypeOK, SlotsOK, CastOK, EventsAreSent, StreamWhole, StreamUpTo

\* The same of the next state.
LEMMA PartsOfInvNext == IInv' <=> Parts'
BY DEF IInv, Parts, TypeOK, SlotsOK, CastOK, EventsAreSent, StreamWhole, StreamUpTo,
       SlotInv, Receives, Reads, IsMap, IsPlayer, Player, Tics, BundleType, Cmd, Client

\* startGame establishes the invariant.
LEMMA InitInv == Init => IInv
<1> SUFFICES ASSUME Init PROVE Parts  BY PartsOfInv
<1> USE DEF Init
<1>1. SlotsOK(players, tic)
  <2>1. ASSUME NEW s \in Slots  PROVE IsPlayer(NewPlayer(s)) /\ SlotInv(NewPlayer(s), 0)
    <3>1. Grace + 1 \in Nat /\ IsMap(Nothing, Tics, Cmd)
      BY NumbersAssumption DEF IsMap, Nothing
    <3>2. Blank \in Cmd  BY DEF Blank, Cmd
    <3>3. NewPlayer(s) \in Player(Nothing) /\ NewPlayer(s).cmds = Nothing
      BY <3>1, <3>2 DEF NewPlayer, Player, NotScheduled, NotHeld
    <3> QED  BY <3>1, <3>3 DEF IsPlayer, SlotInv, NewPlayer, Blank, NotScheduled
  <2> QED  BY <2>1 DEF SlotsOK
<1>2. client \in [Clients -> Client]
  <2>1. ASSUME NEW c \in Clients, \E s \in Seats : Owner[s] = c
        PROVE  (CHOOSE s \in Seats : Owner[s] = c) \in Slots
    BY <2>1, SlotsAssumption
  <2> QED  BY <2>1 DEF Client
<1>3. sent \in [Clients -> SUBSET Tics] /\ tic \in 0 .. MaxTic
  BY NumbersAssumption
<1>4. Bindings  BY DEF Bindings, NewPlayer
<1>5. Newcomers  BY DEF Newcomers
<1>6. SeatsAwaitLaunch  BY SlotsAssumption DEF SeatsAwaitLaunch, NewPlayer
<1>7. StreamUpTo(players, client, sent, tic)
  <2>1. \A c \in Clients : client[c].sock = "none"  OBVIOUS
  <2> QED  BY <2>1 DEF StreamUpTo, Receives
<1> QED  BY <1>1, <1>2, <1>3, <1>4, <1>5, <1>6, <1>7, NothingOK DEF Parts, NotLaunched

\* The message handler's seal, from slots pl that differ from the players only
\* in what the frame changed of one of them.
LEMMA SealInv ==
  ASSUME Parts, ~ over, NEW pl, SlotsOK(pl, tic), SameSockets(players, pl),
         \A s \in Slots : pl[s].token = players[s].token
                          /\ (players[s].ingame => pl[s].ingame),
         Seal(pl), UNCHANGED <<spectators, launchAge, over, client>>
  PROVE  Parts'
<1>0. MaxTic \in Nat /\ tic \in Nat  BY NumbersAssumption DEF Parts
<1>1. PICK k \in tic .. MaxTic :
        /\ SealStops(pl, tic, k)
        /\ players' = AfterSeal(pl, tic, k)
        /\ tic' = k
        /\ cast' = Sealed(pl, tic, k)
        /\ sent' = SendTo(pl, client, sent, tic, k)
  BY DEF Seal
<1>2. k \in Nat /\ tic <= k /\ k \in 0 .. MaxTic /\ (k = tic \/ AllJoined(pl))
  BY <1>0, <1>1 DEF SealStops
<1>3. /\ SlotsOK(players', tic')
      /\ \A s \in Slots : /\ players'[s].ws = players[s].ws
                          /\ players'[s].token = players[s].token
                          /\ players[s].ingame => players'[s].ingame
  BY <1>0, <1>1, <1>2, AfterSealOK DEF SameSockets
<1>4. CastOK(cast')
  BY <1>0, <1>1, <1>2, BundlesOK DEF SlotsOK, SlotInv
<1>5. StreamUpTo(pl, client, sent, tic)
  BY DEF Parts, SameSockets, StreamUpTo, Receives, Reads
<1>6. /\ sent' \in [Clients -> SUBSET Tics]
      /\ StreamUpTo(pl, client, sent', tic')
      /\ \A c \in Clients : client[c].sock # "open" => sent'[c] = sent[c]
  <2>1. /\ sent \in [Clients -> SUBSET Tics] /\ tic \in Nat /\ k \in 0 .. MaxTic
        /\ tic <= k /\ StreamUpTo(pl, client, sent, tic)
    BY <1>0, <1>2, <1>5 DEF Parts
  <2>2. /\ SendTo(pl, client, sent, tic, k) \in [Clients -> SUBSET Tics]
        /\ StreamUpTo(pl, client, SendTo(pl, client, sent, tic, k), k)
        /\ \A c \in Clients : client[c].sock # "open" =>
             SendTo(pl, client, sent, tic, k)[c] = sent[c]
    BY <2>1, SendToOK
  <2> QED  BY <1>1, <2>2
<1>7. StreamUpTo(players, client, sent, tic)'
  BY <1>3, <1>6 DEF StreamUpTo, Receives, Reads, SameSockets
<1>8. Bindings' /\ Newcomers' /\ SeatsAwaitLaunch'
  BY <1>3, <1>6, SlotsAssumption DEF Parts, Bindings, Newcomers, SeatsAwaitLaunch
<1> QED  BY <1>1, <1>2, <1>3, <1>4, <1>6, <1>7, <1>8 DEF Parts, SlotsOK, SlotInv,
            CastOK, StreamUpTo, Receives, Reads

-----------------------------------------------------------------------------
(* The actions.                                                            *)

\* A step that changes one slot's record and broadcasts nothing.
LEMMA OneSlotChanged ==
  ASSUME Parts, NEW s \in Slots, NEW q, RightSlot(q, tic), tic' = tic,
         players' = [players EXCEPT ![s] = q]
  PROVE  /\ SlotsOK(players', tic')
         /\ players'[s] = q
         /\ \A r \in Slots \ {s} : players'[r] = players[r]
BY DEF Parts, SlotsOK, RightSlot

\* The countdown's last tick (tokens handed out) preserves it.
LEMMA LaunchInv == Parts /\ Launch => Parts'
<1> SUFFICES ASSUME Parts, Launch  PROVE Parts'
  OBVIOUS
<1>1. PICK S \in SUBSET Seats :
        players' = [s \in Slots |->
          [players[s] EXCEPT !.token = IF s \in S THEN Owner[s] ELSE @,
                             !.heardAge = AtMost(@ + 1, Grace + 1)]]
  BY DEF Launch
<1>2. ASSUME NEW s \in Slots
      PROVE  RightSlot(players'[s], tic) /\ players'[s].ws = players[s].ws
  <2> DEFINE p == players[s]
             k == IF s \in S THEN Owner[s] ELSE p.token
             h == AtMost(p.heardAge + 1, Grace + 1)
  <2>1. RightSlot(p, tic)  BY DEF Parts, SlotsOK, RightSlot
  <2>2. p \in Player(p.cmds) /\ IsMap(p.cmds, Tics, Cmd)
    BY <2>1, PlayerFields DEF RightSlot
  <2>3. k \in Clients \cup {NoClient}  BY <2>2, SlotsAssumption DEF Player
  <2>4. h \in Nat
    <3>1. p.heardAge + 1 \in Nat /\ Grace + 1 \in Nat
      BY <2>2, NumbersAssumption DEF Player
    <3> QED  BY <3>1, AtMostNat
  <2>5. players'[s] = [p EXCEPT !.token = k, !.heardAge = h]
    BY <1>1, <2>2 DEF Player
  <2>6. s \in S => p.ws = NoClient
    BY DEF Launch, Parts, SeatsAwaitLaunch
  <2>7. p.ws # NoClient => k = p.token  BY <2>6
  <2> HIDE DEF p, k, h
  <2>8. /\ players'[s] \in Player(p.cmds) /\ players'[s].cmds = p.cmds
        /\ players'[s].ws = p.ws /\ players'[s].token = k
        /\ players'[s].ingame = p.ingame /\ players'[s].joined = p.joined
        /\ players'[s].joining = p.joining /\ players'[s].joinAt = p.joinAt
        /\ players'[s].last = p.last
    BY <2>2, <2>3, <2>4, <2>5 DEF Player
  <2>9. RightSlot(players'[s], tic)
    BY <2>1, <2>2, <2>7, <2>8 DEF RightSlot, IsPlayer, SlotInv
  <2> QED  BY <2>8, <2>9 DEF p
<1>3. /\ tic' = tic /\ cast' = Nothing /\ spectators' = spectators /\ launchAge' = 0
      /\ over' = over /\ client' = client /\ sent' = sent
  BY DEF Launch
<1>4. SlotsOK(players', tic')
  BY <1>1, <1>2, <1>3 DEF SlotsOK, RightSlot
<1>5. Bindings' /\ Newcomers' /\ SeatsAwaitLaunch'
  BY <1>2, <1>3 DEF Parts, Bindings, Newcomers, SeatsAwaitLaunch, NotLaunched
<1>6. ~ over' => StreamUpTo(players, client, sent, tic)'
  BY <1>2, <1>3 DEF Parts, StreamUpTo, Receives, Reads
<1> QED  BY <1>3, <1>4, <1>5, <1>6, NothingOK DEF Parts, SlotsOK, SlotInv, CastOK, Nothing

\* A `join` from an observer preserves it: the slot taken has no socket.
LEMMA ReserveInv ==
  ASSUME Parts, NEW c \in Clients, Reserve(c)
  PROVE  Parts'
<1>1. PICK s \in Slots :
        /\ Free(s)
        /\ players' = [players EXCEPT ![s].token = c, ![s].joining = TRUE,
                                      ![s].reservedAge = 0]
        /\ client' = [client EXCEPT ![c].lobby = "holder", ![c].at = s]
  BY DEF Reserve
<1>2. /\ tic' = tic /\ cast' = Nothing /\ spectators' = spectators
      /\ launchAge' = launchAge /\ over' = over /\ sent' = sent
      /\ client[c].lobby = "observer"
  BY DEF Reserve
<1> DEFINE q == [players[s] EXCEPT !.token = c, !.joining = TRUE, !.reservedAge = 0]
<1>3. RightSlot(q, tic) /\ q.ws = NoClient /\ players[s].ws = NoClient
  <2>1. RightSlot(players[s], tic) /\ tic \in Nat
    BY NumbersAssumption DEF Parts, SlotsOK, RightSlot
  <2> QED  BY <1>1, <2>1, ReservedOK DEF Free
<1>4. players' = [players EXCEPT ![s] = q]
  BY <1>1 DEF Parts, SlotsOK
<1> HIDE DEF q
<1>5. /\ SlotsOK(players', tic')
      /\ players'[s] = q
      /\ \A r \in Slots \ {s} : players'[r] = players[r]
  BY <1>2, <1>3, <1>4, OneSlotChanged
<1>6. client[c].sock = "none" /\ client[c] \in Client
  BY <1>2 DEF Parts, Newcomers
<1>7. /\ client' \in [Clients -> Client]
      /\ client'[c].sock = "none" /\ client'[c].lobby = "holder"
      /\ \A d \in Clients \ {c} : client'[d] = client[d]
  BY <1>1, <1>6 DEF Parts, Client
<1>8. Bindings'
  BY <1>3, <1>5, <1>6, <1>7, PlayerFields DEF Parts, Bindings, SlotsOK
<1>9. Newcomers'
  BY <1>2, <1>6, <1>7 DEF Parts, Newcomers
<1>10. SeatsAwaitLaunch'
  <2>1. launchAge = NotLaunched => s \notin Seats
    BY <1>1 DEF Parts, SeatsAwaitLaunch, Free
  <2> QED  BY <1>2, <1>5, <2>1, SlotsAssumption DEF Parts, SeatsAwaitLaunch
<1>11. ~ over' => StreamUpTo(players, client, sent, tic)'
  BY <1>2, <1>3, <1>5, <1>6, <1>7 DEF Parts, StreamUpTo, Receives, Reads
<1> QED  BY <1>2, <1>5, <1>7, <1>8, <1>9, <1>10, <1>11, NothingOK
         DEF Parts, SlotsOK, SlotInv, CastOK, Nothing

\* A lobby socket's close, with or without its reservation, preserves it.
LEMMA LeaveLobbyInv ==
  ASSUME Parts, NEW c \in Clients, LeaveLobby(c)
  PROVE  Parts'
<1>1. /\ tic' = tic /\ cast' = Nothing /\ spectators' = spectators
      /\ launchAge' = launchAge /\ over' = over /\ sent' = sent
      /\ client' = [client EXCEPT ![c].lobby = "gone"]
  BY DEF LeaveLobby
<1>2. /\ client' \in [Clients -> Client]
      /\ client'[c].lobby = "gone"
      /\ \A d \in Clients : client'[d].sock = client[d].sock /\ client'[d].at = client[d].at
      /\ \A d \in Clients \ {c} : client'[d] = client[d]
  BY <1>1 DEF Parts, Client
<1>3. /\ SlotsOK(players', tic')
      /\ \A s \in Slots : players'[s].ws = players[s].ws
      /\ SeatsAwaitLaunch'
  <2>1. CASE ~ ReservationIsStill(c)
    BY <1>1, <2>1 DEF LeaveLobby, Parts, SeatsAwaitLaunch
  <2>2. CASE ReservationIsStill(c) /\ client[c].at \in Slots
    <3> DEFINE s == client[c].at
               q == [players[s] EXCEPT !.token = NoClient, !.joining = FALSE,
                                       !.reservedAge = NotHeld]
    <3>1. RightSlot(q, tic) /\ q.ws = NoClient /\ players[s].ws = NoClient
      <4>1. RightSlot(players[s], tic) /\ tic \in Nat
        BY <2>2, NumbersAssumption DEF Parts, SlotsOK, RightSlot
      <4> QED  BY <2>2, <4>1, ReservedOK DEF ReservationIsStill
    <3>2. players' = [players EXCEPT ![s] = q]
      <4>1. players' = [players EXCEPT ![s].joining = FALSE, ![s].reservedAge = NotHeld,
                                       ![s].token = NoClient]
        BY <2>2 DEF LeaveLobby
      <4>2. players[s] \in Player(players[s].cmds)
        BY <2>2, PlayerFields DEF Parts, SlotsOK
      <4> QED  BY <2>2, <4>1, <4>2 DEF Parts, SlotsOK, Player
    <3> HIDE DEF q
    <3>3. /\ SlotsOK(players', tic')
          /\ players'[s] = q
          /\ \A r \in Slots \ {s} : players'[r] = players[r]
      BY <1>1, <2>2, <3>1, <3>2, OneSlotChanged
    <3>4. SeatsAwaitLaunch'
      <4>1. launchAge = NotLaunched => s \notin Seats
        BY <2>2 DEF Parts, SeatsAwaitLaunch, ReservationIsStill
      <4> QED  BY <1>1, <3>3, <4>1, SlotsAssumption DEF Parts, SeatsAwaitLaunch
    <3> QED  BY <3>1, <3>3, <3>4
  <2>3. CASE ReservationIsStill(c) /\ client[c].at \notin Slots
    <3>1. players' = players
      BY <2>3 DEF LeaveLobby, Parts, SlotsOK
    <3> QED  BY <1>1, <3>1 DEF Parts, SeatsAwaitLaunch
  <2> QED  BY <2>1, <2>2, <2>3
<1>4. Bindings' /\ Newcomers'
  BY <1>1, <1>2, <1>3, PlayerFields DEF Parts, Bindings, Newcomers, SlotsOK
<1>5. ~ over' => StreamUpTo(players, client, sent, tic)'
  BY <1>1, <1>2, <1>3 DEF Parts, StreamUpTo, Receives, Reads
<1> QED  BY <1>1, <1>2, <1>3, <1>4, <1>5, NothingOK
         DEF Parts, SlotsOK, SlotInv, CastOK, Nothing

\* A slot before the launch that is reserved or held is no seat.
LEMMA TakenIsNoSeat ==
  ASSUME Parts, NEW s \in Slots, launchAge = NotLaunched,
         players[s].token # NoClient \/ players[s].ws # NoClient \/ ~ players[s].ingame
  PROVE  s \notin Seats
BY DEF Parts, SeatsAwaitLaunch

\* A socket bound to the slot its token names, having been sent every tic.
LEMMA BoundInv ==
  ASSUME Parts, NEW c \in Clients, MayBind(c), NEW q, RightSlot(q, tic), q.ws = c,
         players' = [players EXCEPT ![client[c].at] = q],
         client' = [client EXCEPT ![c].sock = "open"],
         sent' = [sent EXCEPT ![c] = 0 .. tic - 1],
         cast' = Nothing, UNCHANGED <<tic, spectators, launchAge, over>>
  PROVE  Parts'
<1> DEFINE s == client[c].at
<1>1. /\ s \in Slots /\ players[s].ws = NoClient /\ players[s].token = c
      /\ client[c].sock = "none" /\ client[c] \in Client /\ c # NoClient
  BY SlotsAssumption DEF MayBind, Parts
<1>2. /\ SlotsOK(players', tic')
      /\ players'[s] = q
      /\ \A r \in Slots \ {s} : players'[r] = players[r]
  BY <1>1, OneSlotChanged
<1>3. /\ client' \in [Clients -> Client]
      /\ client'[c].sock = "open" /\ client'[c].at = s
      /\ client'[c].lobby = client[c].lobby
      /\ \A d \in Clients \ {c} : client'[d] = client[d]
  BY <1>1 DEF Parts, Client
<1>4. 0 .. tic - 1 \in SUBSET Tics
  BY NumbersAssumption DEF Parts, Tics
<1>5. /\ sent' \in [Clients -> SUBSET Tics] /\ sent'[c] = 0 .. tic - 1
      /\ \A d \in Clients \ {c} : sent'[d] = sent[d]
  BY <1>4 DEF Parts
<1> HIDE DEF s
<1>6. Bindings'
  BY <1>1, <1>2, <1>3, PlayerFields DEF Parts, Bindings, SlotsOK
<1>7. Newcomers'
  <2>1. client[c].lobby # "observer"
    BY <1>1, SlotsAssumption DEF Parts, Newcomers, s
  <2> QED  BY <1>3, <1>5, <2>1 DEF Parts, Newcomers
<1>8. SeatsAwaitLaunch'
  BY <1>1, <1>2, TakenIsNoSeat, SlotsAssumption DEF Parts, SeatsAwaitLaunch
<1>9. ~ over' => StreamUpTo(players, client, sent, tic)'
  BY <1>1, <1>2, <1>3, <1>5 DEF Parts, StreamUpTo, Receives, Reads, MayBind
<1> QED  BY <1>2, <1>3, <1>5, <1>6, <1>7, <1>8, <1>9, NothingOK
         DEF Parts, SlotsOK, SlotInv, CastOK, Nothing

\* A launched seat's bind preserves it: at tic 0 it has missed nothing.
LEMMA BindSeatInv ==
  ASSUME Parts, NEW c \in Clients, BindSeat(c)
  PROVE  Parts'
<1> DEFINE s == client[c].at
           q == Bound(players[s], c)
<1>1. MayBind(c) /\ s \in Slots /\ players[s].ingame  BY DEF BindSeat, MayBind
<1>2. RightSlot(players[s], tic) /\ tic \in Nat
  BY <1>1, NumbersAssumption DEF Parts, SlotsOK, RightSlot
<1>3. RightSlot(q, tic) /\ q.ws = c
  BY <1>1, <1>2, BoundOK DEF MayBind
<1>4. tic = 0
  BY <1>1, <1>2 DEF RightSlot, SlotInv, MayBind
<1>5. sent[c] = {}  BY <1>1 DEF MayBind, Parts, Newcomers
<1>6. sent' = [sent EXCEPT ![c] = 0 .. tic - 1]
  BY <1>4, <1>5 DEF BindSeat, Parts
<1>7. /\ players' = [players EXCEPT ![s] = q]
      /\ client' = [client EXCEPT ![c].sock = "open"]
      /\ cast' = Nothing /\ UNCHANGED <<tic, spectators, launchAge, over>>
  BY <1>1 DEF BindSeat, Parts, SlotsOK
<1> HIDE DEF q
<1> QED  BY <1>1, <1>3, <1>6, <1>7, BoundInv

\* A refused bind: the slot's record changes and the socket never opened.
LEMMA RefusedBindInv ==
  ASSUME Parts, NEW c \in Clients, MayBind(c), NEW q, RightSlot(q, tic),
         q.ws = NoClient, ~ players[client[c].at].ingame,
         players' = [players EXCEPT ![client[c].at] = q],
         client' = client \/ client' = [client EXCEPT ![c].sock = "closed"],
         cast' = Nothing, UNCHANGED <<tic, spectators, launchAge, over, sent>>
  PROVE  Parts'
<1> DEFINE s == client[c].at
<1>1. /\ s \in Slots /\ players[s].ws = NoClient /\ players[s].token = c
      /\ client[c].sock = "none" /\ client[c] \in Client /\ c # NoClient
  BY SlotsAssumption DEF MayBind, Parts
<1>2. /\ SlotsOK(players', tic')
      /\ players'[s] = q
      /\ \A r \in Slots \ {s} : players'[r] = players[r]
  BY <1>1, OneSlotChanged
<1>3. /\ client' \in [Clients -> Client]
      /\ client'[c].sock # "open" /\ client'[c].at = s
      /\ client'[c].lobby = client[c].lobby
      /\ client'[c].sock = "none" => sent[c] = {}
      /\ \A d \in Clients \ {c} : client'[d] = client[d]
  BY <1>1 DEF Parts, Client, Newcomers
<1> HIDE DEF s
<1>4. \A r \in Slots : players'[r].ws # NoClient =>
        players'[r].ws = players[r].ws /\ players[r].ws # c
  BY <1>1, <1>2 DEF Parts, Bindings
<1>5. Bindings'
  BY <1>3, <1>4, PlayerFields DEF Parts, Bindings, SlotsOK
<1>6. Newcomers'
  <2>1. client[c].lobby # "observer"
    BY <1>1, SlotsAssumption DEF Parts, Newcomers, s
  <2> QED  BY <1>3, <2>1 DEF Parts, Newcomers
<1>7. SeatsAwaitLaunch'
  BY <1>1, <1>2, TakenIsNoSeat, SlotsAssumption DEF Parts, SeatsAwaitLaunch
<1>8. ~ over' => StreamUpTo(players, client, sent, tic)'
  BY <1>1, <1>2, <1>3, <1>4 DEF Parts, StreamUpTo, Receives, Reads
<1> QED  BY <1>2, <1>3, <1>5, <1>6, <1>7, <1>8, NothingOK
         DEF Parts, SlotsOK, SlotInv, CastOK, Nothing

\* A drop-in's bind preserves it: refused, or sent the whole history.
LEMMA BindDropInInv ==
  ASSUME Parts, NEW c \in Clients, BindDropIn(c)
  PROVE  Parts'
<1> DEFINE s == client[c].at
           p == Bound(players[s], c)
           age == IF p.reservedAge = NotHeld THEN 0 ELSE p.reservedAge
           q == [p EXCEPT !.joining = TRUE, !.reservedAge = age]
           u == Unbound(p)
           v == [u EXCEPT !.joining = FALSE, !.reservedAge = NotHeld, !.token = NoClient]
<1>1. MayBind(c) /\ s \in Slots /\ ~ players[s].ingame /\ players[s].ws = NoClient
      /\ players[s].token = c
  BY DEF BindDropIn, MayBind
<1>2. RightSlot(players[s], tic) /\ tic \in Nat
  BY <1>1, NumbersAssumption DEF Parts, SlotsOK, RightSlot
<1>3. RightSlot(p, tic) /\ p.ws = c
  BY <1>1, <1>2, BoundOK
<1>4. p \in Player(p.cmds) /\ age \in Nat
  BY <1>3, PlayerFields DEF RightSlot
<1>5. RightSlot(q, tic) /\ q.ws = c
  <2> HIDE DEF p, age
  <2> QED  BY <1>2, <1>3, <1>4, JoiningOK
<1>6. RightSlot(u, tic) /\ u.ws = NoClient /\ RightSlot(v, tic) /\ v.ws = NoClient
  BY <1>1, <1>2, UnboundOK
<1>7. cast' = Nothing /\ UNCHANGED <<tic, spectators, launchAge, over>>
  BY DEF BindDropIn
<1>8. \/ /\ players' = [players EXCEPT ![s] = u]
         /\ UNCHANGED <<client, sent>>
      \/ /\ ~ HistoryFull
         /\ players' = [players EXCEPT ![s] = q]
         /\ client' = [client EXCEPT ![c].sock = "open"]
         /\ sent' = [sent EXCEPT ![c] = History]
      \/ /\ players' = [players EXCEPT ![s] = v]
         /\ client' = [client EXCEPT ![c].sock = "closed"]
         /\ UNCHANGED sent
  <2>1. q = [p EXCEPT !.joining = TRUE, !.reservedAge = IF @ = NotHeld THEN 0 ELSE @]
    BY <1>4 DEF Player
  <2> HIDE DEF q
  <2> QED  BY <2>1 DEF BindDropIn
<1>9. ~ HistoryFull => History = 0 .. tic - 1
  <2>1. ~ HistoryFull => Min({tic, MaxHistory}) = tic
    BY <1>2, NumbersAssumption DEF HistoryFull, Min
  <2> QED  BY <2>1 DEF History
<1> HIDE DEF p, q, u, v
<1>10. CASE players' = [players EXCEPT ![s] = u] /\ UNCHANGED <<client, sent>>
  BY <1>1, <1>6, <1>7, <1>10, RefusedBindInv
<1>11. CASE /\ ~ HistoryFull
            /\ players' = [players EXCEPT ![s] = q]
            /\ client' = [client EXCEPT ![c].sock = "open"]
            /\ sent' = [sent EXCEPT ![c] = History]
  BY <1>1, <1>5, <1>7, <1>9, <1>11, BoundInv
<1>12. CASE /\ players' = [players EXCEPT ![s] = v]
            /\ client' = [client EXCEPT ![c].sock = "closed"]
            /\ UNCHANGED sent
  BY <1>1, <1>6, <1>7, <1>12, RefusedBindInv
<1> QED  BY <1>8, <1>10, <1>11, <1>12

\* A frame, and the tics it lets the relay seal, preserve it.
LEMMA FrameInv ==
  ASSUME Parts, NEW c \in Clients, Frame(c)
  PROVE  Parts'
<1> DEFINE s == client[c].at
<1>1. /\ ~ over /\ s \in Slots /\ players[s].ws = c /\ c # NoClient
      /\ UNCHANGED <<spectators, launchAge, over, client>>
  BY SlotsAssumption DEF Frame, Mine
<1>2. RightSlot(players[s], tic) /\ tic \in Nat
  BY <1>1, NumbersAssumption DEF Parts, SlotsOK, RightSlot
<1> DEFINE h == Heard(players[s])
<1>3. /\ RightSlot(h, tic)
      /\ h.ws = players[s].ws /\ h.token = players[s].token
      /\ h.ingame = players[s].ingame /\ h.joined = players[s].joined
  BY <1>1, <1>2, HeardOK
<1>4. PICK t \in Tics, ev \in Events :
        IF t < tic \/ t > tic + Window
        THEN /\ players' = [players EXCEPT ![s] = h]
             /\ cast' = Nothing
             /\ UNCHANGED <<tic, sent>>
        ELSE Seal([players EXCEPT ![s] = Store(h, t, [by |-> c, ev |-> ev])])
  BY <1>1 DEF Frame, Parts, SlotsOK
<1> HIDE DEF h
<1>5. CASE t < tic \/ t > tic + Window
  <2>1. /\ players' = [players EXCEPT ![s] = h] /\ cast' = Nothing
        /\ UNCHANGED <<tic, sent>>
    BY <1>4, <1>5
  <2>2. /\ SlotsOK(players', tic')
        /\ players'[s] = h
        /\ \A r \in Slots \ {s} : players'[r] = players[r]
    BY <1>1, <1>3, <2>1, OneSlotChanged
  <2>3. \A r \in Slots : players'[r].ws = players[r].ws
    BY <1>3, <2>2
  <2>4. Bindings' /\ Newcomers'
    BY <1>1, <2>1, <2>3 DEF Parts, Bindings, Newcomers
  <2>5. SeatsAwaitLaunch'
    BY <1>1, <2>2, TakenIsNoSeat, SlotsAssumption DEF Parts, SeatsAwaitLaunch
  <2>6. ~ over' => StreamUpTo(players, client, sent, tic)'
    BY <1>1, <2>1, <2>3 DEF Parts, StreamUpTo, Receives, Reads
  <2> QED  BY <1>1, <2>1, <2>2, <2>4, <2>5, <2>6, NothingOK
           DEF Parts, SlotsOK, SlotInv, CastOK, Nothing
<1>6. CASE ~ (t < tic \/ t > tic + Window)
  <2> DEFINE cmd == [by |-> c, ev |-> ev]
             q == Store(h, t, cmd)
             pl == [players EXCEPT ![s] = q]
  <2>1. cmd \in Cmd  BY NumbersAssumption DEF Cmd
  <2>2. /\ RightSlot(q, tic)
        /\ q.ws = players[s].ws /\ q.token = players[s].token
        /\ q.ingame = players[s].ingame /\ q.joined = players[s].joined
    <3> HIDE DEF cmd
    <3> QED  BY <1>2, <1>3, <2>1, StoreOK
  <2> HIDE DEF q
  <2>3. /\ pl[s] = q /\ pl = [r \in Slots |-> pl[r]]
        /\ \A r \in Slots \ {s} : pl[r] = players[r]
    BY <1>1 DEF Parts, SlotsOK
  <2>4. Seal(pl)  BY <1>4, <1>6 DEF q
  <2> HIDE DEF pl
  <2>5. SlotsOK(pl, tic)
    BY <2>2, <2>3 DEF Parts, SlotsOK, RightSlot
  <2>6. \A r \in Slots : /\ pl[r].ws = players[r].ws /\ pl[r].token = players[r].token
                         /\ pl[r].ingame = players[r].ingame
                         /\ pl[r].joined = players[r].joined
    BY <2>2, <2>3
  <2>7. SameSockets(players, pl)
    BY <2>6 DEF SameSockets, AllJoined, Live
  <2> QED  BY <1>1, <2>4, <2>5, <2>6, <2>7, SealInv
<1> QED  BY <1>5, <1>6

\* A step that only takes sockets away, or sees them close, and seals nothing.
LEMMA ReleaseInv ==
  ASSUME Parts, SlotsOK(players', tic'), OnlyReleased(players, players'),
         client' \in [Clients -> Client], Fewer(client, client'),
         spectators' \subseteq spectators, cast' = Nothing, UNCHANGED <<tic, sent>>,
         over' \in BOOLEAN, over => over',
         launchAge' \in {NotLaunched} \cup Nat, SeatsAwaitLaunch'
  PROVE  Parts'
<1>1. Bindings'
  BY PlayerFields DEF Parts, Bindings, SlotsOK, OnlyReleased, Fewer
<1>2. Newcomers'
  BY DEF Parts, Newcomers, Fewer
<1>3. ~ over' => StreamUpTo(players, client, sent, tic)'
  BY SlotsAssumption DEF Parts, StreamUpTo, Receives, Reads, OnlyReleased, Fewer
<1>4. spectators' \in SUBSET Clients  BY DEF Parts
<1> QED  BY <1>1, <1>2, <1>3, <1>4, NothingOK DEF Parts, SlotsOK, SlotInv, CastOK, Nothing

\* Terminating a socket preserves it.
LEMMA RefuseInv ==
  ASSUME Parts, NEW c \in Clients, Refuse(c)
  PROVE  Parts'
<1>1. client' \in [Clients -> Client] /\ Fewer(client, client')
  BY DEF Refuse, Parts, Client, Fewer
<1>2. SlotsOK(players', tic') /\ OnlyReleased(players, players') /\ SeatsAwaitLaunch'
  BY DEF Refuse, Parts, SlotsOK, OnlyReleased, SeatsAwaitLaunch
<1> QED  BY <1>1, <1>2, ReleaseInv DEF Refuse, Parts

\* A socket's close, with the session's end when it was the last, preserves it.
LEMMA CloseInv ==
  ASSUME Parts, NEW c \in Clients, Close(c)
  PROVE  Parts'
<1> DEFINE s == client[c].at
           closed == [client EXCEPT ![c].sock = "closed"]
           left == [players EXCEPT ![s] = Left(@)]
<1>1. closed \in [Clients -> Client] /\ Fewer(client, closed)
  BY DEF Close, Parts, Client, Fewer
<1>2. client' \in [Clients -> Client] /\ Fewer(client, client')
  <2>1. client' = closed \/ \E C : client' = Closing(closed, C)
    BY DEF Close
  <2> HIDE DEF closed
  <2> QED  BY <1>1, <2>1, ClosingOK DEF Fewer
<1>3. SlotsOK(players', tic') /\ OnlyReleased(players, players') /\ SeatsAwaitLaunch'
  <2>1. CASE ~ Mine(c)
    BY <2>1 DEF Close, Parts, SlotsOK, OnlyReleased, SeatsAwaitLaunch
  <2>2. CASE Mine(c)
    <3> DEFINE q == Left(players[s])
    <3>1. s \in Slots /\ players[s].ws = c /\ c # NoClient /\ UNCHANGED <<tic, launchAge>>
      BY <2>2, SlotsAssumption DEF Mine, Close
    <3>2. RightSlot(players[s], tic) /\ tic \in Nat
      BY <3>1, NumbersAssumption DEF Parts, SlotsOK, RightSlot
    <3>3. RightSlot(q, tic) /\ q.ws = NoClient  BY <3>2, LeftOK
    <3>4. players' = [players EXCEPT ![s] = q]
      BY <2>2, <3>1 DEF Close, Parts, SlotsOK
    <3> HIDE DEF q
    <3>5. /\ SlotsOK(players', tic')
          /\ players'[s] = q
          /\ \A r \in Slots \ {s} : players'[r] = players[r]
      BY <3>1, <3>3, <3>4, OneSlotChanged
    <3>6. SeatsAwaitLaunch'
      BY <3>1, <3>5, TakenIsNoSeat, SlotsAssumption DEF Parts, SeatsAwaitLaunch
    <3> QED  BY <3>3, <3>5, <3>6 DEF OnlyReleased
  <2> QED  BY <2>1, <2>2
<1>4. /\ spectators' \subseteq spectators /\ cast' = Nothing
      /\ UNCHANGED <<tic, sent, launchAge>> /\ over' \in BOOLEAN /\ (over => over')
  BY DEF Close, Parts
<1> QED  BY <1>2, <1>3, <1>4, ReleaseInv DEF Parts

\* A spectator's arrival preserves it: its history is whole or refused.
LEMMA SpectateInv ==
  ASSUME Parts, NEW c \in Clients, Spectate(c)
  PROVE  Parts'
<1>1. /\ ~ HistoryFull /\ spectators' = spectators \cup {c}
      /\ client' = [client EXCEPT ![c].lobby = "spectator", ![c].sock = "open"]
      /\ sent' = [sent EXCEPT ![c] = History] /\ cast' = Nothing
      /\ UNCHANGED <<players, tic, launchAge, over>>
      /\ client[c].sock = "none" /\ client[c] \in Client /\ tic \in Nat /\ c # NoClient
  BY NumbersAssumption, SlotsAssumption DEF Spectate, Parts, Newcomers
<1>2. History = 0 .. tic - 1
  <2>1. Min({tic, MaxHistory}) = tic
    BY <1>1, NumbersAssumption DEF HistoryFull, Min
  <2> QED  BY <2>1 DEF History
<1>3. 0 .. tic - 1 \in SUBSET Tics
  BY NumbersAssumption DEF Parts, Tics
<1>4. /\ sent' \in [Clients -> SUBSET Tics] /\ sent'[c] = 0 .. tic - 1
      /\ \A d \in Clients \ {c} : sent'[d] = sent[d]
  BY <1>1, <1>2, <1>3 DEF Parts
<1>5. /\ client' \in [Clients -> Client]
      /\ client'[c].sock = "open" /\ client'[c].lobby = "spectator"
      /\ client'[c].at = client[c].at
      /\ \A d \in Clients \ {c} : client'[d] = client[d]
  BY <1>1 DEF Parts, Client
<1>6. Bindings' /\ Newcomers' /\ SeatsAwaitLaunch'
  BY <1>1, <1>4, <1>5, PlayerFields
  DEF Parts, Bindings, Newcomers, SeatsAwaitLaunch, SlotsOK
<1>7. ~ over' => StreamUpTo(players, client, sent, tic)'
  BY <1>1, <1>4, <1>5 DEF Parts, StreamUpTo, Receives, Reads
<1> QED  BY <1>1, <1>4, <1>5, <1>6, <1>7, NothingOK
         DEF Parts, SlotsOK, SlotInv, CastOK, Nothing

\* A sweep preserves it, whichever of its parts it reaches.
LEMMA SweepInv ==
  ASSUME Parts, NEW d \in Gaps, Sweep(d)
  PROVE  Parts'
<1> DEFINE age  == AtMost(launchAge + d, NeverJoined + 1)
           late == {s \in Slots : TimedOut(Aged(players[s], d))}
           cl   == Closing(client, {players[s].ws : s \in late})
           pl   == [s \in Slots |-> Absent(Reclaim(Aged(players[s], d)), age)]
<1>1. /\ ~ over /\ launchAge \in Nat /\ tic \in Nat /\ d \in Nat
      /\ launchAge' = age /\ spectators' = spectators
  BY NumbersAssumption DEF Sweep, Parts
<1>2. age \in Nat
  <2>1. launchAge + d \in Nat /\ NeverJoined + 1 \in Nat
    BY <1>1, NumbersAssumption
  <2> QED  BY <2>1, AtMostNat
<1>3. cl \in [Clients -> Client] /\ Fewer(client, cl)
  BY ClosingOK DEF Parts
<1>4. ASSUME NEW s \in Slots
      PROVE  RightSlot(pl[s], tic) /\ (pl[s].ws # NoClient => pl[s].ws = players[s].ws)
  <2> DEFINE p1 == Aged(players[s], d)
             p2 == Reclaim(p1)
             p3 == Absent(p2, age)
  <2>1. RightSlot(players[s], tic)  BY DEF Parts, SlotsOK, RightSlot
  <2>2. RightSlot(p1, tic) /\ p1.ws = players[s].ws
    BY <1>1, <2>1, AgedOK
  <2> HIDE DEF p1
  <2>3. RightSlot(p2, tic) /\ (p2.ws # NoClient => p2.ws = p1.ws)
    BY <1>1, <2>2, ReclaimOK
  <2> HIDE DEF p2, age
  <2>4. RightSlot(p3, tic) /\ p3.ws = p2.ws
    BY <1>1, <2>3, AbsentOK
  <2>5. pl[s] = p3  BY DEF p1, p2, age
  <2> QED  BY <2>2, <2>3, <2>4, <2>5
<1>5. SlotsOK(pl, tic) /\ OnlyReleased(players, pl)
  <2>1. pl = [s \in Slots |-> pl[s]]  OBVIOUS
  <2> HIDE DEF pl
  <2> QED  BY <1>4, <2>1 DEF SlotsOK, RightSlot, OnlyReleased
<1>6. \/ /\ players' = pl /\ over' = TRUE /\ cast' = Nothing /\ UNCHANGED <<tic, sent>>
         /\ client' = Closing(cl, {c \in Clients : Reads(pl, c)})
      \/ /\ players' = pl /\ client' = cl /\ cast' = Nothing
         /\ UNCHANGED <<tic, sent, over>>
      \/ AllJoined(pl) /\ SweepSeal(Silence(pl), cl) /\ UNCHANGED over
  BY DEF Sweep
<1>7. SeatsAwaitLaunch'
  BY <1>1, <1>2 DEF SeatsAwaitLaunch, NotLaunched
<1> HIDE DEF age, late, cl, pl
<1>8. CASE /\ players' = pl /\ over' = TRUE /\ cast' = Nothing /\ UNCHANGED <<tic, sent>>
           /\ client' = Closing(cl, {c \in Clients : Reads(pl, c)})
  <2>1. client' \in [Clients -> Client] /\ Fewer(client, client')
    BY <1>3, <1>8, ClosingOK DEF Fewer
  <2> QED  BY <1>1, <1>2, <1>5, <1>7, <1>8, <2>1, ReleaseInv
<1>9. CASE /\ players' = pl /\ client' = cl /\ cast' = Nothing
           /\ UNCHANGED <<tic, sent, over>>
  BY <1>1, <1>2, <1>3, <1>5, <1>7, <1>9, ReleaseInv DEF Parts
<1>10. CASE AllJoined(pl) /\ SweepSeal(Silence(pl), cl) /\ UNCHANGED over
  <2> DEFINE ql == Silence(pl)
  <2>1. SlotsOK(ql, tic) /\ AllJoined(ql) /\ \A s \in Slots : ql[s].ws = pl[s].ws
    BY <1>1, <1>5, <1>10, SilenceOK DEF SameSockets
  <2> HIDE DEF ql
  <2>2. OnlyReleased(players, ql)
    BY <1>5, <2>1 DEF OnlyReleased
  <2>3. StreamUpTo(ql, cl, sent, tic)
    BY <1>1, <1>3, <2>2, StreamOfFewer, SlotsAssumption DEF Parts
  <2>4. SweepSeal(ql, cl)  BY <1>10 DEF ql
  <2>5. /\ tic' \in 0 .. MaxTic
        /\ SlotsOK(players', tic')
        /\ \A s \in Slots : players'[s].ws = ql[s].ws
        /\ CastOK(cast')
        /\ client' \in [Clients -> Client] /\ Fewer(cl, client')
        /\ sent' \in [Clients -> SUBSET Tics]
        /\ StreamUpTo(players', client', sent', tic')
        /\ \A c \in Clients : cl[c].sock # "open" => sent'[c] = sent[c]
    BY <1>3, <2>1, <2>3, <2>4, SweepSealOK DEF Parts
  <2>6. Fewer(client, client') /\ OnlyReleased(players, players')
    BY <1>3, <2>2, <2>5 DEF Fewer, OnlyReleased
  <2>7. Bindings'
    BY <2>5, <2>6, PlayerFields DEF Parts, Bindings, SlotsOK, OnlyReleased, Fewer
  <2>8. Newcomers'
    BY <1>3, <2>5, <2>6 DEF Parts, Newcomers, Fewer
  <2>9. StreamUpTo(players, client, sent, tic)'
    BY <1>1, <2>5 DEF StreamUpTo, Receives, Reads
  <2> QED  BY <1>1, <1>2, <1>7, <1>10, <2>5, <2>7, <2>8, <2>9
           DEF Parts, SlotsOK, SlotInv, CastOK
<1> QED  BY <1>6, <1>8, <1>9, <1>10

\* A step that changes nothing preserves it.
LEMMA StutterInv == Parts /\ UNCHANGED vars => Parts'
<1> SUFFICES ASSUME Parts, UNCHANGED vars  PROVE Parts'
  OBVIOUS
<1>1. /\ players' = players /\ tic' = tic /\ cast' = cast /\ over' = over
      /\ spectators' = spectators /\ launchAge' = launchAge
      /\ client' = client /\ sent' = sent
  BY DEF vars
<1>2. SlotsOK(players, tic)' /\ CastOK(cast)'
  BY <1>1 DEF Parts, SlotsOK, SlotInv, CastOK
<1>3. Bindings' /\ Newcomers' /\ SeatsAwaitLaunch'
  BY <1>1 DEF Parts, Bindings, Newcomers, SeatsAwaitLaunch
<1>4. (~ over => StreamUpTo(players, client, sent, tic))'
  BY <1>1 DEF Parts, StreamUpTo, Receives, Reads
<1> QED  BY <1>1, <1>2, <1>3, <1>4 DEF Parts

\* One step keeps the invariant, whichever handler it is.
LEMMA StepInv == IInv /\ [Next]_vars => IInv'
<1> SUFFICES ASSUME Parts, [Next]_vars  PROVE Parts'
  BY PartsOfInv, PartsOfInvNext
<1>1. CASE Launch  BY <1>1, LaunchInv
<1>2. CASE SweepStep  BY <1>2, SweepInv DEF SweepStep
<1>3. CASE ClientStep
  <2> SUFFICES ASSUME NEW c \in Clients,
                      \/ Reserve(c) \/ LeaveLobby(c) \/ BindSeat(c) \/ BindDropIn(c)
                      \/ Frame(c) \/ Refuse(c) \/ Close(c) \/ Spectate(c)
               PROVE  Parts'
    BY <1>3 DEF ClientStep
  <2> QED  BY ReserveInv, LeaveLobbyInv, BindSeatInv, BindDropInInv, FrameInv,
              RefuseInv, CloseInv, SpectateInv
<1>4. CASE UNCHANGED vars  BY <1>4, StutterInv
<1> QED  BY <1>1, <1>2, <1>3, <1>4 DEF Next

-----------------------------------------------------------------------------
(* The theorems.                                                           *)

\* IInv holds in every reachable state of the relay, so every part of it does.
THEOREM Invariance == Spec => []IInv
BY InitInv, StepInv, PTL DEF Spec

\* Every variable, and every slot's record, keeps its type; a cmd stored or
\* sealed is always one the relay was sent, or the blank one.
THEOREM Typing == Spec => []TypeOK
<1>1. IInv => TypeOK  BY DEF IInv
<1> QED  BY <1>1, Invariance, PTL

\* A socket that is open and holds a slot, or watches, was sent every sealed tic.
THEOREM WholeStreams == Spec => []StreamWhole
<1>1. IInv => StreamWhole  BY DEF IInv
<1> QED  BY <1>1, Invariance, PTL

\* A slot's socket is the holder of its current token, and of no other slot's.
THEOREM TokensHold == Spec => []HolderHasToken
<1>1. IInv => HolderHasToken
  BY DEF IInv, HolderHasToken, SlotInv, Bindings
<1> QED  BY <1>1, Invariance, PTL

\* No slot is in the game after its socket has gone.
THEOREM NoGhosts == Spec => []NoGhost
<1>1. IInv => NoGhost
  BY DEF IInv, NoGhost, SlotInv, Live
<1> QED  BY <1>1, Invariance, PTL

\* A drop-in scheduled is ahead of the frontier, with its socket, not live yet.
THEOREM DropInsAhead == Spec => []ScheduledAhead
<1>1. IInv => ScheduledAhead
  <2> SUFFICES ASSUME IInv, NEW s \in Slots, players[s].joinAt # NotScheduled
               PROVE  /\ players[s].ws # NoClient /\ players[s].joining
                      /\ ~ players[s].ingame
                      /\ players[s].joinAt \in tic .. tic + JoinMargin
    BY DEF ScheduledAhead
  <2>1. SlotInv(players[s], tic) /\ players[s].joinAt \in Nat /\ tic \in Nat
    BY PlayerFields, NumbersAssumption DEF IInv, TypeOK
  <2> QED  BY <2>1, NumbersAssumption DEF SlotInv
<1> QED  BY <1>1, Invariance, PTL

\* No cmd the relay supplies for a player repeats a one-tic event.
THEOREM EventsOnce == Spec => []EventsAreSent
<1>1. IInv => EventsAreSent  BY DEF IInv
<1> QED  BY <1>1, Invariance, PTL

-----------------------------------------------------------------------------
(* What the relay supplies: for whom, and when.                            *)

\* A player that is scheduled, or judged silent, has sent a frame.
SentFirst(p) == p.joinAt # NotScheduled \/ p.silent => p.sentAny
AllSentFirst(pl) == \A s \in Slots : SentFirst(pl[s])

\* Binding, hearing, storing, leaving, ageing and the sweep's judgements keep
\* that of one slot's record.
LEMMA SentFirstKept ==
  ASSUME NEW p, IsPlayer(p), SentFirst(p), NEW c, NEW t, NEW d
  PROVE  /\ SentFirst(Bound(p, c)) /\ SentFirst(Heard(p)) /\ SentFirst(Left(p))
         /\ SentFirst(Store(p, t, c)) /\ SentFirst(Aged(p, d)) /\ SentFirst(Reclaim(p))
         /\ SentFirst(Absent(p, d))
<1>1. p \in Player(p.cmds)  BY DEF IsPlayer
<1>2. SentFirst(Bound(p, c))  BY <1>1 DEF SentFirst, Bound, Player
<1>3. SentFirst(Heard(p))  BY <1>1 DEF SentFirst, Heard, Player
<1>4. SentFirst(Left(p))  BY <1>1 DEF SentFirst, Left, Player, NotScheduled
<1>5. SentFirst(Store(p, t, c))  BY <1>1 DEF SentFirst, Store, Player
<1>6. SentFirst(Aged(p, d))  BY <1>1 DEF SentFirst, Aged, Player
<1>7. SentFirst(Reclaim(p))  BY <1>1 DEF SentFirst, Reclaim, Player, NotScheduled
<1>8. SentFirst(Absent(p, d))  BY <1>1 DEF SentFirst, Absent, Player
<1> QED  BY <1>2, <1>3, <1>4, <1>5, <1>6, <1>7, <1>8

\* What a seal, a judgement of silence and a drop leave of a slot's record.
LEMMA SealKeeps ==
  ASSUME NEW pl, NEW t0, NEW k, NEW s \in Slots, IsPlayer(pl[s])
  PROVE  LET q == AfterSeal(pl, t0, k)[s] IN
         /\ q.sentAny = pl[s].sentAny /\ q.silent = pl[s].silent
         /\ q.seenAge = IF Own(pl[s], t0, k - 1) # {} THEN 0 ELSE pl[s].seenAge
         /\ q.ingame = (pl[s].ingame \/ Due(pl[s], k))
         /\ q.joinAt = IF Due(pl[s], k) THEN NotScheduled ELSE pl[s].joinAt
         /\ DOMAIN q.cmds = DOMAIN pl[s].cmds \ (t0 .. k - 1)
<1>1. pl[s] \in Player(pl[s].cmds)  BY DEF IsPlayer
<1> QED  BY <1>1 DEF AfterSeal, Player

LEMMA JudgedKeeps ==
  ASSUME NEW pl, NEW s \in Slots, IsPlayer(pl[s]), NEW k
  PROVE  /\ Silence(pl)[s].sentAny = pl[s].sentAny
         /\ Silence(pl)[s].silent => pl[s].silent \/ pl[s].sentAny
         /\ Silence(pl)[s].ingame = pl[s].ingame
         /\ Silence(pl)[s].joinAt = pl[s].joinAt
         /\ Dropped(pl, k)[s].sentAny = pl[s].sentAny
         /\ Dropped(pl, k)[s].silent = pl[s].silent
         /\ Dropped(pl, k)[s].ingame => pl[s].ingame
         /\ Dropped(pl, k)[s].joinAt = pl[s].joinAt
<1>1. pl[s] \in Player(pl[s].cmds)  BY DEF IsPlayer
<1>2. Dropped(pl, k)[s] = pl[s] \/ Dropped(pl, k)[s] = [pl[s] EXCEPT !.ingame = FALSE]
  BY DEF Dropped
<1>3. /\ Dropped(pl, k)[s].sentAny = pl[s].sentAny
      /\ Dropped(pl, k)[s].silent = pl[s].silent
      /\ Dropped(pl, k)[s].ingame => pl[s].ingame
      /\ Dropped(pl, k)[s].joinAt = pl[s].joinAt
  BY <1>1, <1>2 DEF Player
<1> DEFINE n == AtMost(pl[s].quiet + 1, QuietSweeps)
           b == pl[s].silent \/ (pl[s].quiet + 1 >= QuietSweeps /\ pl[s].heardAge > Grace)
<1>4. \/ Silence(pl)[s] = pl[s]
      \/ pl[s].sentAny /\ Silence(pl)[s] = [pl[s] EXCEPT !.quiet = n, !.silent = b]
  BY <1>1 DEF Silence, Player
<1> HIDE DEF n, b
<1>5. /\ Silence(pl)[s].sentAny = pl[s].sentAny
      /\ Silence(pl)[s].silent => pl[s].silent \/ pl[s].sentAny
      /\ Silence(pl)[s].ingame = pl[s].ingame
      /\ Silence(pl)[s].joinAt = pl[s].joinAt
  BY <1>1, <1>4 DEF Player
<1> QED  BY <1>3, <1>5

\* So none of the three changes who has sent first.
LEMMA SentFirstOfAll ==
  ASSUME NEW pl, \A s \in Slots : IsPlayer(pl[s]), AllSentFirst(pl), NEW t0, NEW k
  PROVE  /\ AllSentFirst(AfterSeal(pl, t0, k)) /\ AllSentFirst(Silence(pl))
         /\ AllSentFirst(Dropped(pl, k))
<1>1. AllSentFirst(AfterSeal(pl, t0, k))
  BY SealKeeps DEF AllSentFirst, SentFirst, NotScheduled
<1>2. AllSentFirst(Silence(pl)) /\ AllSentFirst(Dropped(pl, k))
  BY JudgedKeeps DEF AllSentFirst, SentFirst
<1> QED  BY <1>1, <1>2

\* What a sweep seals: its first seal to k1, and then either nothing more, with
\* or without drops, or one tic more of the players left and a seal from there.
Once(pl, k1) == AfterSeal(pl, tic, k1)
Less(pl, k1) == Dropped(Once(pl, k1), k1)
More(pl, k1) == AfterSeal(Less(pl, k1), k1, k1 + 1)

SealsOnly(pl, k1) ==
  /\ players' = Once(pl, k1) \/ players' = Less(pl, k1)
  /\ cast' = Sealed(pl, tic, k1)

Forces(pl, k1, k2) ==
  /\ ~ InFlight(Less(pl, k1), k1)
  /\ SealStops(More(pl, k1), k1 + 1, k2)
  /\ players' = AfterSeal(More(pl, k1), k1 + 1, k2)
  /\ DOMAIN cast' = tic .. k2 - 1
  /\ \A t \in tic .. k2 - 1 :
       /\ t < k1 => cast'[t] = Bundle(pl, tic, t)
       /\ t = k1 => cast'[t] = Bundle(Less(pl, k1), k1, t)
       /\ t > k1 => cast'[t] = Bundle(More(pl, k1), k1 + 1, t)

LEMMA SweepShape ==
  ASSUME NEW pl, NEW cl, tic \in Nat, SweepSeal(pl, cl)
  PROVE  \E k1 \in tic .. MaxTic :
           /\ SealStops(pl, tic, k1)
           /\ SealsOnly(pl, k1) \/ \E k2 \in k1 + 1 .. MaxTic : Forces(pl, k1, k2)
<1>0. MaxTic \in Nat  BY NumbersAssumption
<1>1. PICK k1 \in tic .. MaxTic : SweepSeal(pl, cl)!(k1)
  BY DEF SweepSeal
<1> DEFINE b1 == Sealed(pl, tic, k1)
<1>2. SealStops(pl, tic, k1)  BY <1>1
<1>3. \/ SealsOnly(pl, k1)
      \/ /\ ~ InFlight(Less(pl, k1), k1)
         /\ \E k2 \in k1 + 1 .. MaxTic :
              /\ SealStops(More(pl, k1), k1 + 1, k2)
              /\ players' = AfterSeal(More(pl, k1), k1 + 1, k2)
              /\ cast' = [t \in tic .. k2 - 1 |->
                            CASE t < k1 -> b1[t]
                              [] t = k1 -> Bundle(Less(pl, k1), k1, t)
                              [] t > k1 -> Bundle(More(pl, k1), k1 + 1, t)]
  BY <1>1 DEF SealsOnly, Once, Less, More
<1>4. ASSUME NEW k2 \in k1 + 1 .. MaxTic, NEW t \in tic .. k2 - 1,
             cast' = [u \in tic .. k2 - 1 |->
                        CASE u < k1 -> b1[u]
                          [] u = k1 -> Bundle(Less(pl, k1), k1, u)
                          [] u > k1 -> Bundle(More(pl, k1), k1 + 1, u)]
      PROVE  /\ t < k1 => cast'[t] = Bundle(pl, tic, t)
             /\ t = k1 => cast'[t] = Bundle(Less(pl, k1), k1, t)
             /\ t > k1 => cast'[t] = Bundle(More(pl, k1), k1 + 1, t)
  <2>1. t \in Int /\ k1 \in Int /\ (t < k1 => b1[t] = Bundle(pl, tic, t))
    BY <1>0 DEF Sealed
  <2> HIDE DEF b1
  <2>2. cast'[t] = CASE t < k1 -> b1[t]
                     [] t = k1 -> Bundle(Less(pl, k1), k1, t)
                     [] t > k1 -> Bundle(More(pl, k1), k1 + 1, t)
    BY <1>4
  <2>3. CASE t < k1
    <3>1. cast'[t] = b1[t]  BY <2>1, <2>2, <2>3
    <3> QED  BY <2>1, <2>3, <3>1
  <2>4. CASE t = k1
    <3>1. cast'[t] = Bundle(Less(pl, k1), k1, t)  BY <2>1, <2>2, <2>4
    <3> QED  BY <2>1, <2>4, <3>1
  <2>5. CASE t > k1
    <3>1. cast'[t] = Bundle(More(pl, k1), k1 + 1, t)  BY <2>1, <2>2, <2>5
    <3> QED  BY <2>1, <2>5, <3>1
  <2> QED  BY <2>1, <2>3, <2>4, <2>5
<1>5. SealsOnly(pl, k1) \/ \E k2 \in k1 + 1 .. MaxTic : Forces(pl, k1, k2)
  <2>1. ASSUME NEW k2 \in k1 + 1 .. MaxTic, ~ InFlight(Less(pl, k1), k1),
               SealStops(More(pl, k1), k1 + 1, k2),
               players' = AfterSeal(More(pl, k1), k1 + 1, k2),
               cast' = [t \in tic .. k2 - 1 |->
                          CASE t < k1 -> b1[t]
                            [] t = k1 -> Bundle(Less(pl, k1), k1, t)
                            [] t > k1 -> Bundle(More(pl, k1), k1 + 1, t)]
        PROVE  Forces(pl, k1, k2)
    <3>1. DOMAIN cast' = tic .. k2 - 1  BY <2>1
    <3> HIDE DEF b1
    <3> QED  BY <1>4, <2>1, <3>1 DEF Forces
  <2> HIDE DEF b1
  <2> QED  BY <1>3, <2>1
<1> QED  BY <1>2, <1>5

\* The slots in a sweep, from one part of it to the next.
LEMMA SweptSlots ==
  ASSUME NEW pl, tic \in Nat, SlotsOK(pl, tic), AllJoined(pl), NEW k1 \in tic .. MaxTic
  PROVE  /\ SlotsOK(Once(pl, k1), k1) /\ AllJoined(Once(pl, k1))
         /\ SlotsOK(Less(pl, k1), k1) /\ AllJoined(Less(pl, k1))
         /\ SlotsOK(More(pl, k1), k1 + 1) /\ AllJoined(More(pl, k1))
<1>1. k1 \in Nat /\ tic <= k1 /\ k1 + 1 \in Nat /\ k1 <= k1 + 1
  BY NumbersAssumption
<1>2. SlotsOK(Once(pl, k1), k1) /\ AllJoined(Once(pl, k1))
  BY <1>1, AfterSealOK DEF Once
<1>3. SlotsOK(Less(pl, k1), k1) /\ AllJoined(Less(pl, k1))
  BY <1>1, <1>2, DroppedOK DEF Less, SameSockets
<1>4. SlotsOK(More(pl, k1), k1 + 1) /\ AllJoined(More(pl, k1))
  BY <1>1, <1>3, AfterSealOK DEF More
<1> QED  BY <1>2, <1>3, <1>4

\* Nothing is sealed while a slot in the game is still to connect.
LEMMA SealedJoined ==
  ASSUME tic \in Nat, NEW pl, SlotsOK(pl, tic), NEW t \in DOMAIN cast'
  PROVE  /\ Seal(pl) => AllJoined(players')
         /\ \A cl : AllJoined(pl) /\ SweepSeal(pl, cl) => AllJoined(players')
<1>0. MaxTic \in Nat  BY NumbersAssumption
<1>1. ASSUME Seal(pl)  PROVE AllJoined(players')
  <2>1. PICK k \in tic .. MaxTic :
          /\ SealStops(pl, tic, k) /\ players' = AfterSeal(pl, tic, k)
          /\ cast' = Sealed(pl, tic, k)
    BY <1>1 DEF Seal
  <2>2. k \in Nat /\ tic <= k /\ k # tic
    BY <1>0, <2>1 DEF Sealed
  <2>3. AllJoined(pl)  BY <2>1, <2>2 DEF SealStops
  <2> QED  BY <2>1, <2>2, <2>3, AfterSealOK
<1>2. ASSUME NEW cl, AllJoined(pl), SweepSeal(pl, cl)  PROVE AllJoined(players')
  <2>1. PICK k1 \in tic .. MaxTic :
          SealsOnly(pl, k1) \/ \E k2 \in k1 + 1 .. MaxTic : Forces(pl, k1, k2)
    BY <1>2, SweepShape
  <2>2. /\ AllJoined(Once(pl, k1)) /\ AllJoined(Less(pl, k1))
        /\ AllJoined(More(pl, k1)) /\ SlotsOK(More(pl, k1), k1 + 1)
    BY <1>2, SweptSlots
  <2>3. ASSUME NEW k2 \in k1 + 1 .. MaxTic
        PROVE  AllJoined(AfterSeal(More(pl, k1), k1 + 1, k2))
    <3>1. k1 + 1 \in Nat /\ k2 \in Nat /\ k1 + 1 <= k2  BY <1>0
    <3> QED  BY <2>2, <3>1, AfterSealOK
  <2> QED  BY <2>1, <2>2, <2>3 DEF SealsOnly, Forces
<1> QED  BY <1>1, <1>2

\* A tic of one seal lacks a live player's cmd only if that player is silent;
\* one who has just been promoted was not waited for.
LEMMA SealFabricates ==
  ASSUME NEW pl, NEW t0 \in Nat, NEW k \in Nat, SealStops(pl, t0, k),
         NEW t \in t0 .. k - 1,
         NEW s \in Bundle(pl, t0, t).mask \cap Bundle(pl, t0, t).fab
  PROVE  /\ s \in Slots /\ AllJoined(pl)
         /\ s \in LiveAt(pl, t) => pl[s].silent
<1>1. s \in Slots /\ s \notin Sent(pl, t)  BY DEF Bundle
<1>2. AllJoined(pl) /\ CanSeal(pl, t)  BY DEF SealStops
<1> QED  BY <1>1, <1>2 DEF CanSeal

\* Whom a bundle counts in is live, or scheduled.
LEMMA MaskIsLive ==
  ASSUME NEW pl, NEW t0, NEW t
  PROVE  /\ Bundle(pl, t0, t).mask = LiveAt(pl, t + 1)
         /\ \A s \in LiveAt(pl, t + 1) : pl[s].ingame \/ pl[s].joinAt # NotScheduled
BY DEF Bundle, LiveAt, Due

HeardFirst == AllSentFirst(players)

\* One slot's record that keeps the rule among others that do.
LEMMA SentFirstOne ==
  ASSUME Parts, HeardFirst, NEW s \in Slots, NEW q, SentFirst(q)
  PROVE  AllSentFirst([players EXCEPT ![s] = q])
BY DEF Parts, SlotsOK, HeardFirst, AllSentFirst

\* A frame is heard, or heard, stored and sealed.
LEMMA FramePlan ==
  ASSUME Parts, HeardFirst, NEW c \in Clients, Frame(c)
  PROVE  \/ cast' = Nothing /\ HeardFirst'
         \/ \E pl : /\ SlotsOK(pl, tic) /\ AllSentFirst(pl) /\ Seal(pl)
                    /\ \A r \in Slots : pl[r].ingame = players[r].ingame
<1> DEFINE s == client[c].at
           h == Heard(players[s])
<1>1. s \in Slots /\ players[s].ws = c /\ c # NoClient
  BY SlotsAssumption DEF Frame, Mine
<1>2. RightSlot(players[s], tic) /\ tic \in Nat /\ SentFirst(players[s])
  BY <1>1, NumbersAssumption DEF Parts, SlotsOK, RightSlot, HeardFirst, AllSentFirst
<1>3. RightSlot(h, tic) /\ h.ingame = players[s].ingame
  BY <1>1, <1>2, HeardOK
<1>4. SentFirst(h)  BY <1>2, SentFirstKept DEF RightSlot
<1>5. PICK t \in Tics, ev \in Events :
        IF t < tic \/ t > tic + Window
        THEN players' = [players EXCEPT ![s] = h] /\ cast' = Nothing
        ELSE Seal([players EXCEPT ![s] = Store(h, t, [by |-> c, ev |-> ev])])
  BY <1>1 DEF Frame, Parts, SlotsOK
<1> HIDE DEF h
<1>6. CASE t < tic \/ t > tic + Window
  BY <1>1, <1>4, <1>5, <1>6, SentFirstOne DEF HeardFirst, AllSentFirst, SentFirst
<1>7. CASE ~ (t < tic \/ t > tic + Window)
  <2> DEFINE cmd == [by |-> c, ev |-> ev]
             q == Store(h, t, cmd)
             pl == [players EXCEPT ![s] = q]
  <2>1. cmd \in Cmd  BY NumbersAssumption DEF Cmd
  <2>2. RightSlot(q, tic) /\ q.ingame = players[s].ingame
    <3> HIDE DEF cmd
    <3> QED  BY <1>2, <1>3, <2>1, StoreOK
  <2>3. SentFirst(q)
    <3> HIDE DEF cmd
    <3> QED  BY <1>3, <1>4, SentFirstKept DEF RightSlot
  <2> HIDE DEF q
  <2>4. /\ pl[s] = q /\ pl = [r \in Slots |-> pl[r]]
        /\ \A r \in Slots \ {s} : pl[r] = players[r]
    BY <1>1 DEF Parts, SlotsOK
  <2>5. AllSentFirst(pl)  BY <1>1, <2>3, SentFirstOne
  <2>6. Seal(pl)  BY <1>5, <1>7 DEF q
  <2> HIDE DEF pl
  <2>7. SlotsOK(pl, tic) /\ \A r \in Slots : pl[r].ingame = players[r].ingame
    BY <2>2, <2>4 DEF Parts, SlotsOK, RightSlot
  <2> QED  BY <2>5, <2>6, <2>7
<1> QED  BY <1>6, <1>7

\* A sweep seals nothing, or seals when everybody live has sent or the launch
\* grace is over.
LEMMA SweepPlan ==
  ASSUME Parts, HeardFirst, NEW d \in Gaps, Sweep(d)
  PROVE  \/ cast' = Nothing /\ HeardFirst'
         \/ \E pl, cl :
              /\ SlotsOK(pl, tic) /\ AllJoined(pl) /\ AllSentFirst(pl) /\ SweepSeal(pl, cl)
              /\ \A s \in Slots : players[s].ingame => pl[s].joinAt = NotScheduled
              /\ launchAge' >= NeverJoined \/ \A s \in Live(pl) : pl[s].sentAny
<1> DEFINE age  == AtMost(launchAge + d, NeverJoined + 1)
           late == {s \in Slots : TimedOut(Aged(players[s], d))}
           cl   == Closing(client, {players[s].ws : s \in late})
           pl   == [s \in Slots |-> Absent(Reclaim(Aged(players[s], d)), age)]
<1>1. tic \in Nat /\ d \in Nat /\ launchAge' = age
  BY NumbersAssumption DEF Sweep, Parts
<1>2. ASSUME NEW s \in Slots
      PROVE  /\ RightSlot(pl[s], tic) /\ SentFirst(pl[s])
             /\ players[s].ingame => pl[s].joinAt = NotScheduled
  <2> DEFINE p1 == Aged(players[s], d)
             p2 == Reclaim(p1)
             p3 == Absent(p2, age)
  <2>1. RightSlot(players[s], tic) /\ SentFirst(players[s])
    BY DEF Parts, SlotsOK, RightSlot, HeardFirst, AllSentFirst
  <2>2. RightSlot(p1, tic) /\ SentFirst(p1) /\ p1.joinAt = players[s].joinAt
    <3>1. players[s] \in Player(players[s].cmds)  BY <2>1 DEF RightSlot, IsPlayer
    <3> QED  BY <1>1, <2>1, <3>1, AgedOK, SentFirstKept DEF RightSlot, Aged, Player
  <2> HIDE DEF p1
  <2>3. /\ RightSlot(p2, tic) /\ SentFirst(p2)
        /\ p2.joinAt = NotScheduled \/ p2.joinAt = p1.joinAt
    <3>1. p1 \in Player(p1.cmds)  BY <2>2 DEF RightSlot, IsPlayer
    <3>2. p2.joinAt = NotScheduled \/ p2.joinAt = p1.joinAt
      BY <3>1 DEF Reclaim, Player
    <3> QED  BY <1>1, <2>2, <3>2, ReclaimOK, SentFirstKept DEF RightSlot
  <2> HIDE DEF p2, age
  <2>4. RightSlot(p3, tic) /\ SentFirst(p3) /\ p3.joinAt = p2.joinAt
    <3>1. p2 \in Player(p2.cmds)  BY <2>3 DEF RightSlot, IsPlayer
    <3> QED  BY <1>1, <2>3, <3>1, AbsentOK, SentFirstKept DEF RightSlot, Absent, Player
  <2>5. pl[s] = p3  BY DEF p1, p2, age
  <2>6. players[s].ingame => players[s].joinAt = NotScheduled
    BY <2>1 DEF RightSlot, SlotInv
  <2> QED  BY <2>2, <2>3, <2>4, <2>5, <2>6
<1>3. pl = [s \in Slots |-> pl[s]]  OBVIOUS
<1>4. \/ players' = pl /\ cast' = Nothing
      \/ AllJoined(pl) /\ Rolling(pl, age) /\ SweepSeal(Silence(pl), cl)
  BY DEF Sweep
<1> HIDE DEF pl, cl, age
<1>5. SlotsOK(pl, tic) /\ AllSentFirst(pl) /\ \A s \in Slots : IsPlayer(pl[s])
  BY <1>2, <1>3 DEF SlotsOK, RightSlot, AllSentFirst
<1>6. CASE players' = pl /\ cast' = Nothing
  BY <1>5, <1>6 DEF HeardFirst, AllSentFirst, SentFirst
<1>7. CASE AllJoined(pl) /\ Rolling(pl, age) /\ SweepSeal(Silence(pl), cl)
  <2>1. SlotsOK(Silence(pl), tic) /\ AllJoined(Silence(pl))
    BY <1>1, <1>5, <1>7, SilenceOK DEF SameSockets
  <2>2. AllSentFirst(Silence(pl))  BY <1>5, SentFirstOfAll
  <2>3. \A s \in Slots : /\ Silence(pl)[s].sentAny = pl[s].sentAny
                         /\ Silence(pl)[s].ingame = pl[s].ingame
                         /\ Silence(pl)[s].joinAt = pl[s].joinAt
    BY <1>5, JudgedKeeps
  <2>4. launchAge' >= NeverJoined \/ \A s \in Live(Silence(pl)) : Silence(pl)[s].sentAny
    BY <1>1, <1>7, <2>3 DEF Rolling, Live
  <2>5. \A s \in Slots : players[s].ingame => Silence(pl)[s].joinAt = NotScheduled
    BY <1>2, <2>3
  <2> QED  BY <1>7, <2>1, <2>2, <2>4, <2>5
<1> QED  BY <1>4, <1>6, <1>7

\* No other handler broadcasts, or makes anybody silent or scheduled.
LEMMA QuietPlan ==
  ASSUME Parts, HeardFirst,
         \/ Launch
         \/ \E c \in Clients : \/ Reserve(c) \/ LeaveLobby(c) \/ BindSeat(c) \/ BindDropIn(c)
                               \/ Refuse(c) \/ Close(c) \/ Spectate(c)
  PROVE  cast' = Nothing /\ HeardFirst'
<1>1. /\ players = [s \in Slots |-> players[s]]
      /\ \A s \in Slots : /\ IsPlayer(players[s]) /\ players[s] \in Player(players[s].cmds)
                          /\ SentFirst(players[s])
  BY DEF Parts, SlotsOK, HeardFirst, AllSentFirst, IsPlayer
<1>2. ASSUME NEW s \in Slots, NEW q, SentFirst(q), players' = [players EXCEPT ![s] = q]
      PROVE  HeardFirst'
  BY <1>2, SentFirstOne DEF HeardFirst, AllSentFirst, SentFirst
<1>3. ASSUME players' = players  PROVE HeardFirst'
  BY <1>3 DEF HeardFirst, AllSentFirst, SentFirst
<1>4. CASE Launch
  <2>1. PICK S \in SUBSET Seats :
          players' = [s \in Slots |->
            [players[s] EXCEPT !.token = IF s \in S THEN Owner[s] ELSE @,
                               !.heardAge = AtMost(@ + 1, Grace + 1)]]
    BY <1>4 DEF Launch
  <2>2. \A s \in Slots : SentFirst(players'[s])
    BY <1>1, <2>1 DEF SentFirst, Player
  <2> QED  BY <1>4, <2>2 DEF Launch, HeardFirst, AllSentFirst, SentFirst
<1>5. ASSUME NEW c \in Clients, Reserve(c)  PROVE cast' = Nothing /\ HeardFirst'
  <2>1. PICK s \in Slots : players' = [players EXCEPT ![s].token = c, ![s].joining = TRUE,
                                                      ![s].reservedAge = 0]
    BY <1>5 DEF Reserve
  <2> DEFINE q == [players[s] EXCEPT !.token = c, !.joining = TRUE, !.reservedAge = 0]
  <2>2. SentFirst(q)  BY <1>1 DEF SentFirst, Player
  <2>3. players' = [players EXCEPT ![s] = q]  BY <1>1, <2>1
  <2> HIDE DEF q
  <2> QED  BY <1>2, <1>5, <2>2, <2>3 DEF Reserve
<1>6. ASSUME NEW c \in Clients, LeaveLobby(c)  PROVE cast' = Nothing /\ HeardFirst'
  <2> DEFINE s == client[c].at
             q == [players[s] EXCEPT !.joining = FALSE, !.reservedAge = NotHeld,
                                     !.token = NoClient]
  <2>1. CASE s \in Slots
    <3>1. SentFirst(q)  BY <1>1, <2>1 DEF SentFirst, Player
    <3>2. players' = players \/ players' = [players EXCEPT ![s] = q]
      BY <1>1, <1>6, <2>1 DEF LeaveLobby
    <3> HIDE DEF q, s
    <3> QED  BY <1>2, <1>3, <1>6, <2>1, <3>1, <3>2 DEF LeaveLobby
  <2>2. CASE s \notin Slots
    <3>1. players' = players  BY <1>1, <1>6, <2>2 DEF LeaveLobby
    <3> QED  BY <1>3, <1>6, <3>1 DEF LeaveLobby
  <2> QED  BY <2>1, <2>2
<1>7. ASSUME NEW c \in Clients, BindSeat(c)  PROVE cast' = Nothing /\ HeardFirst'
  <2> DEFINE s == client[c].at
  <2>1. s \in Slots /\ players' = [players EXCEPT ![s] = Bound(players[s], c)]
    BY <1>1, <1>7 DEF BindSeat, MayBind
  <2>2. SentFirst(Bound(players[s], c))  BY <1>1, <2>1, SentFirstKept
  <2> QED  BY <1>2, <1>7, <2>1, <2>2 DEF BindSeat
<1>8. ASSUME NEW c \in Clients, BindDropIn(c)  PROVE cast' = Nothing /\ HeardFirst'
  <2> DEFINE s == client[c].at
             p == Bound(players[s], c)
             u == Unbound(p)
             a == [p EXCEPT !.joining = TRUE,
                            !.reservedAge = IF @ = NotHeld THEN 0 ELSE @]
             b == [u EXCEPT !.joining = FALSE, !.reservedAge = NotHeld, !.token = NoClient]
  <2>1. /\ s \in Slots /\ cast' = Nothing
        /\ \/ players' = [players EXCEPT ![s] = u]
           \/ players' = [players EXCEPT ![s] = a]
           \/ players' = [players EXCEPT ![s] = b]
    BY <1>8 DEF BindDropIn, MayBind
  <2>2. RightSlot(players[s], tic) /\ tic \in Nat /\ MayBind(c)
    <3>1. MayBind(c)  BY <1>8 DEF BindDropIn
    <3> HIDE DEF s
    <3> QED  BY <2>1, <3>1, NumbersAssumption DEF Parts, SlotsOK, RightSlot
  <2>3. p \in Player(p.cmds) /\ SentFirst(p)
    BY <1>1, <2>1, <2>2, BoundOK, SentFirstKept DEF MayBind, RightSlot, IsPlayer
  <2> HIDE DEF p
  <2>4. SentFirst(u) /\ SentFirst(a) /\ SentFirst(b)
    BY <2>3 DEF SentFirst, Unbound, Player
  <2> HIDE DEF s, u, a, b
  <2> QED  BY <1>2, <2>1, <2>4
<1>9. ASSUME NEW c \in Clients, Refuse(c) \/ Spectate(c)  PROVE cast' = Nothing /\ HeardFirst'
  BY <1>3, <1>9 DEF Refuse, Spectate
<1>10. ASSUME NEW c \in Clients, Close(c)  PROVE cast' = Nothing /\ HeardFirst'
  <2> DEFINE s == client[c].at
  <2>1. CASE Mine(c)
    <3>1. s \in Slots /\ players' = [players EXCEPT ![s] = Left(players[s])]
      BY <1>1, <1>10, <2>1 DEF Close, Mine
    <3>2. SentFirst(Left(players[s]))  BY <1>1, <3>1, SentFirstKept
    <3> QED  BY <1>2, <1>10, <3>1, <3>2 DEF Close
  <2>2. CASE ~ Mine(c)
    <3>1. players' = players  BY <1>10, <2>2 DEF Close
    <3> QED  BY <1>3, <1>10, <3>1 DEF Close
  <2> QED  BY <2>1, <2>2
<1> QED  BY <1>4, <1>5, <1>6, <1>7, <1>8, <1>9, <1>10

\* Nobody has sent, is scheduled or silent when the session is made.
LEMMA SentFirstInit == Init => HeardFirst
BY DEF Init, HeardFirst, AllSentFirst, SentFirst, NewPlayer, NotScheduled

\* Sealing and forcing tics change none of it either.
LEMMA SentFirstSealed ==
  ASSUME NEW pl, tic \in Nat, SlotsOK(pl, tic), AllSentFirst(pl)
  PROVE  /\ Seal(pl) => HeardFirst'
         /\ \A cl : AllJoined(pl) /\ SweepSeal(pl, cl) => HeardFirst'
<1>1. ASSUME Seal(pl)  PROVE HeardFirst'
  <2>1. PICK k \in tic .. MaxTic : players' = AfterSeal(pl, tic, k)  BY <1>1 DEF Seal
  <2>2. AllSentFirst(AfterSeal(pl, tic, k))  BY SentFirstOfAll DEF SlotsOK
  <2> QED  BY <2>1, <2>2 DEF HeardFirst, AllSentFirst, SentFirst
<1>2. ASSUME NEW cl, AllJoined(pl), SweepSeal(pl, cl)  PROVE HeardFirst'
  <2>1. PICK k1 \in tic .. MaxTic :
          SealsOnly(pl, k1) \/ \E k2 \in k1 + 1 .. MaxTic : Forces(pl, k1, k2)
    BY <1>2, SweepShape
  <2>2. /\ SlotsOK(Once(pl, k1), k1) /\ SlotsOK(Less(pl, k1), k1)
        /\ SlotsOK(More(pl, k1), k1 + 1)
    BY <1>2, SweptSlots
  <2>3. AllSentFirst(Once(pl, k1))  BY SentFirstOfAll DEF SlotsOK, Once
  <2>4. AllSentFirst(Less(pl, k1))  BY <2>2, <2>3, SentFirstOfAll DEF SlotsOK, Less
  <2>5. AllSentFirst(More(pl, k1))  BY <2>2, <2>4, SentFirstOfAll DEF SlotsOK, More
  <2>6. \A k2 : AllSentFirst(AfterSeal(More(pl, k1), k1 + 1, k2))
    BY <2>2, <2>5, SentFirstOfAll DEF SlotsOK
  <2>7. AllSentFirst(players')
    BY <2>1, <2>3, <2>4, <2>6 DEF SealsOnly, Forces
  <2> QED  BY <2>7 DEF HeardFirst, AllSentFirst, SentFirst
<1> QED  BY <1>1, <1>2

\* Every step keeps it.
LEMMA SentFirstStep == Parts /\ HeardFirst /\ [Next]_vars => HeardFirst'
<1> SUFFICES ASSUME Parts, HeardFirst, [Next]_vars  PROVE HeardFirst'
  OBVIOUS
<1>0. tic \in Nat  BY NumbersAssumption DEF Parts
<1>1. CASE SweepStep
  <2>1. PICK d \in Gaps : Sweep(d)  BY <1>1 DEF SweepStep
  <2> QED  BY <1>0, <2>1, SweepPlan, SentFirstSealed
<1>2. CASE ClientStep
  <2>1. PICK c \in Clients :
          \/ Reserve(c) \/ LeaveLobby(c) \/ BindSeat(c) \/ BindDropIn(c)
          \/ Frame(c) \/ Refuse(c) \/ Close(c) \/ Spectate(c)
    BY <1>2 DEF ClientStep
  <2>2. CASE Frame(c)  BY <1>0, <2>2, FramePlan, SentFirstSealed
  <2> QED  BY <2>1, <2>2, QuietPlan
<1>3. CASE Launch  BY <1>3, QuietPlan
<1>4. CASE UNCHANGED vars
  BY <1>4 DEF vars, HeardFirst, AllSentFirst, SentFirst
<1> QED  BY <1>1, <1>2, <1>3, <1>4 DEF Next

\* A frame's seal waits for whoever is live and not silent.
LEMMA SealEarns ==
  ASSUME tic \in Nat, NEW pl, SlotsOK(pl, tic), AllSentFirst(pl), Seal(pl),
         \A s \in Slots : pl[s].ingame = players[s].ingame,
         NEW t \in DOMAIN cast', NEW s \in cast'[t].mask \cap cast'[t].fab
  PROVE  players'[s].sentAny /\ (AlreadyLive(s, t) => players'[s].silent)
<1>1. PICK k \in tic .. MaxTic :
        /\ SealStops(pl, tic, k) /\ players' = AfterSeal(pl, tic, k)
        /\ cast' = Sealed(pl, tic, k)
  BY DEF Seal
<1>2. k \in Nat /\ tic <= k  BY NumbersAssumption
<1>3. t \in tic .. k - 1 /\ cast'[t] = Bundle(pl, tic, t)  BY <1>1 DEF Sealed
<1>4. s \in Slots /\ AllJoined(pl) /\ (s \in LiveAt(pl, t) => pl[s].silent)
  BY <1>1, <1>2, <1>3, SealFabricates
<1>5. /\ players'[s].sentAny = pl[s].sentAny /\ players'[s].silent = pl[s].silent
      /\ IsPlayer(pl[s]) /\ SentFirst(pl[s])
  BY <1>1, <1>4, SealKeeps DEF SlotsOK, AllSentFirst
<1>6. s \in LiveAt(pl, t) \/ pl[s].joinAt # NotScheduled
  BY <1>3, MaskIsLive DEF LiveAt
<1>7. AlreadyLive(s, t) => s \in LiveAt(pl, t)
  <2>1. CASE t = tic  BY <1>4, <2>1 DEF AlreadyLive, LiveAt
  <2>2. CASE t # tic
    <3>1. t - 1 \in tic .. k - 1 /\ t - 1 + 1 = t  BY <1>2, <1>3, <2>2
    <3>2. cast'[t - 1].mask = LiveAt(pl, t)
      BY <1>1, <3>1, MaskIsLive DEF Sealed
    <3> QED  BY <2>2, <3>2 DEF AlreadyLive
  <2> QED  BY <2>1, <2>2
<1> QED  BY <1>4, <1>5, <1>6, <1>7 DEF SentFirst

\* Everybody who is live or scheduled has sent.
AllHeard(pl) ==
  \A s \in Slots : pl[s].ingame \/ pl[s].joinAt # NotScheduled => pl[s].sentAny

LEMMA AllHeardKept ==
  ASSUME NEW pl, \A s \in Slots : IsPlayer(pl[s]), AllHeard(pl), NEW t0, NEW k
  PROVE  AllHeard(AfterSeal(pl, t0, k)) /\ AllHeard(Dropped(pl, k))
<1>1. ASSUME NEW s \in Slots
      PROVE  AfterSeal(pl, t0, k)[s].ingame \/ AfterSeal(pl, t0, k)[s].joinAt # NotScheduled
               => AfterSeal(pl, t0, k)[s].sentAny
  <2>1. pl[s].ingame \in BOOLEAN  BY DEF IsPlayer, Player
  <2> QED  BY <2>1, SealKeeps DEF AllHeard, Due
<1>2. AllHeard(Dropped(pl, k))  BY JudgedKeeps DEF AllHeard
<1> QED  BY <1>1, <1>2 DEF AllHeard

\* A sweep's: one of the players left is fabricated by the forced tic only when
\* it has filled no tic for the grace, or fills a later one at once.
LEMMA SweepEarns ==
  ASSUME tic \in Nat, NEW pl, NEW cl, SlotsOK(pl, tic), AllJoined(pl), AllSentFirst(pl),
         SweepSeal(pl, cl),
         \A s \in Slots : players[s].ingame => pl[s].joinAt = NotScheduled,
         launchAge' >= NeverJoined \/ \A s \in Live(pl) : pl[s].sentAny,
         NEW t \in DOMAIN cast', NEW s \in cast'[t].mask \cap cast'[t].fab
  PROVE  /\ ~ players'[s].sentAny => launchAge' >= NeverJoined
         /\ AlreadyLive(s, t) =>
              \/ players'[s].silent
              \/ players'[s].seenAge >= Grace
              \/ \E u \in DOMAIN cast' : u > t /\ s \notin cast'[u].fab
<1>0. MaxTic \in Nat /\ Grace \in Nat  BY NumbersAssumption
<1>1. PICK k1 \in tic .. MaxTic :
        /\ SealStops(pl, tic, k1)
        /\ SealsOnly(pl, k1) \/ \E k2 \in k1 + 1 .. MaxTic : Forces(pl, k1, k2)
  BY SweepShape
<1> DEFINE p1 == Once(pl, k1)
           p2 == Less(pl, k1)
           p3 == More(pl, k1)
<1>2. /\ SlotsOK(p1, k1) /\ AllJoined(p1) /\ SlotsOK(p2, k1) /\ AllJoined(p2)
      /\ SlotsOK(p3, k1 + 1) /\ AllJoined(p3)
  BY SweptSlots
<1>3. k1 \in Nat /\ tic <= k1 /\ k1 + 1 \in Nat  BY <1>0
<1>4. ASSUME NEW r \in Slots
      PROVE  /\ IsPlayer(pl[r]) /\ IsPlayer(p1[r]) /\ IsPlayer(p2[r]) /\ IsPlayer(p3[r])
             /\ p1[r].silent = pl[r].silent /\ p1[r].sentAny = pl[r].sentAny
             /\ p2[r].silent = pl[r].silent /\ p2[r].sentAny = pl[r].sentAny
             /\ p3[r].silent = pl[r].silent /\ p3[r].sentAny = pl[r].sentAny
             /\ p1[r].ingame = (pl[r].ingame \/ Due(pl[r], k1))
             /\ p1[r].joinAt = IF Due(pl[r], k1) THEN NotScheduled ELSE pl[r].joinAt
             /\ p2[r].joinAt = p1[r].joinAt
             /\ p3[r].ingame = (p2[r].ingame \/ Due(p2[r], k1 + 1))
             /\ p3[r].seenAge = IF Own(p2[r], k1, k1) # {} THEN 0 ELSE p2[r].seenAge
  <2>1. IsPlayer(pl[r]) /\ IsPlayer(p1[r]) /\ IsPlayer(p2[r]) /\ IsPlayer(p3[r])
    BY <1>2 DEF SlotsOK
  <2>2. k1 + 1 - 1 = k1  BY <1>3
  <2> QED  BY <2>1, <2>2, SealKeeps, JudgedKeeps DEF Once, Less, More
<1>5. \/ launchAge' >= NeverJoined
      \/ AllHeard(pl) /\ AllHeard(p1) /\ AllHeard(p2) /\ AllHeard(p3)
  <2>1. SUFFICES ASSUME \A r \in Live(pl) : pl[r].sentAny
                 PROVE  AllHeard(pl) /\ AllHeard(p1) /\ AllHeard(p2) /\ AllHeard(p3)
    OBVIOUS
  <2>2. AllHeard(pl)  BY <2>1 DEF AllHeard, Live, AllSentFirst, SentFirst
  <2>3. AllHeard(p1)  BY <1>4, <2>2, AllHeardKept DEF Once
  <2>4. AllHeard(p2)  BY <1>4, <2>3, AllHeardKept DEF Less
  <2>5. AllHeard(p3)  BY <1>4, <2>4, AllHeardKept DEF More
  <2> QED  BY <2>2, <2>3, <2>4, <2>5
<1> HIDE DEF p1, p2, p3
<1>6. ASSUME NEW k, NEW b, b = Bundle(pl, tic, t), s \in b.mask \cap b.fab,
             t \in tic .. k1 - 1, t = tic \/ cast'[t - 1] = Bundle(pl, tic, t - 1)
      PROVE  /\ s \in Slots /\ (AlreadyLive(s, t) => pl[s].silent)
             /\ pl[s].sentAny \/ launchAge' >= NeverJoined
  <2>1. s \in Slots /\ (s \in LiveAt(pl, t) => pl[s].silent)
    BY <1>1, <1>3, <1>6, SealFabricates
  <2>2. pl[s].ingame \/ pl[s].joinAt # NotScheduled  BY <1>6, MaskIsLive
  <2>3. AlreadyLive(s, t) => s \in LiveAt(pl, t)
    <3>1. CASE t = tic  BY <2>1, <2>2, <3>1 DEF AlreadyLive, LiveAt
    <3>2. CASE t # tic
      <4>1. t - 1 + 1 = t  BY <1>6
      <4>2. cast'[t - 1].mask = LiveAt(pl, t)  BY <1>6, <3>2, <4>1, MaskIsLive
      <4> QED  BY <3>2, <4>2 DEF AlreadyLive
    <3> QED  BY <3>1, <3>2
  <2> QED  BY <1>5, <2>1, <2>2, <2>3 DEF AllHeard
<1>7. CASE SealsOnly(pl, k1)
  <2>1. t \in tic .. k1 - 1 /\ cast'[t] = Bundle(pl, tic, t)
    BY <1>7 DEF SealsOnly, Sealed
  <2>2. t = tic \/ cast'[t - 1] = Bundle(pl, tic, t - 1)
    <3>1. t # tic => t - 1 \in tic .. k1 - 1  BY <1>3, <2>1
    <3> QED  BY <1>7, <3>1 DEF SealsOnly, Sealed
  <2>3. /\ s \in Slots /\ (AlreadyLive(s, t) => pl[s].silent)
        /\ pl[s].sentAny \/ launchAge' >= NeverJoined
    BY <1>6, <2>1, <2>2
  <2>4. players' = p1 \/ players' = p2  BY <1>7 DEF SealsOnly, p1, p2
  <2> QED  BY <1>4, <2>3, <2>4
<1>8. ASSUME NEW k2 \in k1 + 1 .. MaxTic, Forces(pl, k1, k2)
      PROVE  /\ ~ players'[s].sentAny => launchAge' >= NeverJoined
             /\ AlreadyLive(s, t) =>
                  \/ players'[s].silent
                  \/ players'[s].seenAge >= Grace
                  \/ \E u \in DOMAIN cast' : u > t /\ s \notin cast'[u].fab
  <2>1. /\ ~ InFlight(p2, k1) /\ SealStops(p3, k1 + 1, k2)
        /\ players' = AfterSeal(p3, k1 + 1, k2)
        /\ DOMAIN cast' = tic .. k2 - 1
        /\ \A u \in tic .. k2 - 1 :
             /\ u < k1 => cast'[u] = Bundle(pl, tic, u)
             /\ u = k1 => cast'[u] = Bundle(p2, k1, u)
             /\ u > k1 => cast'[u] = Bundle(p3, k1 + 1, u)
    BY <1>8 DEF Forces, p2, p3
  <2>2. k2 \in Nat /\ k1 + 1 <= k2 /\ t \in tic .. k2 - 1 /\ t \in Nat  BY <1>3, <2>1
  <2>4. s \in Slots  BY <2>1, <2>2 DEF Bundle
  <2>5. /\ players'[s].silent = pl[s].silent /\ players'[s].sentAny = pl[s].sentAny
        /\ players'[s].seenAge = IF Own(p3[s], k1 + 1, k2 - 1) # {} THEN 0 ELSE p3[s].seenAge
    <3>1. IsPlayer(p3[s]) /\ p3[s].silent = pl[s].silent /\ p3[s].sentAny = pl[s].sentAny
      BY <1>4, <2>4
    <3>2. LET q == AfterSeal(p3, k1 + 1, k2)[s] IN
          /\ q.sentAny = p3[s].sentAny /\ q.silent = p3[s].silent
          /\ q.seenAge = IF Own(p3[s], k1 + 1, k2 - 1) # {} THEN 0 ELSE p3[s].seenAge
      BY <2>4, <3>1, SealKeeps
    <3> QED  BY <2>1, <3>1, <3>2
  <2>6. CASE t < k1
    <3>1. t \in tic .. k1 - 1 /\ cast'[t] = Bundle(pl, tic, t)
          /\ (t = tic \/ cast'[t - 1] = Bundle(pl, tic, t - 1))
      BY <1>3, <2>1, <2>2, <2>6
    <3>2. /\ AlreadyLive(s, t) => pl[s].silent
          /\ pl[s].sentAny \/ launchAge' >= NeverJoined
      BY <1>6, <3>1
    <3> QED  BY <2>5, <3>2
  <2>7. CASE t = k1
    <3>1. cast'[t] = Bundle(p2, k1, t)  BY <2>1, <2>2, <2>7
    <3>2. s \notin Sent(p2, k1) /\ s \in LiveAt(p2, k1 + 1)
      BY <2>7, <3>1 DEF Bundle
    <3>3. p2[s].ingame \/ p2[s].joinAt # NotScheduled  BY <3>2 DEF LiveAt, Due
    <3>4. AlreadyLive(s, t) => p2[s].joinAt = NotScheduled
      <4>1. CASE t = tic
        <5>1. AlreadyLive(s, t) => pl[s].joinAt = NotScheduled
          BY <2>4, <4>1 DEF AlreadyLive
        <5> QED  BY <1>4, <2>4, <5>1 DEF Due
      <4>2. CASE t # tic
        <5>1. t - 1 + 1 = k1 /\ t - 1 \in tic .. k2 - 1 /\ t - 1 < k1
          BY <1>3, <2>2, <2>7, <4>2
        <5>2. cast'[t - 1].mask = LiveAt(pl, k1)  BY <2>1, <5>1, MaskIsLive
        <5>3. pl[s].ingame => pl[s].joinAt = NotScheduled
          BY <2>4 DEF SlotsOK, SlotInv
        <5> QED  BY <1>4, <2>4, <4>2, <5>2, <5>3 DEF AlreadyLive, LiveAt
      <4> QED  BY <4>1, <4>2
    <3>5. AlreadyLive(s, t) => p2[s].seenAge >= Grace
      <4>1. p2[s].seenAge \in Nat  BY <1>4, <2>4, PlayerFields
      <4>2. p2[s].ingame => s \in Laggards(p2, k1)
        BY <2>4, <3>2 DEF Laggards, Live, Sent
      <4> QED  BY <1>0, <2>1, <3>3, <3>4, <4>1, <4>2 DEF InFlight
    <3>6. p3[s].seenAge = p2[s].seenAge
      <4>1. Own(p2[s], k1, k1) = {}  BY <1>3, <2>4, <3>2 DEF Own, Sent
      <4> QED  BY <1>4, <2>4, <4>1
    <3>7. ASSUME Own(p3[s], k1 + 1, k2 - 1) # {}
          PROVE  \E u \in DOMAIN cast' : u > t /\ s \notin cast'[u].fab
      <4>1. PICK u \in k1 + 1 .. k2 - 1 : u \in DOMAIN p3[s].cmds  BY <3>7 DEF Own
      <4>2. u \in tic .. k2 - 1 /\ u > k1  BY <1>3, <2>2, <4>1
      <4>3. cast'[u] = Bundle(p3, k1 + 1, u)  BY <2>1, <4>2
      <4>4. s \notin cast'[u].fab  BY <2>4, <4>1, <4>3 DEF Bundle, Sent
      <4> QED  BY <2>1, <2>7, <4>2, <4>4
    <3>8. pl[s].sentAny \/ launchAge' >= NeverJoined
      BY <1>4, <1>5, <2>4, <3>3 DEF AllHeard
    <3> QED  BY <2>5, <3>5, <3>6, <3>7, <3>8
  <2>8. CASE t > k1
    <3>1. cast'[t] = Bundle(p3, k1 + 1, t) /\ t \in k1 + 1 .. k2 - 1
      BY <1>3, <2>1, <2>2, <2>8
    <3>2. s \in LiveAt(p3, t) => p3[s].silent
      BY <1>3, <2>1, <2>2, <3>1, SealFabricates
    <3>3. p3[s].ingame \/ p3[s].joinAt # NotScheduled  BY <3>1, MaskIsLive
    <3>4. AlreadyLive(s, t) => s \in LiveAt(p3, t)
      <4>1. t - 1 + 1 = t /\ t - 1 \in tic .. k2 - 1 /\ t # tic  BY <1>3, <2>2, <2>8
      <4>2. CASE t = k1 + 1
        <5>1. t - 1 = k1  BY <1>3, <4>2
        <5>2. cast'[t - 1].mask = LiveAt(p2, k1 + 1)  BY <2>1, <4>1, <5>1, MaskIsLive
        <5>3. s \in LiveAt(p2, k1 + 1) => p3[s].ingame
          BY <1>4, <2>4 DEF LiveAt
        <5> QED  BY <2>4, <4>1, <5>2, <5>3 DEF AlreadyLive, LiveAt
      <4>3. CASE t # k1 + 1
        <5>1. t - 1 > k1  BY <1>3, <2>2, <2>8, <4>3
        <5>2. cast'[t - 1].mask = LiveAt(p3, t)  BY <2>1, <4>1, <5>1, MaskIsLive
        <5> QED  BY <4>1, <5>2 DEF AlreadyLive
      <4> QED  BY <4>2, <4>3
    <3>5. pl[s].sentAny \/ launchAge' >= NeverJoined
      BY <1>4, <1>5, <2>4, <3>3 DEF AllHeard
    <3> QED  BY <1>4, <2>4, <2>5, <3>2, <3>4, <3>5
  <2> QED  BY <1>3, <2>2, <2>6, <2>7, <2>8
<1> QED  BY <1>1, <1>7, <1>8

\* Whatever step broadcasts a tic, it may: every slot in the game is connected,
\* and each cmd it supplies has been earned.
Earned(s, t) ==
  /\ ~ players'[s].sentAny => launchAge' >= NeverJoined
  /\ AlreadyLive(s, t) =>
       \/ players'[s].silent
       \/ players'[s].seenAge >= Grace
       \/ \E u \in DOMAIN cast' : u > t /\ s \notin cast'[u].fab

LEMMA StepEarns ==
  ASSUME Parts, HeardFirst, Next, NEW t \in DOMAIN cast'
  PROVE  /\ AllJoined(players')
         /\ \A s \in cast'[t].mask \cap cast'[t].fab : Earned(s, t)
<1>0. tic \in Nat /\ cast' # Nothing  BY NumbersAssumption DEF Parts, Nothing
<1>1. CASE SweepStep
  <2>1. PICK d \in Gaps : Sweep(d)  BY <1>1 DEF SweepStep
  <2>2. PICK pl, cl :
          /\ SlotsOK(pl, tic) /\ AllJoined(pl) /\ AllSentFirst(pl) /\ SweepSeal(pl, cl)
          /\ \A s \in Slots : players[s].ingame => pl[s].joinAt = NotScheduled
          /\ launchAge' >= NeverJoined \/ \A s \in Live(pl) : pl[s].sentAny
    BY <1>0, <2>1, SweepPlan
  <2> QED  BY <1>0, <2>2, SealedJoined, SweepEarns DEF Earned
<1>2. CASE ClientStep
  <2>1. PICK c \in Clients :
          \/ Reserve(c) \/ LeaveLobby(c) \/ BindSeat(c) \/ BindDropIn(c)
          \/ Frame(c) \/ Refuse(c) \/ Close(c) \/ Spectate(c)
    BY <1>2 DEF ClientStep
  <2>2. Frame(c)  BY <1>0, <2>1, QuietPlan
  <2>3. PICK pl : /\ SlotsOK(pl, tic) /\ AllSentFirst(pl) /\ Seal(pl)
                  /\ \A r \in Slots : pl[r].ingame = players[r].ingame
    BY <1>0, <2>2, FramePlan
  <2> QED  BY <1>0, <2>3, SealedJoined, SealEarns DEF Earned
<1>3. CASE Launch  BY <1>0, <1>3, QuietPlan
<1> QED  BY <1>1, <1>2, <1>3 DEF Next

\* Whoever is scheduled or silent has sent a frame, in every reachable state.
THEOREM HeardBeforeJudged == Spec => []HeardFirst
<1>1. IInv => Parts  BY PartsOfInv
<1> QED  BY <1>1, SentFirstInit, SentFirstStep, Invariance, PTL DEF Spec

\* The relay supplies a cmd only for a live player who is silent, or has filled
\* no tic for the grace, or fills a later one in the same step (game.js:565-596,
\* 640-674): no cmd that is merely late is thrown away.
THEOREM FabricationEarned == Spec => FabricationIsEarned
<1>1. ASSUME IInv, HeardFirst, [Next]_vars
      PROVE  [\A t \in DOMAIN cast' : \A s \in cast'[t].mask \cap cast'[t].fab :
                AlreadyLive(s, t) =>
                  \/ players'[s].silent
                  \/ players'[s].seenAge >= Grace
                  \/ \E u \in DOMAIN cast' : u > t /\ s \notin cast'[u].fab]_vars
  BY <1>1, PartsOfInv, StepEarns DEF Earned
<1> QED  BY <1>1, Invariance, HeardBeforeJudged, PTL DEF Spec, FabricationIsEarned

\* No tic is sealed before every launched seat has connected, and none with a
\* cmd supplied for a player that has sent nothing, before the launch grace ends
\* (game.js:501, 541-563).
THEOREM StartLeavesNobody == Spec => NobodyLeftAtStart
<1>1. ASSUME IInv, HeardFirst, [Next]_vars
      PROVE  [\A t \in DOMAIN cast' :
                /\ AllJoined(players')
                /\ (\E s \in cast'[t].mask \cap cast'[t].fab : ~ players'[s].sentAny)
                     => launchAge' >= NeverJoined]_vars
  BY <1>1, PartsOfInv, StepEarns DEF Earned
<1> QED  BY <1>1, Invariance, HeardBeforeJudged, PTL DEF Spec, NobodyLeftAtStart
=============================================================================
