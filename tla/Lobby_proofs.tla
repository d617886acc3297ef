----------------------------- MODULE Lobby_proofs -----------------------------
(***************************************************************************)
(* Proofs about Lobby, for every set of peers, slots, seats that are no    *)
(* slots, and params, every cap and every length of the countdown: who sits*)
(* where, what was cast, what is counted, and whose timers are due are     *)
(* right in every reachable state, a launch is one game for all it reaches,*)
(* and no step but a tick of its own moves a countdown of somebody's.      *)
(***************************************************************************)
EXTENDS Lobby, FiniteSetTheorems, WellFoundedInduction, TLAPS

\* A session's number is the last that was given, its params are the lobby's,
\* and while it counts down nobody outside its seats sits in the lobby, and
\* those of them that are slots play.
SessionTrue ==
  session # NoOne =>
    /\ session.id = started
    /\ session.params = params
    /\ session.id \in ticks => /\ Seated(lobby) \subseteq session.slots
                              /\ session.ingame = session.slots \cap LobbySlots

\* In a countdown no slot that plays has a token or a socket, and no sweep is
\* due or queued; nothing is left over from a session yet to come.
NotYet ==
  /\ \A k \in DOMAIN socks : k[1] \in 1 .. started
  /\ queued \subseteq 1 .. started
  /\ session # NoOne /\ session.id \in ticks =>
       /\ ~ session.launched /\ sweeps = {} /\ session.id \notin queued
       /\ session.ingame \cap (session.joined \cup session.token) = {}
       /\ \A k \in DOMAIN socks : k[1] = session.id => k[2] \notin session.ingame

Counters ==
  /\ started \in 0 .. MaxSessions
  /\ IsFiniteSet(DOMAIN socks)
  /\ ticks \subseteq 1 .. MaxSessions /\ sweeps \subseteq 1 .. MaxSessions

IInv == LobbySound /\ SessionTrue /\ NotYet /\ Counters

-----------------------------------------------------------------------------
(* Sets and numbers.                                                       *)

\* A set of slots that is not empty has a least element, which Min finds.
LEMMA MinIsLeast ==
  ASSUME NEW T \in SUBSET Nat, T # {}
  PROVE  Min(T) \in T
<1> DEFINE R == {ss \in Nat \X Nat : ss[1] < ss[2]}
<1>1. IsWellFoundedOn(R, Nat)
  BY NatLessThanWellFounded, Zenon DEF OpToRel
<1>2. PICK m \in T : \A n \in T : ~ (<<n, m>> \in R)
  <2> HIDE DEF R
  <2> QED  BY <1>1, WFMin
<1>3. ASSUME NEW n \in T  PROVE m <= n
  <2>1. SUFFICES ASSUME n < m  PROVE FALSE
    BY <1>3
  <2>2. <<n, m>> \in Nat \X Nat /\ <<n, m>>[1] < <<n, m>>[2]  BY <1>3, <2>1
  <2>3. <<n, m>> \in R  BY <2>2, Zenon
  <2> QED  BY <1>2, <1>3, <2>3
<1> QED  BY <1>3 DEF Min

LEMMA FreeSlot ==
  ASSUME FreeSlots # {}
  PROVE  Min(FreeSlots) \in LobbySlots /\ lobby[Min(FreeSlots)] = NoOne
<1>1. FreeSlots \in SUBSET Nat  BY LobbyAssumption DEF FreeSlots
<1>2. Min(FreeSlots) \in FreeSlots  BY <1>1, MinIsLeast
<1> QED  BY <1>2 DEF FreeSlots

\* The lobby sockets that are counted are finitely many; one more is one more.
LEMMA CountedFinite ==
  /\ IsFiniteSet({p \in Peers : Counted(p)})
  /\ Cardinality({p \in Peers : Counted(p)}) \in Nat
<1>1. {p \in Peers : Counted(p)} \subseteq Peers /\ IsFiniteSet(Peers)  BY LobbyAssumption
<1> QED  BY <1>1, FS_Subset, FS_CardinalityType

LEMMA OneMore ==
  ASSUME NEW S, NEW T, IsFiniteSet(S), NEW x, x \notin S, T = S \cup {x}
  PROVE  IsFiniteSet(T) /\ Cardinality(T) = Cardinality(S) + 1
BY FS_AddElement

LEMMA OneLess ==
  ASSUME NEW S, NEW T, IsFiniteSet(S), NEW x \in S, T = S \ {x}
  PROVE  IsFiniteSet(T) /\ Cardinality(T) = Cardinality(S) - 1 /\ Cardinality(S) >= 1
<1>1. IsFiniteSet(T) /\ Cardinality(T) = Cardinality(S) - 1  BY FS_RemoveElement
<1>2. Cardinality(T) \in Nat /\ Cardinality(S) \in Nat  BY <1>1, FS_CardinalityType
<1> QED  BY <1>1, <1>2

-----------------------------------------------------------------------------
(* The lobby sockets.                                                      *)

LEMMA InitHolds == LobbyInit => IInv
<1> SUFFICES ASSUME LobbyInit  PROVE IInv
  OBVIOUS
<1> USE LobbyAssumption DEF LobbyInit
<1>1. params \in Params  BY DEF DefaultParams
<1>2. DOMAIN socks = {}  OBVIOUS
<1>3. LobbyTypeOK  BY <1>1, <1>2 DEF LobbyTypeOK, Nobody, Unsent
<1>4. SeatsAgree  BY DEF SeatsAgree, Nobody, Unsent
<1>5. CastTrue  BY DEF CastTrue, Listens
<1>6. CountTrue
  <2>1. {p \in Peers : Counted(p)} = {} /\ others = 0  BY DEF Counted
  <2>2. Cardinality({p \in Peers : Counted(p)}) = 0 /\ Cardinality(DOMAIN socks) = 0
    BY <1>2, <2>1, FS_EmptySet
  <2>3. connCount = 0  OBVIOUS
  <2> QED  BY <2>1, <2>2, <2>3 DEF CountTrue
<1>7. TimersTrue /\ SessionTrue /\ NotYet  BY <1>2 DEF TimersTrue, SessionTrue, NotYet
<1>8. Counters  BY <1>2, FS_EmptySet DEF Counters
<1> QED  BY <1>3, <1>4, <1>5, <1>6, <1>7, <1>8 DEF IInv, LobbySound

LEMMA ConnectSeatKeeps ==
  ASSUME IInv, NEW p \in Peers, ConnectSeat(p)
  PROVE  IInv'
<1> USE LobbyAssumption DEF IInv, LobbySound, ConnectSeat
<1> DEFINE f == Min(FreeSlots)
<1>0. f \in LobbySeats /\ lobby[f] = NoOne  BY FreeSlot DEF LobbySeats
<1>a. at[p] = NoOne  BY DEF SeatsAgree, Counted, LobbyTypeOK
<1>b. /\ lobby' = [lobby EXCEPT ![f] = p] /\ at' = [at EXCEPT ![p] = f]
      /\ sock' = [sock EXCEPT ![p] = "open"] /\ connCount' = connCount + 1
      /\ told' = [q \in Peers |-> IF q = p \/ Listens([lobby EXCEPT ![f] = p], q)
                                  THEN Roster([lobby EXCEPT ![f] = p], params) ELSE told[q]]
  OBVIOUS
<1> HIDE DEF f
<1>1. SeatsAgree'  BY <1>0, <1>a, <1>b DEF SeatsAgree, Counted, LobbyTypeOK
<1>2. CastTrue'  BY <1>0, <1>b DEF CastTrue, Listens, Roster, Seated, LobbyTypeOK
<1>3. CountTrue'
  <2>1. {q \in Peers : Counted(q)}' = {q \in Peers : Counted(q)} \cup {p}
    BY <1>b DEF Counted, LobbyTypeOK
  <2>2. p \notin {q \in Peers : Counted(q)}  BY DEF Counted
  <2>3. Cardinality({q \in Peers : Counted(q)}') = Cardinality({q \in Peers : Counted(q)}) + 1
    BY <2>1, <2>2, CountedFinite, OneMore
  <2> QED  BY <2>3, CountedFinite, FS_CardinalityType DEF CountTrue, Counters, LobbyTypeOK
<1>4. LobbyTypeOK'  BY <1>0, <1>b DEF LobbyTypeOK
<1>5. TimersTrue' /\ SessionTrue' /\ NotYet' /\ Counters'
  BY DEF TimersTrue, SessionTrue, NotYet, Counters
<1> QED  BY <1>1, <1>2, <1>3, <1>4, <1>5

LEMMA ConnectObserverKeeps ==
  ASSUME IInv, NEW p \in Peers, ConnectObserver(p)
  PROVE  IInv'
<1> USE LobbyAssumption DEF IInv, LobbySound, ConnectObserver
<1>1. SeatsAgree'  BY DEF SeatsAgree, Counted, LobbyTypeOK
<1>2. CastTrue'  BY DEF CastTrue, SeatsAgree, Counted, Listens, Roster, Seated, LobbyTypeOK
<1>3. CountTrue'
  <2>1. {q \in Peers : Counted(q)}' = {q \in Peers : Counted(q)} \cup {p}
    BY DEF Counted, LobbyTypeOK
  <2>2. p \notin {q \in Peers : Counted(q)}  BY DEF Counted
  <2>3. Cardinality({q \in Peers : Counted(q)}') = Cardinality({q \in Peers : Counted(q)}) + 1
    BY <2>1, <2>2, CountedFinite, OneMore
  <2> QED  BY <2>3, CountedFinite, FS_CardinalityType DEF CountTrue, Counters, LobbyTypeOK
<1>4. LobbyTypeOK'  BY DEF LobbyTypeOK
<1>5. TimersTrue' /\ SessionTrue' /\ NotYet' /\ Counters'
  BY DEF TimersTrue, SessionTrue, NotYet, Counters, Seated
<1> QED  BY <1>1, <1>2, <1>3, <1>4, <1>5

LEMMA RefuseLobbyKeeps ==
  ASSUME IInv, NEW p \in Peers, RefuseLobby(p)
  PROVE  IInv'
<1> USE LobbyAssumption DEF IInv, LobbySound, RefuseLobby
<1>1. SeatsAgree'  BY DEF SeatsAgree, Counted, LobbyTypeOK
<1>2. CastTrue'  BY DEF CastTrue, Listens, Roster, Seated, LobbyTypeOK
<1>3. CountTrue'
  <2>1. {q \in Peers : Counted(q)}' = {q \in Peers : Counted(q)}
    BY DEF Counted, LobbyTypeOK
  <2> QED  BY <2>1 DEF CountTrue
<1>4. LobbyTypeOK'  BY DEF LobbyTypeOK
<1>5. TimersTrue' /\ SessionTrue' /\ NotYet' /\ Counters'
  BY DEF TimersTrue, SessionTrue, NotYet, Counters, Seated
<1> QED  BY <1>1, <1>2, <1>3, <1>4, <1>5

\* Who has a seat sits on it.
LEMMA SitsThere ==
  ASSUME LobbyTypeOK, SeatsAgree, NEW p \in Peers, at[p] # NoOne
  PROVE  at[p] \in LobbySeats /\ lobby[at[p]] = p
<1>1. at[p] \in LobbySeats  BY DEF LobbyTypeOK
<1> DEFINE s == at[p]
<1>2. lobby[s] = p <=> at[p] = s
  <2> HIDE DEF s
  <2> QED  BY <1>1 DEF SeatsAgree, s
<1> QED  BY <1>1, <1>2

LEMMA CloseLobbyKeeps ==
  ASSUME IInv, NEW p \in Peers, CloseLobby(p)
  PROVE  IInv'
<1> USE LobbyAssumption DEF IInv, LobbySound
<1> DEFINE l == IF at[p] = NoOne THEN lobby ELSE [lobby EXCEPT ![at[p]] = NoOne]
<1>0. /\ sock[p] \in {"open", "dead"} /\ sock' = [sock EXCEPT ![p] = "out"]
      /\ lobby' = l /\ at' = [at EXCEPT ![p] = NoOne] /\ connCount' = connCount - 1
      /\ told' = [q \in Peers |-> CASE q = p -> NoOne
                                    [] q # p /\ at[p] # NoOne /\ Listens(l, q) -> Roster(l, params)
                                    [] OTHER -> told[q]]
      /\ UNCHANGED <<params, session, socks, others, ticks, sweeps, queued, started>>
  BY DEF CloseLobby
<1>1. SeatsAgree'  BY <1>0 DEF SeatsAgree, Counted, LobbyTypeOK
<1>2. CastTrue'
  <2> SUFFICES ASSUME NEW q \in Peers, Listens(lobby, q)'
               PROVE  told'[q] = Roster(lobby', params')
    BY DEF CastTrue, Roster, Seated
  <2>1. q # p /\ sock[q] = "open" /\ \E s \in LobbySeats : l[s] = q
    BY <1>0 DEF Listens, LobbyTypeOK
  <2>2. Listens(l, q)  BY <2>1 DEF Listens
  <2>3. CASE at[p] # NoOne  BY <1>0, <2>1, <2>2, <2>3 DEF Roster, Seated
  <2>4. CASE at[p] = NoOne
    <3>1. l = lobby /\ told'[q] = told[q]  BY <1>0, <2>1, <2>4
    <3> QED  BY <1>0, <2>2, <3>1 DEF CastTrue, Roster, Seated
  <2> QED  BY <2>3, <2>4
<1>3. CountTrue' /\ connCount' >= 0
  <2>1. {q \in Peers : Counted(q)}' = {q \in Peers : Counted(q)} \ {p}
    BY <1>0 DEF Counted, LobbyTypeOK
  <2>2. p \in {q \in Peers : Counted(q)}  BY <1>0 DEF Counted
  <2>3. /\ Cardinality({q \in Peers : Counted(q)}') = Cardinality({q \in Peers : Counted(q)}) - 1
        /\ Cardinality({q \in Peers : Counted(q)}) >= 1
    BY <2>1, <2>2, CountedFinite, OneLess
  <2> QED  BY <1>0, <2>3, CountedFinite, FS_CardinalityType DEF CountTrue, Counters, LobbyTypeOK
<1>4. LobbyTypeOK'  BY <1>0, <1>3 DEF LobbyTypeOK
<1>5. TimersTrue' /\ NotYet' /\ Counters'
  BY <1>0 DEF TimersTrue, NotYet, Counters
<1>6. SessionTrue'
  <2>1. Seated(lobby') \subseteq Seated(lobby)  BY <1>0 DEF Seated, LobbyTypeOK
  <2> QED  BY <1>0, <2>1 DEF SessionTrue
<1> QED  BY <1>1, <1>2, <1>3, <1>4, <1>5, <1>6

LEMMA PickSlotKeeps ==
  ASSUME IInv, NEW p \in Peers, NEW want \in LobbySeats, PickSlot(p, want)
  PROVE  IInv'
<1> USE LobbyAssumption DEF IInv, LobbySound
<1> DEFINE l == [lobby EXCEPT ![want] = lobby[at[p]], ![at[p]] = NoOne]
<1>0. /\ sock[p] = "open" /\ at[p] # NoOne /\ session = NoOne
      /\ lobby[want] = NoOne /\ want # at[p] /\ lobby' = l /\ at' = [at EXCEPT ![p] = want]
      /\ told' = [q \in Peers |-> IF Listens(l, q) THEN Roster(l, params) ELSE told[q]]
      /\ UNCHANGED <<params, session, connCount, sock, socks, others, ticks, sweeps, queued,
                    started>>
  BY DEF PickSlot, MaySet, Moved, CastRoster
<1>a. at[p] \in LobbySeats /\ lobby[at[p]] = p
  BY <1>0, SitsThere
<1>1. SeatsAgree'  BY <1>0, <1>a DEF SeatsAgree, Counted, LobbyTypeOK
<1>2. CastTrue'
  <2> SUFFICES ASSUME NEW q \in Peers, Listens(lobby, q)'
               PROVE  told'[q] = Roster(lobby', params')
    BY DEF CastTrue, Roster, Seated
  <2>1. Listens(l, q)  BY <1>0 DEF Listens
  <2> QED  BY <1>0, <2>1 DEF Roster, Seated
<1>3. CountTrue'
  <2>1. {q \in Peers : Counted(q)}' = {q \in Peers : Counted(q)}  BY <1>0 DEF Counted
  <2> QED  BY <1>0, <2>1 DEF CountTrue
<1>4. LobbyTypeOK'  BY <1>0, <1>a DEF LobbyTypeOK
<1>5. TimersTrue' /\ SessionTrue' /\ NotYet' /\ Counters'
  BY <1>0 DEF TimersTrue, SessionTrue, NotYet, Counters
<1> QED  BY <1>1, <1>2, <1>3, <1>4, <1>5

LEMMA SetParamsKeeps ==
  ASSUME IInv, NEW p \in Peers, NEW ps \in Params, SetParams(p, ps)
  PROVE  IInv'
<1> USE LobbyAssumption DEF IInv, LobbySound, SetParams, MaySet
<1>1. SeatsAgree'  BY DEF SeatsAgree, Counted
<1>2. CastTrue'  BY DEF CastTrue, CastRoster, Listens, Roster, Seated
<1>3. CountTrue'
  <2>1. {q \in Peers : Counted(q)}' = {q \in Peers : Counted(q)}  BY DEF Counted
  <2> QED  BY <2>1 DEF CountTrue
<1>4. LobbyTypeOK'  BY DEF LobbyTypeOK
<1>5. TimersTrue' /\ SessionTrue' /\ NotYet' /\ Counters'
  BY DEF TimersTrue, SessionTrue, NotYet, Counters
<1> QED  BY <1>1, <1>2, <1>3, <1>4, <1>5

-----------------------------------------------------------------------------
(* The countdown, the launch and the sweep.                                *)

\* What a step leaves alone that touches no lobby socket and no game socket.
LEMMA SocketsKept ==
  ASSUME SeatsAgree, CountTrue, UNCHANGED <<lobby, at, sock, connCount, others, DOMAIN socks>>
  PROVE  SeatsAgree' /\ CountTrue'
<1>1. {q \in Peers : Counted(q)}' = {q \in Peers : Counted(q)}  BY DEF Counted
<1>2. CountTrue'  BY <1>1 DEF CountTrue
<1> QED  BY <1>2 DEF SeatsAgree, Counted

\* roster's cast leaves every member that reads with the roster as it is.
LEMMA CastRosterTells ==
  ASSUME CastRoster(lobby, params), UNCHANGED <<lobby, params, sock>>
  PROVE  CastTrue'
BY DEF CastTrue, CastRoster, Listens, Roster, Seated

LEMMA StartKeeps ==
  ASSUME IInv, NEW p \in Peers, Start(p)
  PROVE  IInv'
<1> USE LobbyAssumption DEF IInv, LobbySound, Start, MaySet
<1>a. started + 1 \in 1 .. MaxSessions  BY DEF Counters
<1>b. at[p] \in Seated(lobby)  BY SitsThere DEF Seated
<1>c. session' \in Session /\ session' = NewSession /\ session' # NoOne
  <2>1. Seated(lobby) \in (SUBSET LobbySeats) \ {{}}  BY <1>b DEF Seated
  <2>2. Count - 1 \in 0 .. Count - 1  OBVIOUS
  <2>3. NewSession \in Session  BY <1>a, <2>1, <2>2 DEF NewSession, Session, LobbyTypeOK
  <2> QED  BY <2>3
<1>d. /\ session'.id = started + 1 /\ session'.params = params /\ session'.token = {}
      /\ ~ session'.launched
      /\ session'.slots = Seated(lobby) /\ session'.ingame = session'.slots \cap LobbySlots
      /\ session'.joined = LobbySlots \ session'.ingame
  BY <1>c DEF NewSession
<1> HIDE DEF NewSession
<1>1. SeatsAgree' /\ CountTrue'  BY SocketsKept
<1>2. CastTrue'  BY DEF CastTrue, Listens, Roster, Seated
<1>3. LobbyTypeOK'  BY <1>c DEF LobbyTypeOK
<1>4. TimersTrue'  BY <1>c, <1>d DEF TimersTrue
<1>5. SessionTrue'  BY <1>c, <1>d DEF SessionTrue
<1>6. Counters'  BY <1>a DEF Counters
<1>7. NotYet'
  <2>1. sweeps = {}  BY DEF TimersTrue
  <2> QED  BY <1>a, <1>c, <1>d, <2>1 DEF NotYet, Counters
<1> QED  BY <1>1, <1>2, <1>3, <1>4, <1>5, <1>6, <1>7

LEMMA TickKeeps ==
  ASSUME IInv, NEW i \in 1 .. MaxSessions, Tick(i)
  PROVE  IInv'
<1> USE LobbyAssumption DEF IInv, LobbySound, Tick
<1>a. session \in Session /\ session # NoOne  BY DEF LobbyTypeOK, Current
<1>b. session' \in Session /\ session' # NoOne
  <2>1. session.n \in 0 .. Count - 1 /\ session.n > 0  BY <1>a DEF Session
  <2>2. session.n - 1 \in 0 .. Count - 1  BY <2>1
  <2>3. session' \in Session  BY <1>a, <2>2 DEF Session
  <2> QED  BY <2>3
<1>c. /\ session'.id = session.id /\ session'.params = session.params
      /\ session'.launched = session.launched /\ session'.token = session.token
      /\ session'.ingame = session.ingame /\ session'.slots = session.slots
      /\ session'.joined = session.joined
  BY <1>a DEF Session
<1>1. SeatsAgree' /\ CountTrue'  BY SocketsKept
<1>2. CastTrue'  BY DEF CastTrue, Listens, Roster, Seated
<1>3. LobbyTypeOK'  BY <1>b DEF LobbyTypeOK
<1>4. TimersTrue' /\ SessionTrue' /\ NotYet' /\ Counters'
  BY <1>a, <1>b, <1>c DEF TimersTrue, SessionTrue, NotYet, Counters
<1> QED  BY <1>1, <1>2, <1>3, <1>4

\* The last tick, whether it gets to the end or not: what it leaves alone.
LEMMA LastTickLeaves ==
  ASSUME IInv, NEW i \in 1 .. MaxSessions, LastTick(i),
         session' \in Session, session'.id = session.id, session'.params = session.params
  PROVE  /\ SeatsAgree' /\ CountTrue' /\ CastTrue' /\ LobbyTypeOK'
         /\ session.id = i /\ ticks' = {} /\ sweeps = {} /\ SessionTrue'
<1> USE LobbyAssumption DEF IInv, LobbySound
<1>0. /\ ticks' = ticks \ {i} /\ session.id = i /\ i \in ticks
      /\ session # NoOne /\ session' # NoOne
      /\ UNCHANGED <<lobby, params, connCount, sock, at, told, socks, others, queued, started>>
  BY DEF LastTick, Current
<1>1. SeatsAgree' /\ CountTrue'  BY <1>0, SocketsKept
<1>2. CastTrue'  BY <1>0 DEF CastTrue, Listens, Roster, Seated
<1>3. LobbyTypeOK'  BY <1>0 DEF LobbyTypeOK
<1>4. ticks' = {} /\ sweeps = {}  BY <1>0 DEF TimersTrue, NotYet
<1>5. SessionTrue'  BY <1>0, <1>4 DEF SessionTrue
<1> QED  BY <1>0, <1>1, <1>2, <1>3, <1>4, <1>5

LEMMA LaunchGameKeeps ==
  ASSUME IInv, NEW i \in 1 .. MaxSessions, LaunchGame(i)
  PROVE  IInv'
<1> USE LobbyAssumption DEF IInv, LobbySound
<1>0. /\ session' = [session EXCEPT !.launched = TRUE, !.token = @ \cup Seated(lobby)]
      /\ sweeps' = sweeps \cup {i} /\ session # NoOne /\ LastTick(i)
      /\ Seated(lobby) \subseteq LobbySlots
      /\ UNCHANGED <<socks, queued, started>>
  BY DEF LaunchGame, LastTick, Current
<1>a. session \in Session  BY <1>0 DEF LobbyTypeOK
<1>b. session' \in Session /\ session' # NoOne
  <2>1. session.token \cup Seated(lobby) \in SUBSET LobbySlots  BY <1>0, <1>a DEF Session
  <2>2. session' \in Session  BY <1>0, <1>a, <2>1 DEF Session
  <2> QED  BY <2>2
<1>c. session'.id = session.id /\ session'.params = session.params
  BY <1>0, <1>a DEF Session
<1>1. /\ SeatsAgree' /\ CountTrue' /\ CastTrue' /\ LobbyTypeOK' /\ SessionTrue'
      /\ session.id = i /\ ticks' = {} /\ sweeps = {}
  BY <1>0, <1>b, <1>c, LastTickLeaves
<1>2. TimersTrue' /\ NotYet' /\ Counters'
  BY <1>0, <1>1, <1>b, <1>c DEF TimersTrue, NotYet, Counters
<1> QED  BY <1>1, <1>2

LEMMA LaunchFailsKeeps ==
  ASSUME IInv, NEW i \in 1 .. MaxSessions, LaunchFails(i)
  PROVE  IInv'
<1> USE LobbyAssumption DEF IInv, LobbySound
<1>0. /\ sweeps' = sweeps /\ session # NoOne /\ LastTick(i)
      /\ UNCHANGED <<socks, queued, started>>
  BY DEF LaunchFails, LastTick, Current
<1>1. PICK early \in SUBSET (Seated(lobby) \cap LobbySlots) :
        session' = [session EXCEPT !.token = @ \cup early]
  BY DEF LaunchFails
<1>a. session \in Session  BY <1>0 DEF LobbyTypeOK
<1>b. session' \in Session /\ session' # NoOne
  <2>1. session.token \cup early \in SUBSET LobbySlots  BY <1>a DEF Session
  <2>2. session' \in Session  BY <1>1, <1>a, <2>1 DEF Session
  <2> QED  BY <2>2
<1>c. session'.id = session.id /\ session'.params = session.params
  BY <1>1, <1>a DEF Session
<1>2. /\ SeatsAgree' /\ CountTrue' /\ CastTrue' /\ LobbyTypeOK' /\ SessionTrue'
      /\ session.id = i /\ ticks' = {} /\ sweeps = {}
  BY <1>0, <1>b, <1>c, LastTickLeaves
<1>3. TimersTrue' /\ NotYet' /\ Counters'
  BY <1>0, <1>2, <1>b, <1>c DEF TimersTrue, NotYet, Counters
<1> QED  BY <1>2, <1>3

LEMMA QueueSweepKeeps ==
  ASSUME IInv, NEW i \in 1 .. MaxSessions, QueueSweep(i)
  PROVE  IInv'
<1> USE LobbyAssumption DEF IInv, LobbySound, QueueSweep
<1>a. session # NoOne /\ session.id = i /\ session \in Session  BY DEF TimersTrue, LobbyTypeOK
<1>1. SeatsAgree' /\ CountTrue'  BY SocketsKept
<1>2. CastTrue'  BY DEF CastTrue, Listens, Roster, Seated
<1>3. LobbyTypeOK'  BY DEF LobbyTypeOK
<1>4. TimersTrue' /\ SessionTrue' /\ Counters'
  BY DEF TimersTrue, SessionTrue, Counters
<1>5. session.id \notin ticks  BY <1>a DEF NotYet
<1>6. NotYet'
  <2>1. queued' \subseteq 1 .. started'  BY <1>a DEF SessionTrue, Counters
  <2> QED  BY <1>a, <1>5, <2>1 DEF NotYet
<1> QED  BY <1>1, <1>2, <1>3, <1>4, <1>6

\* endSession ends a session whole: nothing is due, the roster is cast, and the
\* sockets that were its own, or all but one that has closed, are closing.
LEMMA EndSessionLeaves ==
  ASSUME IInv, session # NoOne, NEW f, EndSession(f), DOMAIN f \subseteq DOMAIN socks,
         \A k \in DOMAIN f : f[k] \in {"open", "closing"},
         UNCHANGED <<lobby, params, sock, at, started>>, queued' \subseteq queued
  PROVE  /\ CastTrue' /\ TimersTrue' /\ SessionTrue' /\ NotYet' /\ Counters'
         /\ DOMAIN socks' = DOMAIN f /\ \A k \in DOMAIN socks' : socks'[k] \in {"open", "closing"}
         /\ session' = NoOne
<1> USE DEF IInv, LobbySound, EndSession
<1>1. CastTrue'  BY CastRosterTells
<1>2. socks' = [k \in DOMAIN f |-> IF session.id = k[1] THEN "closing" ELSE f[k]]
  BY DEF ClosingSocks
<1>3. DOMAIN socks' = DOMAIN f /\ \A k \in DOMAIN socks' : socks'[k] \in {"open", "closing"}
  BY <1>2
<1>4. ticks' = {} /\ sweeps' = {}  BY DEF TimersTrue, Cleared
<1>5. IsFiniteSet(DOMAIN socks')  BY <1>3, FS_Subset DEF Counters
<1> QED  BY <1>1, <1>3, <1>4, <1>5 DEF TimersTrue, SessionTrue, NotYet, Counters

\* Whose drop-in times out had a socket each.
LEMMA TimedOut ==
  ASSUME IsFiniteSet(DOMAIN socks), NEW T \in SUBSET Waiting, T \subseteq LobbySlots
  PROVE  LET X == {session.id} \X T IN
         /\ IsFiniteSet(T) /\ Cardinality(T) \in Nat
         /\ IsFiniteSet(DOMAIN socks \ X)
         /\ Cardinality(DOMAIN socks \ X) = Cardinality(DOMAIN socks) - Cardinality(T)
<1> DEFINE X == {session.id} \X T
<1>1. X \subseteq DOMAIN socks  BY DEF Waiting
<1>2. IsFiniteSet(T)  BY LobbyAssumption, FS_Subset
<1>3. Cardinality(X) = Cardinality(T) /\ Cardinality(T) \in Nat
  <2>1. IsFiniteSet({session.id}) /\ Cardinality({session.id}) = 1  BY FS_Singleton
  <2>2. Cardinality(X) = 1 * Cardinality(T)  BY <1>2, <2>1, FS_Product
  <2> QED  BY <1>2, <2>2, FS_CardinalityType
<1>4. DOMAIN socks \cap X = X  BY <1>1
<1> HIDE DEF X
<1>5. /\ IsFiniteSet(DOMAIN socks \ X)
      /\ Cardinality(DOMAIN socks \ X) = Cardinality(DOMAIN socks) - Cardinality(T)
  <2> DEFINE d == DOMAIN socks
  <2> HIDE DEF d
  <2>1. IsFiniteSet(d \ X) /\ Cardinality(d \ X) = Cardinality(d) - Cardinality(d \cap X)
    <3>1. IsFiniteSet(d)  BY DEF d
    <3> QED  BY <3>1, FS_Difference
  <2> QED  BY <1>3, <1>4, <2>1 DEF d
<1> QED  BY <1>2, <1>3, <1>5 DEF X

LEMMA ImmediateKeeps ==
  ASSUME IInv, NEW i \in 1 .. MaxSessions, Immediate(i)
  PROVE  IInv'
<1> USE LobbyAssumption DEF IInv, LobbySound
<1>0. /\ i \in queued /\ queued' = queued \ {i}
      /\ UNCHANGED <<lobby, params, connCount, sock, at, started>>
  BY DEF Immediate
<1>1. CASE ~ Judges(i) /\ UNCHANGED <<session, told, socks, others, ticks, sweeps>>
  <2>1. SeatsAgree' /\ CountTrue'  BY <1>0, <1>1, SocketsKept
  <2>2. CastTrue'  BY <1>0, <1>1 DEF CastTrue, Listens, Roster, Seated
  <2>3. LobbyTypeOK'  BY <1>0, <1>1 DEF LobbyTypeOK
  <2>4. TimersTrue' /\ SessionTrue' /\ NotYet' /\ Counters'
    BY <1>0, <1>1 DEF TimersTrue, SessionTrue, NotYet, Counters
  <2> QED  BY <2>1, <2>2, <2>3, <2>4
<1>2. CASE Judges(i) /\ EndSession(socks) /\ UNCHANGED others
  <2>a. session # NoOne  BY <1>2 DEF Judges, Current
  <2>b. \A k \in DOMAIN socks : socks[k] \in {"open", "closing"}  BY DEF LobbyTypeOK
  <2>1. /\ CastTrue' /\ TimersTrue' /\ SessionTrue' /\ NotYet' /\ Counters'
        /\ DOMAIN socks' = DOMAIN socks
        /\ \A k \in DOMAIN socks' : socks'[k] \in {"open", "closing"}
        /\ session' = NoOne
    BY <1>0, <1>2, <2>a, <2>b, EndSessionLeaves
  <2>2. SeatsAgree' /\ CountTrue'  BY <1>0, <1>2, <2>1, SocketsKept
  <2>3. LobbyTypeOK'  BY <1>0, <1>2, <2>1 DEF LobbyTypeOK
  <2> QED  BY <2>1, <2>2, <2>3
<1>3. ASSUME Judges(i), UNCHANGED <<told, ticks, sweeps>>,
             NEW old \in BOOLEAN, NEW T \in SUBSET Waiting, NEW G \in SUBSET (Waiting \ T),
             NEW D \in SUBSET (Present(old) \cup G),
             session' = [session EXCEPT !.ingame = (Present(old) \cup G) \ D,
                                        !.joining = @ \ T, !.token = @ \ T],
             socks' = [k \in DOMAIN socks \ ({session.id} \X T) |->
                         IF k \in {session.id} \X D THEN "closing" ELSE socks[k]],
             others' = others + Cardinality(T)
      PROVE  IInv'
  <2>a. session # NoOne /\ session.id = i /\ session \in Session
    BY <1>3 DEF Judges, Current, LobbyTypeOK
  <2>b. session.id \notin ticks  BY <1>0, <2>a DEF NotYet
  <2>c. Present(old) \in SUBSET LobbySlots /\ Waiting \in SUBSET LobbySlots
    BY <2>a DEF Present, Waiting, Session
  <2>d. session' \in Session /\ session' # NoOne
    <3>1. /\ (Present(old) \cup G) \ D \in SUBSET LobbySlots
          /\ session.joining \ T \in SUBSET LobbySlots /\ session.token \ T \in SUBSET LobbySlots
      BY <2>a, <2>c DEF Session
    <3>2. session' \in Session  BY <1>3, <2>a, <3>1 DEF Session
    <3> QED  BY <3>2
  <2>e. session'.id = session.id /\ session'.params = session.params
    BY <1>3, <2>a DEF Session
  <2>1. /\ DOMAIN socks' = DOMAIN socks \ ({session.id} \X T)
        /\ \A k \in DOMAIN socks' : socks'[k] \in {"open", "closing"}
    BY <1>3 DEF LobbyTypeOK
  <2>2. /\ IsFiniteSet(T) /\ Cardinality(T) \in Nat /\ IsFiniteSet(DOMAIN socks')
        /\ Cardinality(DOMAIN socks') = Cardinality(DOMAIN socks) - Cardinality(T)
    BY <2>1, <2>c, TimedOut DEF Counters
  <2>3. SeatsAgree' /\ CountTrue' /\ others' \in Nat
    <3>1. {q \in Peers : Counted(q)}' = {q \in Peers : Counted(q)}  BY <1>0 DEF Counted
    <3>2. Cardinality(DOMAIN socks) \in Nat /\ others \in Nat
      BY FS_CardinalityType DEF Counters, LobbyTypeOK
    <3>3. connCount' =
            Cardinality({q \in Peers : Counted(q)}) + Cardinality(DOMAIN socks') + others'
      <4> DEFINE c == Cardinality({q \in Peers : Counted(q)})
                 d == Cardinality(DOMAIN socks)
                 e == Cardinality(DOMAIN socks')
                 t == Cardinality(T)
      <4>1. connCount' = c + d + others /\ e = d - t /\ others' = others + t
        BY <1>0, <1>3, <2>2 DEF CountTrue
      <4>2. c \in Nat /\ d \in Nat /\ t \in Nat /\ others \in Nat
        BY <2>2, <3>2, CountedFinite
      <4> HIDE DEF c, d, e, t
      <4>3. connCount' = c + e + others'  BY <4>1, <4>2
      <4> QED  BY <4>3 DEF c, e
    <3>4. CountTrue'  BY <3>1, <3>3 DEF CountTrue
    <3>5. others' \in Nat  BY <1>3, <2>2, <3>2
    <3> QED  BY <1>0, <3>4, <3>5 DEF SeatsAgree, Counted
  <2>4. CastTrue'  BY <1>0, <1>3 DEF CastTrue, Listens, Roster, Seated
  <2>5. LobbyTypeOK'  BY <1>0, <2>1, <2>3, <2>d DEF LobbyTypeOK
  <2>6. TimersTrue' /\ SessionTrue' /\ NotYet' /\ Counters'
    BY <1>0, <1>3, <2>1, <2>2, <2>a, <2>b, <2>d, <2>e DEF TimersTrue, SessionTrue, NotYet, Counters
  <2> QED  BY <2>3, <2>4, <2>5, <2>6
<1>4. Ages \subseteq BOOLEAN  BY DEF Ages
<1> QED  BY <1>1, <1>2, <1>3, <1>4 DEF Immediate

-----------------------------------------------------------------------------
(* The game sockets.                                                       *)

LEMMA AttachKeeps ==
  ASSUME IInv, NEW s \in LobbySlots, Attach(s), session.id \in ticks => s \notin session.ingame
  PROVE  IInv'
<1> USE LobbyAssumption DEF IInv, LobbySound
<1> DEFINE k == <<session.id, s>>
<1>0. /\ session # NoOne /\ connCount < MaxConns /\ k \notin DOMAIN socks
      /\ session' = [session EXCEPT !.joined = @ \cup {s}, !.token = @ \cup {s},
                                    !.joining = IF s \in session.ingame THEN @ ELSE @ \cup {s}]
      /\ socks' = [j \in DOMAIN socks \cup {k} |-> IF j \in DOMAIN socks THEN socks[j] ELSE "open"]
      /\ connCount' = connCount + 1
      /\ UNCHANGED <<lobby, params, sock, at, told, others, ticks, sweeps, queued, started>>
  BY DEF Attach
<1>a. session \in Session  BY <1>0 DEF LobbyTypeOK
<1>b. session' \in Session /\ session' # NoOne
  <2>1. /\ session.joined \cup {s} \in SUBSET LobbySlots
        /\ session.token \cup {s} \in SUBSET LobbySlots
        /\ (IF s \in session.ingame THEN session.joining ELSE session.joining \cup {s})
             \in SUBSET LobbySlots
    BY <1>a DEF Session
  <2>2. session' \in Session  BY <1>0, <1>a, <2>1 DEF Session
  <2> QED  BY <2>2
<1>c. /\ session'.id = session.id /\ session'.params = session.params
      /\ session'.launched = session.launched /\ session'.ingame = session.ingame
      /\ session'.slots = session.slots
      /\ session'.joined = session.joined \cup {s} /\ session'.token = session.token \cup {s}
  BY <1>0, <1>a DEF Session
<1>d. DOMAIN socks' = DOMAIN socks \cup {k}  BY <1>0
<1>e. k[1] = session.id /\ k[2] = s  OBVIOUS
<1>1. \A j \in DOMAIN socks' : socks'[j] \in {"open", "closing"}  BY <1>0 DEF LobbyTypeOK
<1> HIDE DEF k
<1>2. SeatsAgree'  BY <1>0 DEF SeatsAgree, Counted
<1>3. CountTrue' /\ IsFiniteSet(DOMAIN socks')
  <2>1. {q \in Peers : Counted(q)}' = {q \in Peers : Counted(q)}  BY <1>0 DEF Counted
  <2>2. IsFiniteSet(DOMAIN socks') /\ Cardinality(DOMAIN socks') = Cardinality(DOMAIN socks) + 1
    BY <1>0, <1>d, OneMore DEF Counters
  <2>3. Cardinality(DOMAIN socks) \in Nat /\ others \in Nat
    BY FS_CardinalityType DEF Counters, LobbyTypeOK
  <2>4. connCount' = Cardinality({q \in Peers : Counted(q)}) + Cardinality(DOMAIN socks') + others
    BY <1>0, <2>2, <2>3, CountedFinite DEF CountTrue
  <2>5. CountTrue'  BY <1>0, <2>1, <2>4 DEF CountTrue
  <2> QED  BY <2>2, <2>5
<1>4. CastTrue'  BY <1>0 DEF CastTrue, Listens, Roster, Seated
<1>5. LobbyTypeOK'  BY <1>0, <1>1, <1>b DEF LobbyTypeOK
<1>6. TimersTrue' /\ SessionTrue' /\ Counters'
  BY <1>0, <1>3, <1>a, <1>b, <1>c DEF TimersTrue, SessionTrue, Counters
<1>7. NotYet'
  <2>1. session.id \in 1 .. started  BY <1>0, <1>a DEF SessionTrue, Session
  <2>2. \A j \in DOMAIN socks' : j[1] \in 1 .. started  BY <1>d, <1>e, <2>1 DEF NotYet
  <2>3. ASSUME session.id \in ticks, NEW j \in DOMAIN socks', j[1] = session.id
        PROVE  j[2] \notin session.ingame
    BY <1>0, <1>d, <1>e, <2>3 DEF NotYet
  <2> QED  BY <1>0, <1>c, <2>2, <2>3 DEF NotYet
<1> QED  BY <1>2, <1>3, <1>4, <1>5, <1>6, <1>7

\* In a countdown nobody who plays can come in yet.
LEMMA BindKeeps ==
  ASSUME IInv, NEW s \in LobbySlots, Bind(s)
  PROVE  IInv' /\ (session.id \in ticks => s \notin session.ingame)
<1>1. session.id \in ticks => s \notin session.ingame  BY DEF IInv, Bind, NotYet
<1> QED  BY <1>1, AttachKeeps DEF Bind

LEMMA DropInKeeps ==
  ASSUME IInv, NEW s \in LobbySlots, DropIn(s)
  PROVE  IInv'
BY AttachKeeps DEF DropIn

\* Nothing is sealed in a countdown of somebody's.
LEMMA GoLiveIsLater ==
  ASSUME IInv, NEW G \in SUBSET LobbySlots, GoLive(G)
  PROVE  session.id \notin ticks
BY DEF IInv, GoLive, NotYet

LEMMA GoLiveKeeps ==
  ASSUME IInv, NEW G \in SUBSET LobbySlots, GoLive(G)
  PROVE  IInv'
<1> USE LobbyAssumption DEF IInv, LobbySound
<1>0. /\ session # NoOne /\ session' = [session EXCEPT !.ingame = @ \cup G]
      /\ session.id \notin ticks
      /\ UNCHANGED <<lobby, params, connCount, sock, at, told, socks, others, ticks, sweeps, queued,
                     started>>
  BY GoLiveIsLater DEF GoLive
<1>a. session \in Session  BY <1>0 DEF LobbyTypeOK
<1>b. session' \in Session /\ session' # NoOne
  <2>1. session.ingame \cup G \in SUBSET LobbySlots  BY <1>a DEF Session
  <2>2. session' \in Session  BY <1>0, <1>a, <2>1 DEF Session
  <2> QED  BY <2>2
<1>c. session'.id = session.id /\ session'.params = session.params  BY <1>0, <1>a DEF Session
<1>1. SeatsAgree' /\ CountTrue'  BY <1>0, SocketsKept
<1>2. CastTrue'  BY <1>0 DEF CastTrue, Listens, Roster, Seated
<1>3. LobbyTypeOK'  BY <1>0, <1>b DEF LobbyTypeOK
<1>4. TimersTrue' /\ SessionTrue' /\ NotYet' /\ Counters'
  BY <1>0, <1>b, <1>c DEF TimersTrue, SessionTrue, NotYet, Counters
<1> QED  BY <1>1, <1>2, <1>3, <1>4

\* The sockets that hold nothing are counted, and that is all.
LEMMA OtherKeeps ==
  ASSUME IInv, ConnectOther \/ CloseOther
  PROVE  IInv'
<1> USE LobbyAssumption DEF IInv, LobbySound
<1>0. UNCHANGED <<lobby, params, session, sock, at, told, socks, ticks, sweeps, queued, started>>
  BY DEF ConnectOther, CloseOther
<1>1. CountTrue' /\ connCount' \in 0 .. MaxConns /\ others' \in Nat
  <2>1. {q \in Peers : Counted(q)}' = {q \in Peers : Counted(q)}  BY <1>0 DEF Counted
  <2>2. /\ Cardinality({q \in Peers : Counted(q)}) \in Nat
        /\ Cardinality(DOMAIN socks) \in Nat /\ others \in Nat
        /\ connCount = Cardinality({q \in Peers : Counted(q)}) + Cardinality(DOMAIN socks) + others
    BY CountedFinite, FS_CardinalityType DEF Counters, LobbyTypeOK, CountTrue
  <2> DEFINE c == Cardinality({q \in Peers : Counted(q)})
             d == Cardinality(DOMAIN socks)
  <2>3. c \in Nat /\ d \in Nat /\ others \in Nat /\ connCount = c + d + others  BY <2>2
  <2>4. connCount \in 0 .. MaxConns /\ MaxConns \in Nat  BY DEF LobbyTypeOK
  <2>5. /\ connCount' = c + d + others' /\ connCount' \in 0 .. MaxConns /\ others' \in Nat
    <3>1. \/ connCount < MaxConns /\ connCount' = connCount + 1 /\ others' = others + 1
          \/ others > 0 /\ connCount' = connCount - 1 /\ others' = others - 1
      BY DEF ConnectOther, CloseOther
    <3> HIDE DEF c, d
    <3> QED  BY <2>3, <2>4, <3>1
  <2>6. CountTrue'  BY <1>0, <2>1, <2>5 DEF CountTrue
  <2> QED  BY <2>5, <2>6
<1>2. SeatsAgree'  BY <1>0 DEF SeatsAgree, Counted
<1>3. CastTrue'  BY <1>0 DEF CastTrue, Listens, Roster, Seated
<1>4. LobbyTypeOK'  BY <1>0, <1>1 DEF LobbyTypeOK
<1>5. TimersTrue' /\ SessionTrue' /\ NotYet' /\ Counters'
  BY <1>0 DEF TimersTrue, SessionTrue, NotYet, Counters
<1> QED  BY <1>1, <1>2, <1>3, <1>4, <1>5

LEMMA CloseGameKeeps ==
  ASSUME IInv, NEW k \in DOMAIN socks, CloseGame(k)
  PROVE  IInv'
<1> USE LobbyAssumption DEF IInv, LobbySound
<1> DEFINE rest == [j \in DOMAIN socks \ {k} |-> socks[j]]
           left == session.ingame \ {k[2]}
<1>0. connCount' = connCount - 1 /\ UNCHANGED <<lobby, params, sock, at, others, queued, started>>
  BY DEF CloseGame
<1>a. DOMAIN rest = DOMAIN socks \ {k} /\ \A j \in DOMAIN rest : rest[j] \in {"open", "closing"}
  BY DEF LobbyTypeOK
<1>b. ASSUME DOMAIN socks' = DOMAIN rest
      PROVE  SeatsAgree' /\ CountTrue' /\ connCount' \in 0 .. MaxConns /\ IsFiniteSet(DOMAIN socks')
  <2>1. {q \in Peers : Counted(q)}' = {q \in Peers : Counted(q)}  BY <1>0 DEF Counted
  <2>2. /\ IsFiniteSet(DOMAIN socks') /\ Cardinality(DOMAIN socks') = Cardinality(DOMAIN socks) - 1
        /\ Cardinality(DOMAIN socks) >= 1
    BY <1>a, <1>b, OneLess DEF Counters
  <2>a. Cardinality(DOMAIN socks) \in Nat /\ others \in Nat
    BY FS_CardinalityType DEF Counters, LobbyTypeOK
  <2>b. connCount' = Cardinality({q \in Peers : Counted(q)}) + Cardinality(DOMAIN socks') + others
    BY <1>0, <2>2, <2>a, CountedFinite DEF CountTrue
  <2>3. CountTrue'  BY <1>0, <2>1, <2>b DEF CountTrue
  <2>4. connCount' \in 0 .. MaxConns
    BY <1>0, <2>2, CountedFinite, FS_CardinalityType DEF CountTrue, LobbyTypeOK, Counters
  <2>5. SeatsAgree'  BY <1>0 DEF SeatsAgree, Counted
  <2> QED  BY <2>2, <2>3, <2>4, <2>5
<1>1. CASE ~ Current(k[1]) /\ socks' = rest /\ UNCHANGED <<session, told, ticks, sweeps>>
  <2>1. SeatsAgree' /\ CountTrue' /\ connCount' \in 0 .. MaxConns /\ IsFiniteSet(DOMAIN socks')
    BY <1>1, <1>b
  <2>2. CastTrue'  BY <1>0, <1>1 DEF CastTrue, Listens, Roster, Seated
  <2>3. LobbyTypeOK'  BY <1>0, <1>1, <1>a, <2>1 DEF LobbyTypeOK
  <2>4. TimersTrue' /\ SessionTrue' /\ NotYet' /\ Counters'
    BY <1>0, <1>1, <1>a, <2>1 DEF TimersTrue, SessionTrue, NotYet, Counters
  <2> QED  BY <2>1, <2>2, <2>3, <2>4
<1>2. CASE Current(k[1]) /\ EndSession(rest)
  <2>a. session # NoOne  BY <1>2 DEF Current
  <2>1. /\ CastTrue' /\ TimersTrue' /\ SessionTrue' /\ NotYet' /\ Counters'
        /\ DOMAIN socks' = DOMAIN rest
        /\ \A j \in DOMAIN socks' : socks'[j] \in {"open", "closing"}
        /\ session' = NoOne
    BY <1>0, <1>2, <1>a, <2>a, EndSessionLeaves
  <2>2. SeatsAgree' /\ CountTrue' /\ connCount' \in 0 .. MaxConns  BY <1>b, <2>1
  <2>3. LobbyTypeOK'  BY <1>0, <2>1, <2>2 DEF LobbyTypeOK
  <2> QED  BY <2>1, <2>2, <2>3
<1>3. CASE /\ Current(k[1]) /\ socks' = rest /\ UNCHANGED <<told, ticks, sweeps>>
           /\ session' = [session EXCEPT !.ingame = left, !.token = @ \ {k[2]},
                                         !.joining = @ \ {k[2]}]
  <2>a. session # NoOne /\ session.id = k[1] /\ session \in Session
    BY <1>3 DEF Current, LobbyTypeOK
  <2>b. session.id \in ticks => left = session.ingame  BY <2>a DEF NotYet
  <2>c. session' \in Session /\ session' # NoOne
    <3>1. /\ left \in SUBSET LobbySlots /\ session.token \ {k[2]} \in SUBSET LobbySlots
          /\ session.joining \ {k[2]} \in SUBSET LobbySlots
      BY <2>a DEF Session
    <3>2. session' \in Session  BY <1>3, <2>a, <3>1 DEF Session
    <3> QED  BY <3>2
  <2>d. /\ session'.id = session.id /\ session'.params = session.params
        /\ session'.launched = session.launched /\ session'.ingame = left
        /\ session'.slots = session.slots
        /\ session'.joined = session.joined /\ session'.token = session.token \ {k[2]}
    BY <1>3, <2>a DEF Session
  <2> HIDE DEF left
  <2>1. SeatsAgree' /\ CountTrue' /\ connCount' \in 0 .. MaxConns /\ IsFiniteSet(DOMAIN socks')
    BY <1>3, <1>b
  <2>2. CastTrue'  BY <1>0, <1>3 DEF CastTrue, Listens, Roster, Seated
  <2>3. LobbyTypeOK'  BY <1>0, <1>3, <1>a, <2>1, <2>c DEF LobbyTypeOK
  <2>4. TimersTrue' /\ SessionTrue' /\ Counters'
    BY <1>0, <1>3, <1>a, <2>1, <2>a, <2>b, <2>c, <2>d DEF TimersTrue, SessionTrue, Counters
  <2>5. NotYet'
    BY <1>0, <1>3, <1>a, <2>a, <2>b, <2>c, <2>d DEF NotYet
  <2> QED  BY <2>1, <2>2, <2>3, <2>4, <2>5
<1> QED  BY <1>1, <1>2, <1>3 DEF CloseGame

-----------------------------------------------------------------------------
(* The theorems.                                                           *)

\* Every step of the lobby preserves the invariant.
LEMMA NextKeeps == IInv /\ [LobbyNext]_lobbyVars => IInv'
<1> SUFFICES ASSUME IInv, [LobbyNext]_lobbyVars  PROVE IInv'
  OBVIOUS
<1>1. CASE UNCHANGED lobbyVars
  <2>1. SeatsAgree' /\ CountTrue'  BY <1>1, SocketsKept DEF IInv, LobbySound, lobbyVars
  <2> QED  BY <1>1, <2>1 DEF IInv, LobbySound, lobbyVars, LobbyTypeOK, CastTrue, Listens, Roster,
             Seated, TimersTrue, SessionTrue, NotYet, Counters
<1>2. ASSUME NEW p \in Peers, ConnectSeat(p)  PROVE IInv'  BY <1>2, ConnectSeatKeeps
<1>3. ASSUME NEW p \in Peers, ConnectObserver(p)  PROVE IInv'  BY <1>3, ConnectObserverKeeps
<1>4. ASSUME NEW p \in Peers, RefuseLobby(p)  PROVE IInv'  BY <1>4, RefuseLobbyKeeps
<1>5. ASSUME NEW p \in Peers, CloseLobby(p)  PROVE IInv'  BY <1>5, CloseLobbyKeeps
<1>6. ASSUME NEW p \in Peers, Start(p)  PROVE IInv'  BY <1>6, StartKeeps
<1>7. ASSUME NEW p \in Peers, NEW s \in LobbySeats, PickSlot(p, s)  PROVE IInv'
  BY <1>7, PickSlotKeeps
<1>8. ASSUME NEW p \in Peers, NEW ps \in Params, SetParams(p, ps)  PROVE IInv'
  BY <1>8, SetParamsKeeps
<1>9. ASSUME NEW i \in 1 .. MaxSessions, Tick(i)  PROVE IInv'  BY <1>9, TickKeeps
<1>10. ASSUME NEW i \in 1 .. MaxSessions, LaunchGame(i)  PROVE IInv'  BY <1>10, LaunchGameKeeps
<1>11. ASSUME NEW i \in 1 .. MaxSessions, LaunchFails(i)  PROVE IInv'
  BY <1>11, LaunchFailsKeeps
<1>12. ASSUME NEW i \in 1 .. MaxSessions, QueueSweep(i)  PROVE IInv'  BY <1>12, QueueSweepKeeps
<1>13. ASSUME NEW i \in 1 .. MaxSessions, Immediate(i)  PROVE IInv'  BY <1>13, ImmediateKeeps
<1>14. ASSUME NEW s \in LobbySlots, Bind(s)  PROVE IInv'  BY <1>14, BindKeeps
<1>15. ASSUME NEW s \in LobbySlots, DropIn(s)  PROVE IInv'  BY <1>15, DropInKeeps
<1>16. ASSUME NEW G \in SUBSET LobbySlots, GoLive(G)  PROVE IInv'  BY <1>16, GoLiveKeeps
<1>17. ASSUME NEW k \in DOMAIN socks, CloseGame(k)  PROVE IInv'  BY <1>17, CloseGameKeeps
<1>18. ASSUME ConnectOther \/ CloseOther  PROVE IInv'  BY <1>18, OtherKeeps
<1> QED  BY <1>1, <1>2, <1>3, <1>4, <1>5, <1>6, <1>7, <1>8, <1>9, <1>10, <1>11, <1>12, <1>13,
            <1>14, <1>15, <1>16, <1>17, <1>18 DEF LobbyNext

THEOREM Invariance == LobbySpec => []IInv
<1>1. LobbyInit => IInv  BY InitHolds
<1>2. IInv /\ [LobbyNext]_lobbyVars => IInv'  BY NextKeeps
<1> QED  BY <1>1, <1>2, PTL DEF LobbySpec

\* The lobby's tables agree in every reachable state: seats and closures, what
\* was cast, the connections counted, the timers due (see LobbySound).
THEOREM LobbyStaysSound == LobbySpec => []LobbySound
<1>1. IInv => LobbySound  BY DEF IInv
<1> QED  BY <1>1, Invariance, PTL

\* No step but the last tick sends launch frames.
LEMMA LaunchesAreOfOneStep ==
  ASSUME LobbyNext
  PROVE  launches' = Unsent \/ \E i \in 1 .. MaxSessions : LaunchGame(i) \/ LaunchFails(i)
BY DEF LobbyNext, ConnectSeat, ConnectObserver, RefuseLobby, CloseLobby, PickSlot, SetParams,
       Start, Tick, QueueSweep, Immediate, Bind, DropIn, Attach, GoLive, CloseGame, ConnectOther,
       CloseOther

\* Where one sits is a seat of the lobby, and nobody else's.
LEMMA SeatIsOnes ==
  ASSUME NEW p \in Peers, Listens(lobby, p)
  PROVE  SeatOf(p) \in Seated(lobby) /\ lobby[SeatOf(p)] = p
<1>1. \E s \in LobbySeats : lobby[s] = p  BY DEF Listens
<1>2. SeatOf(p) \in LobbySeats /\ lobby[SeatOf(p)] = p  BY <1>1 DEF SeatOf
<1> QED  BY <1>2, LobbyAssumption DEF Seated

\* The last tick's frames are of the session's params and seats, each for the
\* slot that its member sits on, which plays and has a token now.
LEMMA FramesAgree ==
  ASSUME IInv, NEW i \in 1 .. MaxSessions, LastTick(i), NEW S \in SUBSET Seated(lobby),
         S \subseteq LobbySlots, launches' = Frames(S),
         session'.params = session.params, session'.slots = session.slots,
         session'.ingame = session.ingame, S \subseteq session'.token
  PROVE  LaunchAgrees'
<1> USE DEF IInv
<1>1. /\ session.params = params /\ Seated(lobby) \subseteq session.slots
      /\ session.ingame = session.slots \cap LobbySlots
  BY DEF LastTick, Current, SessionTrue
<1>2. ASSUME NEW p \in Peers, launches'[p] # NoOne
      PROVE  /\ launches'[p].params = params /\ launches'[p].slots = session.slots
             /\ launches'[p].slot \in S /\ lobby[launches'[p].slot] = p
  <2>1. /\ Listens(lobby, p) /\ SeatOf(p) \in S
        /\ launches'[p] = [params |-> params, slots |-> session.slots, slot |-> SeatOf(p)]
    BY <1>2 DEF Frames
  <2> QED  BY <2>1, SeatIsOnes
<1>3. \A p, q \in Peers : launches'[p] # NoOne /\ launches'[q] # NoOne
                           /\ launches'[p].slot = launches'[q].slot => p = q
  BY <1>2
<1> QED  BY <1>1, <1>2, <1>3 DEF LaunchAgrees

LEMMA LaunchAgreed ==
  ASSUME IInv, NEW i \in 1 .. MaxSessions, LaunchGame(i) \/ LaunchFails(i)
  PROVE  LaunchAgrees'
<1>1. session \in Session
  BY DEF IInv, LobbySound, LobbyTypeOK, LaunchGame, LaunchFails, LastTick, Current
<1>2. CASE LaunchGame(i)
  <2>1. /\ session' = [session EXCEPT !.launched = TRUE, !.token = @ \cup Seated(lobby)]
        /\ LastTick(i) /\ Seated(lobby) \subseteq LobbySlots /\ launches' = Frames(Seated(lobby))
    BY <1>2 DEF LaunchGame
  <2>2. /\ session'.params = session.params /\ session'.slots = session.slots
        /\ session'.ingame = session.ingame /\ Seated(lobby) \subseteq session'.token
    BY <1>1, <2>1 DEF Session
  <2> QED  BY <2>1, <2>2, FramesAgree
<1>3. CASE LaunchFails(i)
  <2>1. LastTick(i)  BY <1>3 DEF LaunchFails
  <2>2. PICK early \in SUBSET (Seated(lobby) \cap LobbySlots) :
          session' = [session EXCEPT !.token = @ \cup early] /\ launches' = Frames(early)
    BY <1>3 DEF LaunchFails
  <2>3. /\ session'.params = session.params /\ session'.slots = session.slots
        /\ session'.ingame = session.ingame /\ early \subseteq session'.token
    BY <1>1, <2>2 DEF Session
  <2> QED  BY <2>1, <2>2, <2>3, FramesAgree
<1> QED  BY <1>2, <1>3

LEMMA UnsentAgrees ==
  ASSUME launches = Unsent
  PROVE  LaunchAgrees
BY DEF LaunchAgrees, Unsent

\* A launch that gets to the end has a frame for every member that reads.
LEMMA AllAreSent ==
  ASSUME IInv, NEW i \in 1 .. MaxSessions, LaunchGame(i), NEW p \in Peers, Listens(lobby, p)
  PROVE  launches'[p] # NoOne
<1>1. SeatOf(p) \in Seated(lobby)  BY SeatIsOnes
<1> DEFINE F == [params |-> params, slots |-> session.slots, slot |-> SeatOf(p)]
<1>2. launches'[p] = F  BY <1>1 DEF LaunchGame, Frames
<1>3. F # NoOne
  <2>1. params \in Params /\ session \in Session
    BY DEF IInv, LobbySound, LobbyTypeOK, LaunchGame, LastTick, Current
  <2>2. F \in LaunchFrame  BY <1>1, <2>1 DEF LaunchFrame, Session, Seated
  <2> QED  BY <2>2, LobbyAssumption
<1> QED  BY <1>2, <1>3

\* A countdown of somebody's is moved by its own ticks alone.
LEMMA CountdownStep ==
  ASSUME IInv, [LobbyNext]_lobbyVars,
         session # NoOne, session.id \in ticks, session.ingame # {}
  PROVE  /\ session' # NoOne /\ session'.id = session.id
         /\ session'.ingame = session.ingame
         /\ session'.n \in {session.n, session.n - 1}
         /\ session'.launched =>
              session.n = 0 /\ \A p \in Peers : Listens(lobby, p) => launches'[p] # NoOne
<1> USE DEF IInv, LobbySound
<1>1. session \in Session /\ ~ session.launched  BY DEF LobbyTypeOK, NotYet
<1> DEFINE Sent == \A p \in Peers : Listens(lobby, p) => launches'[p] # NoOne
           Kept == /\ session' # NoOne /\ session'.id = session.id
                   /\ session'.ingame = session.ingame
                   /\ session'.n \in {session.n, session.n - 1}
                   /\ session'.launched => session.n = 0 /\ Sent
<1> HIDE DEF Sent
<1>2. ASSUME NEW i \in 1 .. MaxSessions, Tick(i)  PROVE Kept
  <2>1. session' = [session EXCEPT !.n = @ - 1] /\ session.n > 0  BY <1>2 DEF Tick
  <2>2. session.n - 1 \in 0 .. Count - 1
    <3>1. session.n \in 0 .. Count - 1  BY <1>1 DEF Session
    <3> QED  BY <2>1, <3>1, LobbyAssumption
  <2>3. session' \in Session  BY <1>1, <2>1, <2>2 DEF Session
  <2> QED  BY <1>1, <2>1, <2>3, LobbyAssumption DEF Session
<1>3. ASSUME NEW i \in 1 .. MaxSessions, LaunchGame(i)  PROVE Kept
  <2>1. /\ session' = [session EXCEPT !.launched = TRUE, !.token = @ \cup Seated(lobby)]
        /\ session.n = 0
    BY <1>3 DEF LaunchGame, LastTick
  <2>2. session' \in Session
    <3>1. session.token \cup Seated(lobby) \in SUBSET LobbySlots
      BY <1>1, <1>3 DEF Session, LaunchGame
    <3> QED  BY <1>1, <2>1, <3>1 DEF Session
  <2>3. Sent  BY <1>3, AllAreSent DEF Sent
  <2> QED  BY <1>1, <2>1, <2>2, <2>3, LobbyAssumption DEF Session
<1>4. ASSUME NEW i \in 1 .. MaxSessions, LaunchFails(i)  PROVE Kept
  <2>1. PICK early \in SUBSET (Seated(lobby) \cap LobbySlots) :
          session' = [session EXCEPT !.token = @ \cup early]
    BY <1>4 DEF LaunchFails
  <2>2. session' \in Session
    <3>1. session.token \cup early \in SUBSET LobbySlots  BY <1>1 DEF Session
    <3> QED  BY <1>1, <2>1, <3>1 DEF Session
  <2> QED  BY <1>1, <2>1, <2>2, LobbyAssumption DEF Session
<1>5. ASSUME NEW i \in 1 .. MaxSessions, Immediate(i)  PROVE UNCHANGED session
  <2>1. ~ Judges(i)  BY <1>5 DEF Immediate, Judges, Current, NotYet
  <2> QED  BY <1>5, <2>1 DEF Immediate
<1>6. ASSUME NEW s \in LobbySlots, Bind(s) \/ DropIn(s)  PROVE Kept
  <2>1. session' = [session EXCEPT !.joined = @ \cup {s}, !.token = @ \cup {s},
                                   !.joining = IF s \in session.ingame THEN @ ELSE @ \cup {s}]
    BY <1>6 DEF Bind, DropIn, Attach
  <2>2. session' \in Session
    <3>1. /\ session.joined \cup {s} \in SUBSET LobbySlots
          /\ session.token \cup {s} \in SUBSET LobbySlots
          /\ (IF s \in session.ingame THEN session.joining ELSE session.joining \cup {s})
               \in SUBSET LobbySlots
      BY <1>1 DEF Session
    <3> QED  BY <1>1, <2>1, <3>1 DEF Session
  <2> QED  BY <1>1, <2>1, <2>2, LobbyAssumption DEF Session
<1>7. ASSUME NEW G \in SUBSET LobbySlots, GoLive(G)  PROVE FALSE  BY <1>7, GoLiveIsLater
<1>8. ASSUME NEW k \in DOMAIN socks, CloseGame(k)  PROVE Kept
  <2>1. CASE ~ Current(k[1])
    <3>1. UNCHANGED session  BY <1>8, <2>1 DEF CloseGame
    <3> QED  BY <1>1, <3>1 DEF Session
  <2>2. CASE Current(k[1])
    <3>1. session.ingame \ {k[2]} = session.ingame  BY <2>2 DEF Current, NotYet
    <3>2. session' = [session EXCEPT !.ingame = session.ingame, !.token = @ \ {k[2]},
                                     !.joining = @ \ {k[2]}]
      BY <1>8, <2>2, <3>1 DEF CloseGame
    <3>3. session' \in Session
      <4>1. /\ session.token \ {k[2]} \in SUBSET LobbySlots
            /\ session.joining \ {k[2]} \in SUBSET LobbySlots
            /\ session.ingame \in SUBSET LobbySlots
        BY <1>1 DEF Session
      <4> QED  BY <1>1, <3>2, <4>1 DEF Session
    <3> QED  BY <1>1, <3>2, <3>3, LobbyAssumption DEF Session
  <2> QED  BY <2>1, <2>2
<1>9. CASE UNCHANGED session  BY <1>1, <1>9 DEF Session
<1>10. \/ UNCHANGED session
       \/ \E i \in 1 .. MaxSessions : Tick(i) \/ LaunchGame(i) \/ LaunchFails(i)
       \/ \E s \in LobbySlots : Bind(s) \/ DropIn(s)
       \/ \E k \in DOMAIN socks : CloseGame(k)
  BY <1>5, <1>7 DEF LobbyNext, lobbyVars, ConnectSeat, ConnectObserver, RefuseLobby, CloseLobby,
     PickSlot, SetParams, Start, MaySet, QueueSweep, ConnectOther, CloseOther
<1> QED  BY <1>2, <1>3, <1>4, <1>6, <1>8, <1>9, <1>10 DEF Sent

\* A launch is one game for everyone it is sent to, whole or cut short at a seat
\* that is no slot, and is of a countdown that nothing else cut short (see
\* LaunchAgrees and CountdownIsKept).
THEOREM LaunchStaysOne == LobbySpec => LaunchIsOne
<1>1. LobbyInit => LaunchAgrees  BY UnsentAgrees DEF LobbyInit
<1>2. IInv /\ LaunchAgrees /\ [LobbyNext]_lobbyVars => LaunchAgrees'
  <2> SUFFICES ASSUME IInv, LaunchAgrees, [LobbyNext]_lobbyVars  PROVE LaunchAgrees'
    OBVIOUS
  <2>1. CASE UNCHANGED lobbyVars  BY <2>1 DEF lobbyVars, LaunchAgrees
  <2>2. CASE launches' = Unsent  BY <2>2 DEF LaunchAgrees, Unsent
  <2>3. CASE \E i \in 1 .. MaxSessions : LaunchGame(i) \/ LaunchFails(i)  BY <2>3, LaunchAgreed
  <2> QED  BY <2>1, <2>2, <2>3, LaunchesAreOfOneStep
<1>3. IInv /\ [LobbyNext]_lobbyVars =>
        [session # NoOne /\ session.id \in ticks /\ session.ingame # {} =>
           /\ session' # NoOne /\ session'.id = session.id
           /\ session'.ingame = session.ingame
           /\ session'.n \in {session.n, session.n - 1}
           /\ session'.launched =>
                /\ session.n = 0
                /\ \A p \in Peers : Listens(lobby, p) => launches'[p] # NoOne]_lobbyVars
  BY CountdownStep
<1>4. LobbySpec => []LaunchAgrees  BY <1>1, <1>2, Invariance, PTL DEF LobbySpec
<1>5. LobbySpec => CountdownIsKept  BY <1>3, Invariance, PTL DEF LobbySpec, CountdownIsKept
<1> QED  BY <1>4, <1>5 DEF LaunchIsOne
===============================================================================
