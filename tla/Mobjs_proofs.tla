---------------------------- MODULE Mobjs_proofs ----------------------------
(***************************************************************************)
(* No pointer to a mobj outlives what it points to, and no item of the     *)
(* respawn queue is there twice: proofs about Mobjs.                       *)
(*                                                                         *)
(* The invariant (IInv) says of a world between two steps that it is       *)
(* Sound.  Inside a step some players, X, have no body of their own yet:   *)
(* G_DoReborn has just taken the old one from its player, or P_SetupLevel  *)
(* has not come to them.  Underway says what holds then, and each function *)
(* on the way is shown to keep it, until the last P_SpawnPlayer leaves X   *)
(* empty.                                                                  *)
(***************************************************************************)
EXTENDS Mobjs, FiniteSetTheorems, WellFoundedInduction, TLAPS

Typed(v) ==
  /\ v \in Worlds
  /\ Len(v.bodyque) <= BODYQUESIZE /\ Len(v.itemque) < ITEMQUESIZE
  /\ Len(v.targets) <= MAXBRAINTARGETS

\* A player outside X and its body point to each other.
Owned(v, X) ==
  /\ \A j \in Slots \ X : v.mo[j] # NULL =>
       v.mobj[v.mo[j]].kind = "body" /\ v.mobj[v.mo[j]].player = j
  /\ \A id \in Addresses : v.mobj[id].kind = "body" /\ v.mobj[id].player # NULL =>
       v.mobj[id].player \notin X /\ v.mo[v.mobj[id].player] = id
  /\ \A j \in v.in \ X : v.ps[j] # "reborn" => v.mo[j] # NULL

IsCorpse(v, id) == v.mobj[id].kind = "body" /\ v.mobj[id].player = NULL
Buried(v) == IsInjective(v.bodyque) /\ \A id \in Range(v.bodyque) : IsCorpse(v, id)

Aimed(v) ==
  /\ v.awake => /\ Range(v.targets) \subseteq Of(v, "target") /\ v.targets # <<>>
                /\ v.on \in 0 .. Len(v.targets) - 1
  /\ \A id \in Of(v, "cube") : v.mobj[id].target \in Of(v, "target") \cup {NULL}
  /\ session.map.targets > 0 => Of(v, "target") # {}

\* Before a load each item lies at its start or is queued, and none is lost while
\* the queue has room for all.
Fresh(v) ==
  /\ IsInjective(v.itemque) /\ Range(v.itemque) \subseteq session.map.items
  /\ \A p \in Slots : /\ v.lying[p] <= 1
                      /\ v.lying[p] = 1 => p \in session.map.items \ Range(v.itemque)
  /\ Cardinality(session.map.items) < ITEMQUESIZE =>
       \A p \in session.map.items : v.lying[p] = 1 \/ p \in Range(v.itemque)
Stocked(v) ==
  /\ ~ v.loaded => Fresh(v)
  /\ session.deathmatch # 2 => \A p \in Slots : v.lying[p] <= 1

\* What no step on the way of a body to its spot changes.
Like(v, o) == v.stage = o.stage /\ v.in = o.in /\ v.loaded = o.loaded /\ v.error = o.error

\* In the level being set up nothing but its spots and its players is there yet.
Bare(v, X) ==
  /\ v.bodyque = <<>> /\ \A j \in X : v.mo[j] = NULL
  /\ Present(v) \subseteq Of(v, "target") \cup Range(v.mo)
  /\ Cardinality(Of(v, "target")) <= session.map.targets

Underway(v, X, new, o) ==
  /\ Typed(v) /\ Owned(v, X) /\ Buried(v) /\ Aimed(v) /\ Stocked(v) /\ Like(v, o)
  /\ X \subseteq v.in /\ \A j \in X : v.mo[j] # NULL => IsCorpse(v, v.mo[j])
  /\ IF new THEN Bare(v, X) ELSE \E i : X \subseteq {i}

Sound(v) == Typed(v) /\ Owned(v, {}) /\ Buried(v) /\ Aimed(v) /\ Stocked(v)

\* A save that a load can read.
Fits(f) ==
  /\ f \in Saves /\ Len(f.mobjs) + MAXBRAINTARGETS <= Cardinality(Addresses)
  /\ \A n \in DOMAIN f.mobjs : f.mobjs[n].kind = "cube" => f.mobjs[n].target = NULL
  /\ \A m, n \in DOMAIN f.mobjs :
       /\ f.mobjs[m].kind = "body" /\ f.mobjs[n].kind = "body"
       /\ f.mobjs[m].player = f.mobjs[n].player /\ f.mobjs[m].player # NULL
       => m = n
  /\ f.awake \/ f.map.targets > 0 => \E n \in DOMAIN f.mobjs : f.mobjs[n].kind = "target"
  /\ \A p \in Slots : f.lying[p] <= 1

IInv ==
  /\ session \in Sessions /\ Typed(world)
  /\ ~ world.error => IF world.stage = "boot" THEN world = Empty(session) ELSE Sound(world)
  /\ file \in {NULL, Loaded} \/ Fits(file)
  /\ world.loaded => file = Loaded

-----------------------------------------------------------------------------
(* Sequences and sets.                                                     *)

LEMMA RangeIs ==
  ASSUME NEW S, NEW q \in Seq(S)
  PROVE  /\ Range(q) \subseteq S /\ \A k \in 1 .. Len(q) : q[k] \in Range(q)
         /\ \A x \in Range(q) : \E k \in 1 .. Len(q) : x = q[k]
BY DEF Range

LEMMA RangeEmpty == Range(<<>>) = {}
BY DEF Range

LEMMA LatestIs ==
  ASSUME NEW S, NEW q \in Seq(S), NEW x \in S, NEW n \in Nat, Len(q) <= n
  PROVE  /\ Latest(Append(q, x), n) \in Seq(S) /\ Len(Latest(Append(q, x), n)) <= n
         /\ Len(q) < n => Latest(Append(q, x), n) = Append(q, x)
         /\ Len(q) = n => /\ Len(Latest(Append(q, x), n)) = n
                          /\ \A k \in 1 .. n : Latest(Append(q, x), n)[k] = Append(q, x)[k + 1]
<1>1. Append(q, x) \in Seq(S) /\ Len(Append(q, x)) = Len(q) + 1  OBVIOUS
<1>2. CASE Len(q) < n  BY <1>1, <1>2 DEF Latest
<1>3. CASE Len(q) = n
  <2>1. Latest(Append(q, x), n) = SubSeq(Append(q, x), 2, n + 1)  BY <1>1, <1>3 DEF Latest
  <2> QED  BY <1>1, <1>3, <2>1
<1> QED  BY <1>2, <1>3

\* What a ring holds after one more entry: all, or all but the oldest.
LEMMA LatestHolds ==
  ASSUME NEW S, NEW q \in Seq(S), NEW x \in S, NEW n \in Nat, Len(q) <= n,
         IsInjective(q), x \notin Range(q)
  PROVE  LET l == Latest(Append(q, x), n) IN
         /\ IsInjective(l) /\ Range(l) \subseteq Range(q) \cup {x}
         /\ Len(q) < n => Range(l) = Range(q) \cup {x}
         /\ Len(q) = n /\ n > 0 => Head(Append(q, x)) \in Range(q) \ Range(l)
<1> DEFINE a == Append(q, x)  l == Latest(a, n)
<1>1. a \in Seq(S) /\ Len(a) = Len(q) + 1 /\ a[Len(q) + 1] = x /\ \A k \in 1 .. Len(q) : a[k] = q[k]
  OBVIOUS
<1>2. \A j, k \in 1 .. Len(a) : a[j] = a[k] => j = k
  BY <1>1, RangeIs DEF IsInjective
<1>3. Range(a) = Range(q) \cup {x}
  <2> HIDE DEF a
  <2>0. Len(q) \in Nat /\ Len(q) + 1 \in 1 .. Len(a) /\ \A k \in 1 .. Len(q) : k \in 1 .. Len(a)  BY <1>1
  <2>1. Range(a) \subseteq Range(q) \cup {x}
    <3>1. SUFFICES ASSUME NEW y \in Range(a)  PROVE y \in Range(q) \cup {x}  OBVIOUS
    <3>2. PICK k \in 1 .. Len(a) : y = a[k]  BY <1>1, RangeIs
    <3>3. k = Len(q) + 1 \/ k \in 1 .. Len(q)  BY <1>1, <2>0
    <3> QED  BY <1>1, <3>2, <3>3, RangeIs
  <2>2. Range(q) \subseteq Range(a)
    <3>1. SUFFICES ASSUME NEW y \in Range(q)  PROVE y \in Range(a)  OBVIOUS
    <3>2. PICK k \in 1 .. Len(q) : y = q[k]  BY RangeIs
    <3> QED  BY <1>1, <2>0, <3>2, RangeIs
  <2>3. x \in Range(a)  BY <1>1, <2>0, RangeIs
  <2> QED  BY <2>1, <2>2, <2>3
<1>4. CASE Len(q) < n
  <2>1. l = a  BY <1>4, LatestIs
  <2>2. IsInjective(a)  BY <1>1, <1>2 DEF IsInjective
  <2> QED  BY <1>3, <1>4, <2>1, <2>2
<1>5. CASE Len(q) = n
  <2>0. l \in Seq(S) /\ Len(l) <= n  BY LatestIs, Zenon
  <2>7. Len(q) = n => Len(l) = n /\ \A k \in 1 .. n : l[k] = a[k + 1]  BY LatestIs, Zenon
  <2>1. l \in Seq(S) /\ Len(l) = n /\ \A k \in 1 .. n : l[k] = a[k + 1]
    BY <1>5, <2>0, <2>7, Zenon
  <2> HIDE DEF a, l
  <2>2. IsInjective(l)  BY <1>1, <1>2, <1>5, <2>1 DEF IsInjective
  <2>3. Range(l) \subseteq Range(a)
    <3>1. SUFFICES ASSUME NEW y \in Range(l)  PROVE y \in Range(a)  OBVIOUS
    <3>2. PICK k \in 1 .. n : y = l[k]  BY <2>1, RangeIs
    <3>3. y = a[k + 1] /\ k + 1 \in 1 .. Len(a)  BY <1>1, <1>5, <2>1, <3>2
    <3> QED  BY <1>1, <3>3, RangeIs
  <2>4. ASSUME n > 0  PROVE Head(a) \in Range(q) \ Range(l)
    <3>1. Head(a) = a[1] /\ 1 \in 1 .. Len(q) /\ a[1] = q[1]  BY <1>1, <1>5, <2>4
    <3>2. Head(a) \in Range(q)  BY <3>1, RangeIs
    <3>3. ASSUME Head(a) \in Range(l)  PROVE FALSE
      <4>1. PICK k \in 1 .. n : Head(a) = l[k]  BY <2>1, <3>3, RangeIs
      <4>2. a[1] = a[k + 1] /\ 1 \in 1 .. Len(a) /\ k + 1 \in 1 .. Len(a)  BY <1>1, <1>5, <2>1, <3>1, <4>1
      <4> QED  BY <1>2, <4>2
    <3> QED  BY <3>2, <3>3
  <2> QED  BY <1>3, <1>5, <2>2, <2>3, <2>4 DEF a, l
<1> QED  BY <1>4, <1>5

LEMMA UpTo ==
  ASSUME NEW n \in Nat
  PROVE  IsFiniteSet(1 .. n) /\ Cardinality(1 .. n) = n
<1>1. 1 \in Int /\ n \in Int /\ (1 > n => n = 0) /\ n - 1 + 1 = n  OBVIOUS
<1>2. IsFiniteSet(1 .. n) /\ Cardinality(1 .. n) = IF 1 > n THEN 0 ELSE n - 1 + 1
  BY <1>1, FS_Interval
<1> QED  BY <1>1, <1>2

LEMMA InjectiveFits ==
  ASSUME NEW S, IsFiniteSet(S), NEW T, NEW q \in Seq(T), IsInjective(q), Range(q) \subseteq S
  PROVE  Len(q) <= Cardinality(S)
<1>1. q \in [1 .. Len(q) -> S]  BY RangeIs
<1>2. q \in Injection(1 .. Len(q), S)  BY <1>1 DEF Injection, IsInjective
<1>3. Cardinality(1 .. Len(q)) = Len(q)
  <2>1. Len(q) \in Nat  OBVIOUS
  <2> QED  BY <2>1, UpTo
<1> QED  BY <1>2, <1>3, FS_Injection

LEMMA RangeBound ==
  ASSUME NEW T, NEW q \in Seq(T)
  PROVE  IsFiniteSet(Range(q)) /\ Cardinality(Range(q)) <= Len(q)
<1>1. q \in [1 .. Len(q) -> Range(q)] /\ \A x \in Range(q) : \E k \in 1 .. Len(q) : q[k] = x
  BY RangeIs
<1>2. q \in Surjection(1 .. Len(q), Range(q))  BY <1>1 DEF Surjection
<1>3. IsFiniteSet(1 .. Len(q)) /\ Cardinality(1 .. Len(q)) = Len(q)
  <2>1. Len(q) \in Nat  OBVIOUS
  <2> QED  BY <2>1, UpTo
<1> QED  BY <1>2, <1>3, FS_Surjection

\* SetToSeq lists a finite set, each element once.
LEMMA SetToSeqIs ==
  ASSUME NEW S, IsFiniteSet(S)
  PROVE  /\ SetToSeq(S) \in Seq(S) /\ Len(SetToSeq(S)) = Cardinality(S)
         /\ IsInjective(SetToSeq(S)) /\ Range(SetToSeq(S)) = S
<1>1. Cardinality(S) \in Nat /\ ExistsBijection(1 .. Cardinality(S), S)  BY FS_CardinalityType
<1>2. \E f \in [1 .. Cardinality(S) -> S] : IsInjective(f)
  BY <1>1 DEF ExistsBijection, Bijection, Injection
<1>3. SetToSeq(S) \in [1 .. Cardinality(S) -> S] /\ IsInjective(SetToSeq(S))
  BY <1>2 DEF SetToSeq
<1>4. SetToSeq(S) \in Seq(S) /\ Len(SetToSeq(S)) = Cardinality(S)  BY <1>1, <1>3
<1>5. SetToSeq(S) \in Injection(1 .. Cardinality(S), S)  BY <1>3 DEF Injection
<1>6. Cardinality(1 .. Cardinality(S)) = Cardinality(S)  BY <1>1, UpTo
<1>7. SetToSeq(S) \in Surjection(1 .. Cardinality(S), S)  BY <1>5, <1>6, FS_Injection
<1>8. Range(SetToSeq(S)) = S  BY <1>3, <1>7 DEF Surjection, Range
<1> QED  BY <1>3, <1>4, <1>8

LEMMA SubsetOfSize ==
  ASSUME NEW S, IsFiniteSet(S), NEW n \in 0 .. Cardinality(S)
  PROVE  \E T \in SUBSET S : Cardinality(T) = n
<1> DEFINE q == SetToSeq(S)  f == [k \in 1 .. n |-> q[k]]  T == Range(f)
<1>1. /\ q \in Seq(S) /\ Len(q) = Cardinality(S) /\ IsInjective(q) /\ Cardinality(S) \in Nat
  BY SetToSeqIs, FS_CardinalityType
<1> HIDE DEF q
<1>2. /\ n \in Nat /\ \A k \in 1 .. n : k \in DOMAIN q /\ q[k] \in S  BY <1>1
<1>3. f \in [1 .. n -> T] /\ T \subseteq S  BY <1>2 DEF Range
<1>4. f \in Injection(1 .. n, T)  BY <1>1, <1>2, <1>3 DEF Injection, IsInjective
<1>5. f \in Surjection(1 .. n, T)  BY <1>3 DEF Surjection, Range
<1>6. ExistsBijection(1 .. n, T)  BY <1>4, <1>5 DEF ExistsBijection, Bijection
<1>7. Cardinality(T) = n  BY <1>2, <1>6, FS_CountingElements
<1> QED  BY <1>3, <1>7

LEMMA MinIs ==
  ASSUME NEW S \in SUBSET Nat, S # {}
  PROVE  Min(S) \in S
<1> DEFINE R == {ss \in Nat \X Nat : ss[1] < ss[2]}
<1>1. IsWellFoundedOn(R, Nat)
  BY NatLessThanWellFounded, Zenon DEF OpToRel
<1>2. PICK m \in S : \A n \in S : ~ (<<n, m>> \in R)
  <2> HIDE DEF R
  <2> QED  BY <1>1, WFMin
<1>3. \A n \in S : m <= n
  <2> TAKE n \in S
  <2>1. n \in Nat /\ m \in Nat /\ <<n, m>> \in Nat \X Nat /\ <<n, m>> \notin R  BY <1>2
  <2>2. ~ (<<n, m>>[1] < <<n, m>>[2])  BY <2>1, Zenon
  <2> QED  BY <2>1, <2>2
<1> QED  BY <1>2, <1>3 DEF Min

LEMMA NaturalsOf ==
  ASSUME NEW T, 0 \in T, \A n \in Nat : n \in T => n + 1 \in T
  PROVE  \A n \in Nat : n \in T
<1> DEFINE U == {n \in Nat : n \notin T}
<1>1. SUFFICES ASSUME U # {}  PROVE FALSE
  OBVIOUS
<1> DEFINE R == {ss \in Nat \X Nat : ss[1] < ss[2]}
<1>2. IsWellFoundedOn(R, Nat)
  BY NatLessThanWellFounded, Zenon DEF OpToRel
<1>3. PICK m \in U : \A n \in U : ~ (<<n, m>> \in R)
  <2> HIDE DEF R, U
  <2>1. U \subseteq Nat  BY DEF U
  <2> QED  BY <1>1, <1>2, <2>1, WFMin
<1>4. m \in Nat /\ m # 0 /\ m - 1 \in Nat /\ m - 1 \notin T
  BY <1>3
<1>5. m - 1 \in U /\ <<m - 1, m>> \in Nat \X Nat /\ <<m - 1, m>>[1] < <<m - 1, m>>[2]
  BY <1>4
<1>6. <<m - 1, m>> \in R  BY <1>5, Zenon
<1> QED  BY <1>3, <1>5, <1>6

-----------------------------------------------------------------------------
(* Worlds.                                                                 *)

LEMMA Fields ==
  ASSUME NEW v \in Worlds
  PROVE  /\ v.in \subseteq Slots /\ v.ps \in [Slots -> {"live", "dead", "reborn"}]
         /\ v.mo \in [Slots -> Addresses \cup {NULL}] /\ v.mobj \in [Addresses -> Objects]
         /\ v.bodyque \in Seq(Addresses) /\ v.lying \in [Slots -> Nat] /\ v.itemque \in Seq(Slots)
         /\ v.targets \in Seq(Addresses) /\ v.on \in 0 .. MAXBRAINTARGETS - 1
         /\ v.stage \in {"boot", "level", "between"} /\ v.seen \subseteq {"blind", "crowded"}
         /\ v.awake \in BOOLEAN /\ v.loaded \in BOOLEAN /\ v.error \in BOOLEAN
BY DEF Worlds

LEMMA NullIs == NULL \notin Addresses /\ NULL \notin Slots
BY MobjsAssumption

LEMMA ObjectIs ==
  ASSUME NEW m \in Objects
  PROVE  /\ m.kind \in {"gone", "target", "cube", "body"} /\ (m.kind = "gone" => m = NoMobj)
         /\ m.kind = "body" => /\ m.player \in Slots \cup {NULL} /\ m.alive \in BOOLEAN
                               /\ m.at \in Slots \cup {NULL}
         /\ m.kind = "cube" => m.target \in Addresses \cup {NULL}
BY DEF Objects, NoMobj

LEMMA LiveIs ==
  ASSUME NEW v \in Worlds, NEW id \in Addresses
  PROVE  id \in Present(v) <=> v.mobj[id].kind # "gone"
<1>1. v.mobj[id] \in Objects  BY Fields
<1>2. NoMobj.kind = "gone"  BY DEF NoMobj
<1>3. v.mobj[id].kind = "gone" <=> v.mobj[id] = NoMobj  BY <1>1, <1>2, ObjectIs
<1> QED  BY <1>3 DEF Present

LEMMA UnusedIs ==
  ASSUME NEW v \in Worlds, NEW id \in Unused(v)
  PROVE  /\ id \in Addresses /\ v.mobj[id].kind = "gone" /\ id # NULL
         /\ \A j \in Slots : v.mo[j] # id
         /\ id \notin Range(v.bodyque) /\ id \notin Range(v.targets)
<1>1. id \in Addresses /\ id \notin Present(v) /\ id \notin Pointers(v)  BY DEF Unused
<1>2. \A j \in Slots : v.mo[j] \in Range(v.mo)  BY Fields DEF Range
<1> QED  BY <1>1, <1>2, LiveIs, NullIs DEF Pointers

-----------------------------------------------------------------------------
(* A body is spawned.                                                      *)

\* The spot is a place of its own, and the new body the player's.
LEMMA SpawnIs ==
  ASSUME NEW v \in Worlds, NEW i \in v.in, NEW s \in Slots, Unused(v) # {}
  PROVE  LET u == P_SpawnPlayer(v, i, s)
             body == [kind |-> "body", player |-> i, alive |-> TRUE, at |-> s]
         IN /\ NewAddress(v) \in Unused(v) /\ u \in Worlds
            /\ u = [v EXCEPT !.mobj = [@ EXCEPT ![NewAddress(v)] = body],
                             !.ps = [@ EXCEPT ![i] = "live"], !.mo = [@ EXCEPT ![i] = NewAddress(v)]]
<1> DEFINE u == P_SpawnPlayer(v, i, s)
           body == [kind |-> "body", player |-> i, alive |-> TRUE, at |-> s]
<1>1. NewAddress(v) \in Unused(v)  BY DEF NewAddress
<1>2. NewAddress(v) \in Addresses  BY <1>1, UnusedIs
<1>3. body \in Objects /\ i \in Slots  BY Fields DEF Objects
<1>4. u = [v EXCEPT !.mobj = [@ EXCEPT ![NewAddress(v)] = body],
                    !.ps = [@ EXCEPT ![i] = "live"], !.mo = [@ EXCEPT ![i] = NewAddress(v)]]
  BY DEF P_SpawnPlayer, P_SpawnMobj, Worlds
<1> HIDE DEF body
<1>5. u \in Worlds
  <2>1. [v.mobj EXCEPT ![NewAddress(v)] = body] \in [Addresses -> Objects]  BY <1>2, <1>3, Fields
  <2>2. [v.ps EXCEPT ![i] = "live"] \in [Slots -> {"live", "dead", "reborn"}]  BY <1>3, Fields
  <2>3. [v.mo EXCEPT ![i] = NewAddress(v)] \in [Slots -> Addresses \cup {NULL}]  BY <1>2, Fields
  <2> QED  BY <1>4, <2>1, <2>2, <2>3 DEF Worlds
<1> QED  BY <1>1, <1>4, <1>5 DEF body

\* What a change to bodies leaves alone.
Beside(u, v) ==
  /\ u.lying = v.lying /\ u.itemque = v.itemque /\ u.targets = v.targets /\ u.on = v.on
  /\ u.awake = v.awake /\ Like(u, v)

LEMMA SpawnFields ==
  ASSUME NEW v \in Worlds, NEW i \in v.in, NEW s \in Slots, Unused(v) # {}
  PROVE  LET u == P_SpawnPlayer(v, i, s)
         IN /\ Beside(u, v) /\ u.bodyque = v.bodyque
            /\ u.mobj[NewAddress(v)].kind = "body" /\ u.mobj[NewAddress(v)].player = i
            /\ \A id \in Addresses \ {NewAddress(v)} : u.mobj[id] = v.mobj[id]
            /\ u.mo = [v.mo EXCEPT ![i] = NewAddress(v)] /\ u.ps = [v.ps EXCEPT ![i] = "live"]
<1> DEFINE u == P_SpawnPlayer(v, i, s)
           body == [kind |-> "body", player |-> i, alive |-> TRUE, at |-> s]
<1>1. /\ NewAddress(v) \in Unused(v)
      /\ u = [v EXCEPT !.mobj = [@ EXCEPT ![NewAddress(v)] = body],
                       !.ps = [@ EXCEPT ![i] = "live"], !.mo = [@ EXCEPT ![i] = NewAddress(v)]]
  BY SpawnIs
<1>2. NewAddress(v) \in Addresses  BY <1>1, UnusedIs
<1> HIDE DEF u
<1>3. Beside(u, v) /\ u.bodyque = v.bodyque  BY <1>1 DEF Beside, Like, Worlds
<1>4. u.mobj = [v.mobj EXCEPT ![NewAddress(v)] = body]  BY <1>1 DEF Worlds
<1>5. u.mo = [v.mo EXCEPT ![i] = NewAddress(v)] /\ u.ps = [v.ps EXCEPT ![i] = "live"]
  BY <1>1 DEF Worlds
<1>6. /\ u.mobj[NewAddress(v)] = body /\ \A id \in Addresses \ {NewAddress(v)} : u.mobj[id] = v.mobj[id]
  BY <1>2, <1>4, Fields
<1> QED  BY <1>3, <1>5, <1>6 DEF u

\* A step on the bodies keeps what the shooter and the items need, if the spots
\* and the cubes stay as they are.
LEMMA BesideKept ==
  ASSUME NEW v \in Worlds, NEW u \in Worlds, Beside(u, v),
         \A id \in Addresses : v.mobj[id].kind \in {"target", "cube"} \/ u.mobj[id].kind \in {"target", "cube"}
           => u.mobj[id] = v.mobj[id]
  PROVE  /\ Of(u, "target") = Of(v, "target")
         /\ Aimed(v) => Aimed(u)
         /\ Stocked(v) => Stocked(u)
<1>1. Of(u, "target") = Of(v, "target") /\ Of(u, "cube") = Of(v, "cube")
  BY DEF Of
<1>2. \A id \in Of(u, "cube") : u.mobj[id] = v.mobj[id]  BY DEF Of
<1>3. Aimed(v) => Aimed(u)  BY <1>1, <1>2 DEF Aimed, Beside
<1>4. Stocked(v) => Stocked(u)  BY DEF Stocked, Fresh, Beside, Like
<1> QED  BY <1>1, <1>3, <1>4

LEMMA SpawnKept ==
  ASSUME NEW v, NEW X, NEW new \in BOOLEAN, NEW o, Underway(v, X, new, o),
         NEW i \in X, NEW s \in Slots, Unused(v) # {}
  PROVE  Underway(P_SpawnPlayer(v, i, s), X \ {i}, new, o)
<1> DEFINE n == NewAddress(v)  u == P_SpawnPlayer(v, i, s)
<1>1. v \in Worlds /\ i \in v.in /\ i \in Slots  BY Fields DEF Underway, Typed
<1>2. n \in Unused(v) /\ u \in Worlds  BY <1>1, SpawnIs
<1>3. /\ n \in Addresses /\ v.mobj[n].kind = "gone" /\ n # NULL /\ \A j \in Slots : v.mo[j] # n
      /\ n \notin Range(v.bodyque)
  BY <1>1, <1>2, UnusedIs
<1>4. /\ Beside(u, v) /\ u.bodyque = v.bodyque
      /\ u.mobj[n].kind = "body" /\ u.mobj[n].player = i
      /\ \A id \in Addresses \ {n} : u.mobj[id] = v.mobj[id]
      /\ u.mo = [v.mo EXCEPT ![i] = n] /\ u.ps = [v.ps EXCEPT ![i] = "live"]
  BY <1>1, SpawnFields
<1>5. /\ v.mo \in [Slots -> Addresses \cup {NULL}] /\ v.ps \in [Slots -> {"live", "dead", "reborn"}]
      /\ v.in \subseteq Slots /\ v.bodyque \in Seq(Addresses)  BY <1>1, Fields
<1>6. u.mo[i] = n /\ u.ps[i] = "live" /\ \A j \in Slots \ {i} : u.mo[j] = v.mo[j] /\ u.ps[j] = v.ps[j]
  BY <1>1, <1>4, <1>5
<1> HIDE DEF n, u
<1>7. Typed(u)  BY <1>2, <1>4 DEF Typed, Beside, Underway
<1>8. Owned(u, X \ {i})
  <2>0. Owned(v, X) /\ X \subseteq Slots  BY <1>5 DEF Underway
  <2>1. ASSUME NEW j \in Slots \ (X \ {i}), u.mo[j] # NULL
        PROVE  u.mobj[u.mo[j]].kind = "body" /\ u.mobj[u.mo[j]].player = j
    <3>1. CASE j = i  BY <1>4, <1>6, <3>1
    <3>2. CASE j # i
      <4>1. u.mo[j] = v.mo[j] /\ v.mo[j] \in Addresses /\ v.mo[j] # n  BY <1>3, <1>5, <1>6, <2>1, <3>2
      <4> QED  BY <1>4, <2>0, <2>1, <3>2, <4>1 DEF Owned
    <3> QED  BY <3>1, <3>2
  <2>2. ASSUME NEW id \in Addresses, u.mobj[id].kind = "body", u.mobj[id].player # NULL
        PROVE  u.mobj[id].player \notin X \ {i} /\ u.mo[u.mobj[id].player] = id
    <3>1. CASE id = n  BY <1>4, <1>6, <3>1
    <3>2. CASE id # n
      <4>1. u.mobj[id] = v.mobj[id] /\ v.mobj[id].player \notin X /\ v.mo[v.mobj[id].player] = id
        BY <1>4, <2>0, <2>2, <3>2 DEF Owned
      <4>2. v.mobj[id].player \in Slots
        <5>1. v.mobj[id] \in Objects  BY <1>1, Fields
        <5> QED  BY <2>2, <4>1, <5>1, ObjectIs
      <4> QED  BY <1>6, <4>1, <4>2
    <3> QED  BY <3>1, <3>2
  <2>3. \A j \in u.in \ (X \ {i}) : u.ps[j] # "reborn" => u.mo[j] # NULL
    <3> TAKE j \in u.in \ (X \ {i})
    <3>1. j \in Slots /\ j \in v.in  BY <1>4, <1>5 DEF Beside, Like
    <3>2. CASE j = i  BY <1>3, <1>6, <3>2
    <3>3. CASE j # i  BY <1>6, <2>0, <3>1, <3>3 DEF Owned
    <3> QED  BY <3>2, <3>3
  <2> QED  BY <2>1, <2>2, <2>3 DEF Owned
<1>9. Buried(u)
  BY <1>3, <1>4, <1>5, RangeIs DEF Buried, IsCorpse, Underway
<1>10. Aimed(u) /\ Stocked(u) /\ Of(u, "target") = Of(v, "target")
  BY <1>1, <1>2, <1>3, <1>4, BesideKept DEF Underway
<1>11. /\ Like(u, o) /\ X \ {i} \subseteq u.in
       /\ \A j \in X \ {i} : u.mo[j] # NULL => IsCorpse(u, u.mo[j])
  <2>1. Like(v, o) /\ X \subseteq v.in /\ \A j \in X : v.mo[j] # NULL => IsCorpse(v, v.mo[j])
    BY DEF Underway
  <2>2. Like(u, o) /\ u.in = v.in  BY <1>4, <2>1 DEF Beside, Like
  <2> QED  BY <1>3, <1>4, <1>5, <1>6, <2>1, <2>2 DEF IsCorpse
<1>12. CASE new
  <2>1. Bare(v, X)  BY <1>12 DEF Underway
  <2>2. Present(u) \subseteq Present(v) \cup {n}
    BY <1>1, <1>2, <1>4, LiveIs DEF Present
  <2>3. Range(v.mo) \subseteq Range(u.mo) \cup {NULL} /\ n \in Range(u.mo)
    <3>1. v.mo[i] = NULL  BY <2>1 DEF Bare
    <3> QED  BY <1>1, <1>4, <1>5, <1>6, <3>1 DEF Range
  <2>4. NULL \notin Present(v)  BY NullIs DEF Present
  <2>5. Present(u) \subseteq Of(u, "target") \cup Range(u.mo)  BY <1>10, <2>1, <2>2, <2>3, <2>4 DEF Bare
  <2>6. \A j \in X \ {i} : u.mo[j] = NULL  BY <1>5, <1>6, <2>1 DEF Bare, Underway
  <2>7. Bare(u, X \ {i})  BY <1>4, <1>10, <2>1, <2>5, <2>6 DEF Bare
  <2> QED  BY <1>7, <1>8, <1>9, <1>10, <1>11, <1>12, <2>7 DEF Underway, u
<1>13. CASE ~ new
  <2>1. \E j : X \ {i} \subseteq {j}  BY <1>13 DEF Underway
  <2> QED  BY <1>7, <1>8, <1>9, <1>10, <1>11, <1>13, <2>1 DEF Underway, u
<1> QED  BY <1>12, <1>13 DEF u

-----------------------------------------------------------------------------
(* Something is picked up.                                                 *)

LEMMA SlotsAre == IsFiniteSet(Slots) /\ Cardinality(Slots) = MAXPLAYERS
<1> DEFINE n == MAXPLAYERS - 1
<1>1. MAXPLAYERS \in Nat \ {0} /\ n \in Nat /\ 0 \in Int /\ n \in Int  BY MobjsAssumption
<1>2. n + 1 = MAXPLAYERS  BY <1>1
<1>3. Slots = 0 .. n  BY DEF Slots
<1> HIDE DEF n
<1>4. IsFiniteSet(0 .. n) /\ Cardinality(0 .. n) = IF 0 > n THEN 0 ELSE n - 0 + 1
  BY <1>1, FS_Interval
<1> QED  BY <1>1, <1>2, <1>3, <1>4

LEMMA SessionIs ==
  ASSUME session \in Sessions
  PROVE  /\ session.map.items \subseteq Slots /\ IsFiniteSet(session.map.items)
         /\ session.map.starts \subseteq Slots /\ session.map.starts # {}
         /\ session.map.targets \in Nat /\ session.room \in Nat /\ session.in \subseteq Slots
         /\ session.map \in Maps /\ session.deathmatch \in 0 .. 2 /\ session.netgame \in BOOLEAN
<1>1. session \in [netgame : BOOLEAN, deathmatch : 0 .. 2, in : SUBSET Slots, map : Maps, room : Nat]
      /\ session.map.starts # {}
  BY MobjsAssumption
<1>2. IsFiniteSet(Slots)
  BY SlotsAre
<1>3. session.map \in Maps  BY <1>1
<1>4. session.map.items \subseteq Slots /\ session.map.starts \subseteq Slots /\ session.map.targets \in Nat
  BY <1>3 DEF Maps
<1>5. IsFiniteSet(session.map.items)  BY <1>2, <1>4, FS_Subset
<1> QED  BY <1>1, <1>3, <1>4, <1>5

\* Nothing but what lies there, what is queued and what was seen is changed.
Untouched(u, v) ==
  /\ u.mobj = v.mobj /\ u.mo = v.mo /\ u.ps = v.ps /\ u.bodyque = v.bodyque
  /\ u.targets = v.targets /\ u.on = v.on /\ u.awake = v.awake /\ Like(u, v)

LEMMA RemoveKept ==
  ASSUME session \in Sessions, NEW v, Typed(v), Stocked(v), NEW s \in Slots, v.lying[s] > 0
  PROVE  LET u == P_RemoveMobj(v, s) IN
         Typed(u) /\ Stocked(u) /\ Untouched(u, v)
<1> DEFINE u == P_RemoveMobj(v, s)  n == ITEMQUESIZE - 1  q == Latest(Append(v.itemque, s), n)
<1>1. /\ v \in Worlds /\ v.lying \in [Slots -> Nat] /\ v.itemque \in Seq(Slots) /\ n \in Nat
      /\ Len(v.itemque) <= n
  BY MobjsAssumption, Fields DEF Typed
<1>2. u.lying = [v.lying EXCEPT ![s] = @ - 1] /\ u.itemque = q
  BY DEF P_RemoveMobj, Typed, Worlds
<1>3. Untouched(u, v)  BY DEF P_RemoveMobj, Typed, Worlds, Untouched, Like
<1>4. q \in Seq(Slots) /\ Len(q) <= n  BY <1>1, LatestIs, Zenon
<1>5. u.lying \in [Slots -> Nat] /\ u.lying[s] = v.lying[s] - 1 /\ \A p \in Slots \ {s} : u.lying[p] = v.lying[p]
  BY <1>1, <1>2
<1>6. Typed(u)
  <2>1. u = [v EXCEPT !.lying = u.lying, !.itemque = q]  BY <1>1 DEF P_RemoveMobj, Worlds
  <2> HIDE DEF u, q
  <2>2. u \in Worlds  BY <1>1, <1>4, <1>5, <2>1 DEF Worlds
  <2> QED  BY <1>1, <1>2, <1>3, <1>4, <2>2, MobjsAssumption DEF Typed, Untouched
<1> HIDE DEF u, q
<1>7. ASSUME Fresh(v)  PROVE Fresh(u)
  <2>1. v.lying[s] = 1 /\ s \in session.map.items \ Range(v.itemque)
    BY <1>1, <1>7 DEF Fresh
  <2>2. /\ IsInjective(q) /\ Range(q) \subseteq Range(v.itemque) \cup {s}
        /\ Len(v.itemque) < n => Range(q) = Range(v.itemque) \cup {s}
    <3>1. IsInjective(v.itemque)  BY <1>7 DEF Fresh
    <3> QED  BY <1>1, <2>1, <3>1, LatestHolds DEF q
  <2>3. \A p \in Slots : /\ u.lying[p] <= 1
                         /\ u.lying[p] = 1 => p \in session.map.items \ Range(q)
    BY <1>5, <1>7, <2>1, <2>2 DEF Fresh
  <2>4. ASSUME Cardinality(session.map.items) < ITEMQUESIZE, NEW p \in session.map.items
        PROVE  u.lying[p] = 1 \/ p \in Range(q)
    <3>1. Range(v.itemque) \subseteq session.map.items \ {s}  BY <1>7, <2>1 DEF Fresh
    <3>2. /\ IsFiniteSet(session.map.items \ {s}) /\ Cardinality(session.map.items) \in Nat
          /\ Cardinality(session.map.items \ {s}) = Cardinality(session.map.items) - 1
      BY <2>1, SessionIs, FS_RemoveElement, FS_CardinalityType
    <3>3. Len(v.itemque) <= Cardinality(session.map.items \ {s})
      BY <1>1, <1>7, <3>1, <3>2, InjectiveFits DEF Fresh
    <3>4. Len(v.itemque) < n  BY <1>1, <2>4, <3>2, <3>3, MobjsAssumption
    <3> QED  BY <1>5, <1>7, <2>2, <2>4, <3>4, SessionIs DEF Fresh
  <2> QED  BY <1>2, <1>7, <2>1, <2>2, <2>3, <2>4 DEF Fresh
<1>8. Stocked(u)
  <2>1. session.deathmatch # 2 => \A p \in Slots : u.lying[p] <= 1  BY <1>1, <1>5 DEF Stocked
  <2>2. u.loaded = v.loaded  BY <1>3 DEF Untouched, Like
  <2> QED  BY <1>7, <2>1, <2>2 DEF Stocked
<1> QED  BY <1>3, <1>6, <1>8 DEF u

\* Such a change keeps what holds on the way.
LEMMA UntouchedKept ==
  ASSUME NEW v, NEW u, Typed(u), Stocked(u), Untouched(u, v), NEW X, NEW new \in BOOLEAN, NEW o
  PROVE  /\ Underway(v, X, new, o) => Underway(u, X, new, o)
         /\ Sound(v) => Sound(u)
         /\ Unused(u) = Unused(v)
<1>1. Present(u) = Present(v) /\ Of(u, "target") = Of(v, "target") /\ Of(u, "cube") = Of(v, "cube")
      /\ Unused(u) = Unused(v)
  BY DEF Present, Of, Unused, Pointers, Untouched
<1>2. \A Y : Owned(v, Y) => Owned(u, Y)  BY DEF Owned, Untouched, Like
<1>3. (Buried(v) => Buried(u)) /\ (Aimed(v) => Aimed(u))
  BY <1>1 DEF Buried, IsCorpse, Aimed, Untouched
<1>4. Underway(v, X, new, o) => Underway(u, X, new, o)
  BY <1>1, <1>2, <1>3 DEF Underway, IsCorpse, Bare, Untouched, Like
<1>5. Sound(v) => Sound(u)  BY <1>2, <1>3 DEF Sound
<1> QED  BY <1>1, <1>4, <1>5

LEMMA SeenKept ==
  ASSUME NEW v, Typed(v), Stocked(v), NEW seen \in SUBSET {"blind", "crowded"}
  PROVE  LET u == [v EXCEPT !.seen = seen] IN
         Typed(u) /\ Stocked(u) /\ Untouched(u, v) /\ u.lying = v.lying
<1> DEFINE u == [v EXCEPT !.seen = seen]
<1>1. u \in Worlds /\ Untouched(u, v) /\ u.lying = v.lying /\ u.itemque = v.itemque
  BY DEF Typed, Worlds, Untouched, Like
<1> HIDE DEF u
<1>2. Typed(u)  BY <1>1 DEF Typed, Untouched
<1>3. Stocked(u)  BY <1>1 DEF Stocked, Fresh, Untouched, Like
<1> QED  BY <1>1, <1>2, <1>3 DEF u

LEMMA TouchKept ==
  ASSUME session \in Sessions, NEW v, Typed(v), Stocked(v), NEW id, NEW s \in Slots
  PROVE  LET u == TouchItem(v, id, s) IN
         Typed(u) /\ Stocked(u) /\ Untouched(u, v)
<1> DEFINE u == TouchItem(v, id, s)
           seen == IF v.mobj[id].player = NULL THEN v.seen \cup {"blind"} ELSE v.seen
           x == [v EXCEPT !.seen = seen]
<1>1. CASE v.lying[s] = 0 \/ ~ v.mobj[id].alive
  <2>1. u = v  BY <1>1 DEF TouchItem
  <2>2. Untouched(v, v)  BY DEF Untouched, Like
  <2> QED  BY <2>1, <2>2
<1>2. CASE ~ (v.lying[s] = 0 \/ ~ v.mobj[id].alive)
  <2>1. v \in Worlds /\ v.lying \in [Slots -> Nat] /\ v.seen \subseteq {"blind", "crowded"}
    BY Fields DEF Typed
  <2>2. x = [v EXCEPT !.seen = IF v.mobj[id].player = NULL THEN @ \cup {"blind"} ELSE @]
    BY <2>1 DEF Worlds
  <2>3. u = P_RemoveMobj(x, s)  BY <1>2, <2>2 DEF TouchItem
  <2>4. Typed(x) /\ Stocked(x) /\ Untouched(x, v) /\ x.lying = v.lying
    <3>1. seen \in SUBSET {"blind", "crowded"}  BY <2>1
    <3> HIDE DEF seen
    <3> QED  BY <3>1, SeenKept
  <2>5. x.lying[s] > 0  BY <1>2, <2>1, <2>4
  <2> HIDE DEF x, u
  <2>6. Typed(u) /\ Stocked(u) /\ Untouched(u, x)  BY <2>3, <2>4, <2>5, RemoveKept
  <2>7. Untouched(u, v)  BY <2>4, <2>6 DEF Untouched, Like
  <2> QED  BY <2>6, <2>7 DEF u
<1> QED  BY <1>1, <1>2

-----------------------------------------------------------------------------
(* A spot is tried.                                                        *)

\* A corpse is buried, and the oldest of the ring goes.
LEMMA BuryKept ==
  ASSUME NEW v, NEW X, NEW o, Underway(v, X, FALSE, o), NEW i \in X,
         v.mo[i] # NULL, v.mo[i] \notin Range(v.bodyque)
  PROVE  LET u == Bury(v, v.mo[i]) IN
         Underway(u, X, FALSE, o) /\ Unused(v) \subseteq Unused(u)
<1> DEFINE me == v.mo[i]  u == Bury(v, me)  a == Append(v.bodyque, me)  q == Latest(a, BODYQUESIZE)
           h == Head(a)
<1>1. /\ v \in Worlds /\ v.bodyque \in Seq(Addresses) /\ BODYQUESIZE \in Nat \ {0}
      /\ Len(v.bodyque) <= BODYQUESIZE /\ X \subseteq Slots /\ me \in Addresses
  <2>1. v \in Worlds /\ X \subseteq v.in /\ Len(v.bodyque) <= BODYQUESIZE  BY DEF Underway, Typed
  <2>2. X \subseteq Slots /\ me \in Addresses  BY <2>1, Fields
  <2> QED  BY <2>1, <2>2, Fields, MobjsAssumption
<1>2. /\ Owned(v, X) /\ Buried(v) /\ Aimed(v) /\ Stocked(v) /\ Like(v, o) /\ X \subseteq v.in
      /\ IsCorpse(v, me) /\ X = {i}
  BY DEF Underway
<1>3. /\ q \in Seq(Addresses) /\ Len(q) <= BODYQUESIZE  BY <1>1, LatestIs, Zenon
<1>4. /\ IsInjective(q) /\ Range(q) \subseteq Range(v.bodyque) \cup {me}
      /\ Len(v.bodyque) = BODYQUESIZE => h \in Range(v.bodyque) \ Range(q)
  BY <1>1, <1>2, LatestHolds DEF Buried
<1>5. Len(a) = Len(v.bodyque) + 1  BY <1>1
<1>6. /\ u.bodyque = q /\ Beside(u, v) /\ u.mo = v.mo /\ u.ps = v.ps
      /\ u = [v EXCEPT !.bodyque = u.bodyque, !.mobj = u.mobj]
      /\ u.mobj = IF Len(a) > BODYQUESIZE THEN [v.mobj EXCEPT ![h] = NoMobj] ELSE v.mobj
  BY <1>1 DEF Bury, Worlds, Beside, Like
<1>7. \A id \in Addresses : \/ u.mobj[id] = v.mobj[id]
                            \/ u.mobj[id] = NoMobj /\ id \in Range(v.bodyque) \ Range(q)
  BY <1>1, <1>4, <1>5, <1>6, Fields
<1>8. u.mobj \in [Addresses -> Objects]
  <2>1. NoMobj \in Objects  BY DEF Objects
  <2> QED  BY <1>1, <1>6, <2>1, Fields
<1> HIDE DEF u, q, h, a
<1>9. u \in Worlds  BY <1>1, <1>3, <1>6, <1>8 DEF Worlds
<1>10. Typed(u)  BY <1>3, <1>6, <1>9 DEF Typed, Beside, Underway
<1>11. NoMobj.kind = "gone"  BY DEF NoMobj
<1>12. \A id \in Range(v.bodyque) : IsCorpse(v, id)  BY <1>2 DEF Buried
<1>13. Aimed(u) /\ Stocked(u)
  <2>1. \A id \in Addresses : v.mobj[id].kind \in {"target", "cube"} \/ u.mobj[id].kind \in {"target", "cube"}
          => u.mobj[id] = v.mobj[id]
    BY <1>7, <1>11, <1>12 DEF IsCorpse
  <2> QED  BY <1>1, <1>2, <1>6, <1>9, <2>1, BesideKept
<1>14. Owned(u, X)
  <2>1. ASSUME NEW j \in Slots \ X, u.mo[j] # NULL
        PROVE  u.mobj[u.mo[j]].kind = "body" /\ u.mobj[u.mo[j]].player = j
    <3>1. v.mo[j] \in Addresses /\ v.mobj[v.mo[j]].kind = "body" /\ v.mobj[v.mo[j]].player = j
      BY <1>1, <1>2, <1>6, <2>1, Fields DEF Owned
    <3>2. v.mo[j] \notin Range(v.bodyque)  BY <1>12, <2>1, <3>1, NullIs DEF IsCorpse
    <3> QED  BY <1>6, <1>7, <3>1, <3>2
  <2>2. ASSUME NEW id \in Addresses, u.mobj[id].kind = "body", u.mobj[id].player # NULL
        PROVE  u.mobj[id].player \notin X /\ u.mo[u.mobj[id].player] = id
    BY <1>2, <1>6, <1>7, <1>11, <2>2 DEF Owned
  <2>3. \A j \in u.in \ X : u.ps[j] # "reborn" => u.mo[j] # NULL
    BY <1>2, <1>6 DEF Owned, Beside, Like
  <2> QED  BY <2>1, <2>2, <2>3 DEF Owned
<1>15. Buried(u)
  <2>1. \A id \in Range(q) : id \in Addresses /\ u.mobj[id] = v.mobj[id] /\ IsCorpse(v, id)
    BY <1>2, <1>3, <1>4, <1>7, <1>12, RangeIs
  <2> QED  BY <1>4, <1>6, <2>1 DEF Buried, IsCorpse
<1>16. Like(u, o) /\ X \subseteq u.in /\ \A j \in X : u.mo[j] # NULL => IsCorpse(u, u.mo[j])
  <2>1. u.mobj[me] = v.mobj[me]  BY <1>1, <1>7
  <2> QED  BY <1>2, <1>6, <2>1 DEF IsCorpse, Beside, Like
<1>17. Unused(v) \subseteq Unused(u)
  <2> SUFFICES ASSUME NEW id \in Unused(v)  PROVE id \in Unused(u)  OBVIOUS
  <2>1. /\ id \in Addresses /\ v.mobj[id].kind = "gone" /\ \A j \in Slots : v.mo[j] # id
        /\ id \notin Range(v.bodyque) /\ id \notin Range(v.targets)
    BY <1>1, UnusedIs
  <2>2. id \notin Present(u)  BY <1>7, <1>9, <1>11, <2>1, LiveIs
  <2>3. id # me  BY <1>1, <2>1
  <2>4. id \notin Range(u.mo)  BY <1>1, <1>6, <2>1, Fields DEF Range
  <2>5. id \notin Pointers(u)  BY <1>4, <1>6, <2>1, <2>3, <2>4 DEF Pointers, Beside
  <2> QED  BY <2>1, <2>2, <2>5 DEF Unused
<1>18. Underway(u, X, FALSE, o)
  BY <1>2, <1>10, <1>13, <1>14, <1>15, <1>16 DEF Underway
<1> QED  BY <1>17, <1>18 DEF u

\* Player i is to be given a body: there is an address for it, and what is left of
\* its last one is not buried yet.
Ready(v, X, new, o, i) ==
  /\ Underway(v, X, new, o) /\ i \in X /\ Unused(v) # {}
  /\ v.mo[i] # NULL => v.mo[i] \notin Range(v.bodyque)

LEMMA ReadyKept ==
  ASSUME NEW v, NEW X, NEW new \in BOOLEAN, NEW o, NEW i, Ready(v, X, new, o, i),
         NEW u, Typed(u), Stocked(u), Untouched(u, v)
  PROVE  Ready(u, X, new, o, i)
BY UntouchedKept DEF Ready, Untouched

LEMMA CheckSpotKept ==
  ASSUME session \in Sessions, NEW v, NEW X, NEW new \in BOOLEAN, NEW o, NEW i,
         Ready(v, X, new, o, i), NEW s \in Slots, NEW taken
  PROVE  LET check == G_CheckSpot(v, i, s, taken) IN
         /\ check.ok \in BOOLEAN /\ Underway(check.v, X, new, o) /\ Unused(check.v) # {}
         /\ ~ check.ok => Ready(check.v, X, new, o, i)
<1> DEFINE check == G_CheckSpot(v, i, s, taken)  me == v.mo[i]
           over == InTheWay(v, s, me, taken)
           u == TouchItem(v, me, s)
           exact == \E j \in Slots : j < i /\ v.mo[j] # NULL /\ v.mobj[v.mo[j]].at = s
           seen == IF over /\ ~ exact THEN v.seen \cup {"crowded"} ELSE v.seen
           x == [v EXCEPT !.seen = IF over /\ ~ exact THEN @ \cup {"crowded"} ELSE @]
<1>1. Typed(v) /\ Stocked(v) /\ v \in Worlds /\ v.seen \subseteq {"blind", "crowded"}
  BY Fields DEF Ready, Underway, Typed
<1>2. check = IF me = NULL THEN [ok |-> ~ exact, v |-> x]
              ELSE IF over THEN [ok |-> FALSE, v |-> u] ELSE [ok |-> TRUE, v |-> Bury(u, me)]
  BY DEF G_CheckSpot
<1>3. x = [v EXCEPT !.seen = seen]  BY <1>1 DEF Worlds
<1>4. Ready(x, X, new, o, i)
  <2>1. seen \in SUBSET {"blind", "crowded"}  BY <1>1
  <2> HIDE DEF seen
  <2>2. Typed(x) /\ Stocked(x) /\ Untouched(x, v)  BY <1>1, <1>3, <2>1, SeenKept
  <2> HIDE DEF x
  <2> QED  BY <2>2, ReadyKept
<1>5. Typed(u) /\ Stocked(u) /\ Untouched(u, v)  BY <1>1, TouchKept
<1> HIDE DEF x, u, over, exact
<1>6. Ready(u, X, new, o, i)  BY <1>5, ReadyKept
<1> HIDE DEF check
<1>7. CASE me = NULL
  <2>1. check = [ok |-> ~ exact, v |-> x]  BY <1>2, <1>7
  <2> QED  BY <1>4, <2>1 DEF Ready, check, exact
<1>8. CASE me # NULL /\ over
  <2>1. check = [ok |-> FALSE, v |-> u]  BY <1>2, <1>8
  <2> QED  BY <1>6, <2>1 DEF Ready, check
<1>9. CASE me # NULL /\ ~ over
  <2>1. check = [ok |-> TRUE, v |-> Bury(u, me)]  BY <1>2, <1>9
  <2>2. new = FALSE  BY <1>9 DEF Ready, Underway, Bare
  <2>3. u.mo[i] = me  BY <1>5 DEF Untouched
  <2>4. Underway(u, X, FALSE, o) /\ i \in X /\ Unused(u) # {} /\ u.mo[i] \notin Range(u.bodyque)
    BY <1>6, <1>9, <2>2, <2>3 DEF Ready
  <2>5. Underway(Bury(u, me), X, FALSE, o) /\ Unused(u) \subseteq Unused(Bury(u, me))
    BY <1>9, <2>3, <2>4, BuryKept
  <2>6. check.ok = TRUE /\ check.v = Bury(u, me)  BY <2>1
  <2> QED  BY <2>2, <2>4, <2>5, <2>6 DEF check
<1> QED  BY <1>7, <1>8, <1>9

Tried(try, X, new, o, i) ==
  /\ try.ok \in BOOLEAN
  /\ IF try.ok THEN Underway(try.v, X \ {i}, new, o) ELSE Ready(try.v, X, new, o, i)

LEMMA TrySpotKept ==
  ASSUME session \in Sessions, NEW try, NEW X, NEW new \in BOOLEAN, NEW o, NEW i,
         Tried(try, X, new, o, i), NEW s, NEW taken
  PROVE  Tried(TrySpot(try, i, s, taken), X, new, o, i)
<1> DEFINE check == G_CheckSpot(try.v, i, s, taken)
<1>1. CASE try.ok \/ s \notin session.map.starts  BY <1>1 DEF TrySpot
<1>2. CASE ~ (try.ok \/ s \notin session.map.starts)
  <2>1. TrySpot(try, i, s, taken)
          = [check EXCEPT !.v = IF check.ok THEN P_SpawnPlayer(@, i, s) ELSE @]
    BY <1>2 DEF TrySpot
  <2>2. s \in Slots /\ Ready(try.v, X, new, o, i)  BY <1>2, SessionIs DEF Tried
  <2>3. /\ check.ok \in BOOLEAN /\ Underway(check.v, X, new, o) /\ Unused(check.v) # {}
        /\ ~ check.ok => Ready(check.v, X, new, o, i)
    BY <2>2, CheckSpotKept
  <2>4. check = [ok |-> check.ok, v |-> check.v]
    BY DEF G_CheckSpot
  <2> HIDE DEF check
  <2>5. i \in X  BY <2>2 DEF Ready
  <2>6. CASE check.ok
    <3>1. TrySpot(try, i, s, taken) = [ok |-> TRUE, v |-> P_SpawnPlayer(check.v, i, s)]
      BY <2>1, <2>3, <2>4, <2>6
    <3>2. Underway(P_SpawnPlayer(check.v, i, s), X \ {i}, new, o)  BY <2>2, <2>3, <2>5, SpawnKept
    <3> QED  BY <3>1, <3>2 DEF Tried
  <2>7. CASE ~ check.ok
    <3>1. TrySpot(try, i, s, taken) = [ok |-> FALSE, v |-> check.v]
      BY <2>1, <2>3, <2>4, <2>7
    <3> QED  BY <2>3, <2>7, <3>1 DEF Tried
  <2> QED  BY <2>6, <2>7
<1> QED  BY <1>1, <1>2

\* The loop over the starts does what its steps do.
LEMMA TryStartsSteps ==
  ASSUME NEW try, NEW i, NEW taken
  PROVE  \E f : /\ f[0] = try /\ TryStarts(try, i, taken) = f[MAXPLAYERS]
                /\ \A n \in 1 .. MAXPLAYERS : f[n] = TrySpot(f[n - 1], i, n - 1, taken)
<1> DEFINE Is(f, N) == f = [n \in 0 .. N |-> IF n = 0 THEN try ELSE TrySpot(f[n - 1], i, n - 1, taken)]
<1> DEFINE T == {N \in Nat : \E f : Is(f, N)}
<1>1. 0 \in T
  <2>1. Is([n \in 0 .. 0 |-> try], 0)  OBVIOUS
  <2> QED  BY <2>1
<1>2. ASSUME NEW N \in Nat, N \in T  PROVE N + 1 \in T
  <2>1. PICK g : Is(g, N)  BY <1>2
  <2> DEFINE h == [n \in 0 .. N + 1 |-> IF n = N + 1 THEN TrySpot(g[N], i, N, taken) ELSE g[n]]
  <2>2. \A n \in 0 .. N + 1 : h[n] = IF n = 0 THEN try ELSE TrySpot(h[n - 1], i, n - 1, taken)
    BY <2>1
  <2>3. Is(h, N + 1)
    <3>1. h = [n \in 0 .. N + 1 |-> h[n]]  OBVIOUS
    <3> HIDE DEF h
    <3> QED  BY <2>2, <3>1
  <2>4. \E f : Is(f, N + 1)
    <3> HIDE DEF h, Is
    <3> QED  BY <2>3
  <2> HIDE DEF Is
  <2> QED  BY <2>4
<1>3. MAXPLAYERS \in T
  <2> HIDE DEF T
  <2> QED  BY <1>1, <1>2, NaturalsOf, MobjsAssumption
<1>4. \E f : Is(f, MAXPLAYERS)  BY <1>3
<1> DEFINE f == CHOOSE f : Is(f, MAXPLAYERS)
<1>5. Is(f, MAXPLAYERS)  BY <1>4
<1>6. TryStarts(try, i, taken) = f[MAXPLAYERS]  BY DEF TryStarts
<1> HIDE DEF f
<1>7. f[0] = try /\ \A n \in 1 .. MAXPLAYERS : f[n] = TrySpot(f[n - 1], i, n - 1, taken)
  BY <1>5, MobjsAssumption
<1> QED  BY <1>6, <1>7

LEMMA TryStartsKept ==
  ASSUME session \in Sessions, NEW try, NEW X, NEW new \in BOOLEAN, NEW o, NEW i,
         Tried(try, X, new, o, i), NEW taken
  PROVE  Tried(TryStarts(try, i, taken), X, new, o, i)
<1>1. PICK f : /\ f[0] = try /\ TryStarts(try, i, taken) = f[MAXPLAYERS]
               /\ \A n \in 1 .. MAXPLAYERS : f[n] = TrySpot(f[n - 1], i, n - 1, taken)
  BY TryStartsSteps
<1> DEFINE T == {n \in Nat : n <= MAXPLAYERS => Tried(f[n], X, new, o, i)}
<1>2. 0 \in T  BY <1>1
<1>3. ASSUME NEW n \in Nat, n \in T  PROVE n + 1 \in T
  <2>1. CASE n + 1 <= MAXPLAYERS
    <3>1. n + 1 \in 1 .. MAXPLAYERS /\ n <= MAXPLAYERS /\ (n + 1) - 1 = n  BY <2>1, MobjsAssumption
    <3>2. f[n + 1] = TrySpot(f[n], i, n, taken)  BY <1>1, <3>1
    <3>3. Tried(f[n], X, new, o, i)  BY <1>3, <3>1
    <3> QED  BY <3>2, <3>3, TrySpotKept
  <2> QED  BY <2>1
<1>4. MAXPLAYERS \in T
  <2> HIDE DEF T
  <2> QED  BY <1>2, <1>3, NaturalsOf, MobjsAssumption
<1> QED  BY <1>1, <1>4, MobjsAssumption

-----------------------------------------------------------------------------
(* A player comes back.                                                    *)

\* Bodies are only moved or killed, players only die or press use.
Posed(u, v) ==
  /\ Beside(u, v) /\ u.mo = v.mo /\ u.bodyque = v.bodyque
  /\ \A id \in Addresses : IF v.mobj[id].kind # "body" THEN u.mobj[id] = v.mobj[id]
                     ELSE u.mobj[id].kind = "body" /\ u.mobj[id].player = v.mobj[id].player
  /\ \A j \in v.in : u.ps[j] # "reborn" => v.ps[j] # "reborn" \/ v.mo[j] # NULL

LEMMA PosedKept ==
  ASSUME NEW v, NEW u \in Worlds, Typed(v), Posed(u, v), NEW X, NEW new \in BOOLEAN, NEW o
  PROVE  /\ Underway(v, X, new, o) => Underway(u, X, new, o)
         /\ Sound(v) => Sound(u)
<1>1. /\ v \in Worlds /\ v.in \subseteq Slots /\ v.bodyque \in Seq(Addresses) /\ v.mo \in [Slots -> Addresses \cup {NULL}]
      /\ Beside(u, v) /\ u.mo = v.mo /\ u.bodyque = v.bodyque /\ u.in = v.in
  BY Fields DEF Typed, Posed, Beside, Like
<1>2. \A id \in Addresses : /\ u.mobj[id].kind = v.mobj[id].kind
                            /\ v.mobj[id].kind # "body" => u.mobj[id] = v.mobj[id]
                            /\ v.mobj[id].kind = "body" => u.mobj[id].player = v.mobj[id].player
  BY DEF Posed
<1>3. Typed(u)  BY <1>1 DEF Typed, Beside
<1>4. \A Y : Owned(v, Y) => Owned(u, Y)
  <2> TAKE Y
  <2> HAVE Owned(v, Y)
  <2>1. ASSUME NEW j \in Slots \ Y, u.mo[j] # NULL
        PROVE  u.mobj[u.mo[j]].kind = "body" /\ u.mobj[u.mo[j]].player = j
    BY <1>1, <1>2, <2>1 DEF Owned
  <2>2. ASSUME NEW id \in Addresses, u.mobj[id].kind = "body", u.mobj[id].player # NULL
        PROVE  u.mobj[id].player \notin Y /\ u.mo[u.mobj[id].player] = id
    BY <1>1, <1>2, <2>2 DEF Owned
  <2>3. \A j \in u.in \ Y : u.ps[j] # "reborn" => u.mo[j] # NULL
    BY <1>1 DEF Owned, Posed
  <2> QED  BY <2>1, <2>2, <2>3 DEF Owned
<1>5. \A id \in Addresses : IsCorpse(v, id) => IsCorpse(u, id)  BY <1>2 DEF IsCorpse
<1>6. Buried(v) => Buried(u)  BY <1>1, <1>5, RangeIs DEF Buried
<1>7. (Aimed(v) => Aimed(u)) /\ (Stocked(v) => Stocked(u)) /\ Of(u, "target") = Of(v, "target")
  <2>1. \A id \in Addresses : v.mobj[id].kind \in {"target", "cube"} \/ u.mobj[id].kind \in {"target", "cube"}
          => u.mobj[id] = v.mobj[id]
    BY <1>2
  <2> QED  BY <1>1, <2>1, BesideKept
<1>8. Present(u) = Present(v)
  <2>1. \A id \in Addresses : id \in Present(u) <=> id \in Present(v)  BY <1>1, <1>2, LiveIs
  <2> QED  BY <2>1 DEF Present
<1>9. Sound(v) => Sound(u)  BY <1>3, <1>4, <1>6, <1>7 DEF Sound
<1>10. Bare(v, X) => Bare(u, X)  BY <1>1, <1>7, <1>8 DEF Bare
<1>11. ASSUME Underway(v, X, new, o)  PROVE Underway(u, X, new, o)
  <2>1. Like(u, o)  BY <1>1, <1>11 DEF Underway, Beside, Like
  <2>2. \A j \in X : u.mo[j] # NULL => IsCorpse(u, u.mo[j])
    BY <1>1, <1>5, <1>11 DEF Underway
  <2> QED  BY <1>1, <1>3, <1>4, <1>6, <1>7, <1>10, <1>11, <2>1, <2>2 DEF Underway
<1> QED  BY <1>9, <1>11

\* G_StepAside
LEMMA AsideKept ==
  ASSUME NEW v, NEW X, NEW new \in BOOLEAN, NEW o, Underway(v, X, new, o),
         NEW i \in Slots \ X, v.mo[i] # NULL
  PROVE  Underway([v EXCEPT !.mobj[v.mo[i]].at = NULL], X, new, o)
<1> DEFINE id == v.mo[i]  u == [v EXCEPT !.mobj[id].at = NULL]  m == [v.mobj[id] EXCEPT !.at = NULL]
<1>1. Typed(v) /\ v \in Worlds /\ v.mobj \in [Addresses -> Objects]  BY Fields DEF Underway, Typed
<1>2. id \in Addresses /\ v.mobj[id].kind = "body"  BY <1>1, Fields DEF Underway, Owned
<1>3. m \in Objects /\ m.kind = "body" /\ m.player = v.mobj[id].player
  BY <1>1, <1>2 DEF Objects, NoMobj
<1>4. u.mobj = [v.mobj EXCEPT ![id] = m] /\ u = [v EXCEPT !.mobj = u.mobj]  BY <1>1 DEF Worlds
<1> HIDE DEF u, m, id
<1>5. u.mobj \in [Addresses -> Objects] /\ u.mobj[id] = m /\ \A k \in Addresses \ {id} : u.mobj[k] = v.mobj[k]
  BY <1>1, <1>2, <1>3, <1>4
<1>6. u \in Worlds /\ Beside(u, v) /\ u.mo = v.mo /\ u.bodyque = v.bodyque /\ u.ps = v.ps
  BY <1>1, <1>4, <1>5 DEF Worlds, Beside, Like
<1>7. Posed(u, v)  BY <1>2, <1>3, <1>5, <1>6 DEF Posed
<1>8. Underway(u, X, new, o)  BY <1>1, <1>6, <1>7, PosedKept
<1> QED  BY <1>8 DEF u, id

LEMMA SpawnHas ==
  ASSUME NEW v \in Worlds, NEW i \in v.in, NEW s \in Slots, Unused(v) # {}
  PROVE  P_SpawnPlayer(v, i, s).mo[i] # NULL
<1> DEFINE u == P_SpawnPlayer(v, i, s)
<1>1. /\ Beside(u, v) /\ u.bodyque = v.bodyque
      /\ u.mobj[NewAddress(v)].kind = "body" /\ u.mobj[NewAddress(v)].player = i
      /\ \A id \in Addresses \ {NewAddress(v)} : u.mobj[id] = v.mobj[id]
      /\ u.mo = [v.mo EXCEPT ![i] = NewAddress(v)] /\ u.ps = [v.ps EXCEPT ![i] = "live"]
  BY SpawnFields
<1>2. NewAddress(v) \in Unused(v)  BY DEF NewAddress
<1>3. NewAddress(v) # NULL  BY <1>2, UnusedIs
<1> HIDE DEF u
<1>4. u.mo[i] # NULL  BY <1>1, <1>3, Fields
<1> QED  BY <1>4 DEF u

LEMMA AnyStartKept ==
  ASSUME session \in Sessions, NEW v, NEW X, NEW new \in BOOLEAN, NEW o, NEW i,
         Ready(v, X, new, o, i), NEW taken, NEW u \in G_SpawnAtAnyStart(v, i, taken)
  PROVE  Underway(u, X \ {i}, new, o)
<1> DEFINE try == TryStarts([ok |-> FALSE, v |-> v], i, taken)
           s == Min(session.map.starts)
           x == P_SpawnPlayer(try.v, i, s)
<1>1. Tried([ok |-> FALSE, v |-> v], X, new, o, i)  BY DEF Tried
<1>2. Tried(try, X, new, o, i)
  <2> DEFINE first == [ok |-> FALSE, v |-> v]
  <2>1. Tried(first, X, new, o, i)  BY <1>1
  <2> HIDE DEF first
  <2>2. Tried(TryStarts(first, i, taken), X, new, o, i)  BY <2>1, TryStartsKept
  <2> QED  BY <2>2 DEF first
<1>3. s \in Slots
  <2>1. session.map.starts \subseteq Slots /\ session.map.starts # {}  BY SessionIs
  <2>2. Slots \subseteq Nat  BY MobjsAssumption DEF Slots
  <2> QED  BY <2>1, <2>2, MinIs
<1>4. u \in IF try.ok THEN {try.v} ELSE {x, [x EXCEPT !.mobj[x.mo[i]].at = NULL]}
  BY DEF G_SpawnAtAnyStart
<1> HIDE DEF try, s
<1>5. CASE try.ok  BY <1>2, <1>4, <1>5 DEF Tried
<1>6. CASE ~ try.ok
  <2>1. Ready(try.v, X, new, o, i)  BY <1>2, <1>6 DEF Tried
  <2>2. /\ try.v \in Worlds /\ i \in try.v.in /\ i \in Slots /\ Unused(try.v) # {} /\ i \in X
        /\ Underway(try.v, X, new, o)
    BY <2>1, Fields DEF Ready, Underway, Typed
  <2>3. Underway(x, X \ {i}, new, o)  BY <1>3, <2>2, SpawnKept
  <2>4. x.mo[i] # NULL  BY <1>3, <2>2, SpawnHas
  <2> HIDE DEF x
  <2>5. Underway([x EXCEPT !.mobj[x.mo[i]].at = NULL], X \ {i}, new, o)
    BY <2>2, <2>3, <2>4, AsideKept
  <2> QED  BY <1>4, <1>6, <2>3, <2>5
<1> QED  BY <1>5, <1>6

\* The worlds that the tries of a deathmatch spot may leave.
LEMMA MissSteps ==
  ASSUME NEW v, NEW i, NEW taken
  PROVE  \E f : /\ f[0] = {v} /\ MissSpots(v, i, taken) = f[MAXPLAYERS]
                /\ \A n \in 1 .. MAXPLAYERS : f[n] = MissSpot(f[n - 1], i, n - 1, taken)
<1> DEFINE start == {v}
<1> HIDE DEF start
<1> DEFINE Is(f, N) == f = [n \in 0 .. N |-> IF n = 0 THEN start ELSE MissSpot(f[n - 1], i, n - 1, taken)]
<1> DEFINE T == {N \in Nat : \E f : Is(f, N)}
<1>1. 0 \in T
  <2>1. Is([n \in 0 .. 0 |-> start], 0)  OBVIOUS
  <2> QED  BY <2>1
<1>2. ASSUME NEW N \in Nat, N \in T  PROVE N + 1 \in T
  <2>1. PICK g : Is(g, N)  BY <1>2
  <2> DEFINE h == [n \in 0 .. N + 1 |-> IF n = N + 1 THEN MissSpot(g[N], i, N, taken) ELSE g[n]]
  <2>2. \A n \in 0 .. N + 1 : h[n] = IF n = 0 THEN start ELSE MissSpot(h[n - 1], i, n - 1, taken)
    BY <2>1
  <2>3. Is(h, N + 1)
    <3>1. h = [n \in 0 .. N + 1 |-> h[n]]  OBVIOUS
    <3> HIDE DEF h
    <3> QED  BY <2>2, <3>1
  <2>4. \E f : Is(f, N + 1)
    <3> HIDE DEF h, Is
    <3> QED  BY <2>3
  <2> HIDE DEF Is
  <2> QED  BY <2>4
<1>3. MAXPLAYERS \in T
  <2> HIDE DEF T
  <2> QED  BY <1>1, <1>2, NaturalsOf, MobjsAssumption
<1>4. \E f : Is(f, MAXPLAYERS)  BY <1>3
<1> DEFINE f == CHOOSE f : Is(f, MAXPLAYERS)
<1>5. Is(f, MAXPLAYERS)  BY <1>4
<1>6. MissSpots(v, i, taken) = f[MAXPLAYERS]  BY DEF MissSpots, start
<1> HIDE DEF f
<1>7. f[0] = start /\ \A n \in 1 .. MAXPLAYERS : f[n] = MissSpot(f[n - 1], i, n - 1, taken)
  BY <1>5, MobjsAssumption
<1> QED  BY <1>6, <1>7 DEF start

LEMMA MissKept ==
  ASSUME session \in Sessions, NEW v, NEW X, NEW new \in BOOLEAN, NEW o, NEW i,
         Ready(v, X, new, o, i), NEW taken, NEW u \in MissSpots(v, i, taken)
  PROVE  Ready(u, X, new, o, i)
<1>1. PICK f : /\ f[0] = {v} /\ MissSpots(v, i, taken) = f[MAXPLAYERS]
               /\ \A n \in 1 .. MAXPLAYERS : f[n] = MissSpot(f[n - 1], i, n - 1, taken)
  BY MissSteps
<1> DEFINE T == {n \in Nat : n <= MAXPLAYERS => \A x \in f[n] : Ready(x, X, new, o, i)}
<1>2. 0 \in T  BY <1>1
<1>3. ASSUME NEW n \in Nat, n \in T  PROVE n + 1 \in T
  <2>1. SUFFICES ASSUME n + 1 <= MAXPLAYERS, NEW x \in f[n + 1]  PROVE Ready(x, X, new, o, i)
    OBVIOUS
  <2>2. n + 1 \in 1 .. MAXPLAYERS /\ n <= MAXPLAYERS /\ (n + 1) - 1 = n /\ n \in Slots
    BY <2>1, MobjsAssumption DEF Slots
  <2>3. \A y \in f[n] : Ready(y, X, new, o, i)  BY <1>3, <2>2
  <2>4. x \in MissSpot(f[n], i, n, taken)  BY <1>1, <2>1, <2>2
  <2>5. \/ x \in f[n]
        \/ \E y \in f[n] : ~ G_CheckSpot(y, i, n, taken).ok /\ x = G_CheckSpot(y, i, n, taken).v
    BY <2>4 DEF MissSpot
  <2> QED  BY <2>2, <2>3, <2>5, CheckSpotKept
<1>4. MAXPLAYERS \in T
  <2> HIDE DEF T
  <2> QED  BY <1>2, <1>3, NaturalsOf, MobjsAssumption
<1> QED  BY <1>1, <1>4, MobjsAssumption

LEMMA DeathMatchKept ==
  ASSUME session \in Sessions, NEW v, NEW X, NEW new \in BOOLEAN, NEW o, NEW i,
         Ready(v, X, new, o, i), NEW taken, NEW u \in G_DeathMatchSpawnPlayer(v, i, taken)
  PROVE  Underway(u, X \ {i}, new, o)
<1>1. PICK x \in MissSpots(v, i, taken) :
         \/ u = P_SpawnPlayer(x, i, i)
         \/ \E s \in Slots : u = P_SpawnPlayer(G_CheckSpot(x, i, s, taken).v, i, s)
  BY DEF G_DeathMatchSpawnPlayer
<1>2. Ready(x, X, new, o, i)  BY <1>1, MissKept
<1>3. i \in Slots /\ i \in X  BY <1>2, Fields DEF Ready, Underway, Typed
<1>4. CASE u = P_SpawnPlayer(x, i, i)  BY <1>2, <1>3, <1>4, SpawnKept DEF Ready
<1>5. ASSUME NEW s \in Slots, u = P_SpawnPlayer(G_CheckSpot(x, i, s, taken).v, i, s)
      PROVE  Underway(u, X \ {i}, new, o)
  <2> DEFINE y == G_CheckSpot(x, i, s, taken).v
  <2>1. Underway(y, X, new, o) /\ Unused(y) # {}  BY <1>2, CheckSpotKept
  <2> HIDE DEF y
  <2>2. Underway(P_SpawnPlayer(y, i, s), X \ {i}, new, o)  BY <1>3, <2>1, SpawnKept
  <2> QED  BY <1>5, <2>2 DEF y
<1> QED  BY <1>1, <1>4, <1>5

\* The old body is no longer the player's.
LEMMA DissociatedReady ==
  ASSUME NEW v, Typed(v), NEW i \in v.in, Unused(v) # {},
         \A j \in v.in \ {i} : v.ps[j] # "reborn" => v.mo[j] # NULL,
         \A j \in Slots : v.mo[j] # NULL => v.mobj[v.mo[j]].kind = "body" /\ v.mobj[v.mo[j]].player = j,
         \A id \in Addresses : v.mobj[id].kind = "body" /\ v.mobj[id].player # NULL => v.mo[v.mobj[id].player] = id,
         Buried(v), Aimed(v), Stocked(v)
  PROVE  Ready(Dissociated(v, i), {i}, FALSE, v, i)
<1> DEFINE id == v.mo[i]  u == Dissociated(v, i)
           m == [v.mobj[id] EXCEPT !.player = NULL, !.at = NULL]
<1>1. /\ v \in Worlds /\ i \in Slots /\ v.mobj \in [Addresses -> Objects] /\ v.mo \in [Slots -> Addresses \cup {NULL}]
      /\ v.bodyque \in Seq(Addresses) /\ v.in \subseteq Slots
  BY Fields DEF Typed
<1>2. Like(v, v)  BY DEF Like
<1>3. CASE id = NULL
  <2>1. u = v  BY <1>3 DEF Dissociated
  <2>2. Owned(v, {i})
    <3>1. ASSUME NEW k \in Addresses, v.mobj[k].kind = "body", v.mobj[k].player # NULL
          PROVE  v.mobj[k].player \notin {i}
      BY <1>3, <3>1, NullIs
    <3> QED  BY <3>1 DEF Owned
  <2>3. Underway(v, {i}, FALSE, v)  BY <1>2, <1>3, <2>2 DEF Underway
  <2> QED  BY <1>3, <2>1, <2>3 DEF Ready
<1>4. CASE id # NULL
  <2>1. id \in Addresses /\ v.mobj[id].kind = "body" /\ v.mobj[id].player = i  BY <1>1, <1>4
  <2>2. m \in Objects /\ m.kind = "body" /\ m.player = NULL
    <3>1. v.mobj[id] \in [kind : {"body"}, player : Slots \cup {NULL}, alive : BOOLEAN, at : Slots \cup {NULL}]
      BY <1>1, <2>1 DEF Objects, NoMobj
    <3> QED  BY <3>1 DEF Objects
  <2>3. u.mobj = [v.mobj EXCEPT ![id] = m] /\ u = [v EXCEPT !.mobj = u.mobj]
    <3>1. u = [v EXCEPT !.mobj[id] = [@ EXCEPT !.player = NULL, !.at = NULL]]  BY <1>4 DEF Dissociated
    <3>2. u = [v EXCEPT !.mobj = [v.mobj EXCEPT ![id] = m]]  BY <1>1, <2>1, <3>1 DEF Worlds
    <3> HIDE DEF m, u
    <3> QED  BY <1>1, <3>2 DEF Worlds
  <2> HIDE DEF u, m, id
  <2>4. u.mobj \in [Addresses -> Objects] /\ u.mobj[id] = m /\ \A k \in Addresses \ {id} : u.mobj[k] = v.mobj[k]
    BY <1>1, <2>1, <2>2, <2>3
  <2>5. u \in Worlds /\ Beside(u, v) /\ u.mo = v.mo /\ u.bodyque = v.bodyque /\ u.ps = v.ps
    BY <1>1, <2>3, <2>4 DEF Worlds, Beside, Like
  <2>6. Typed(u)  BY <2>5 DEF Typed, Beside
  <2>7. i # NULL /\ v.mo[i] = id  BY <1>1, NullIs DEF id
  <2>8. Owned(u, {i})
    <3>1. ASSUME NEW j \in Slots \ {i}, u.mo[j] # NULL
          PROVE  u.mobj[u.mo[j]].kind = "body" /\ u.mobj[u.mo[j]].player = j
      <4>1. v.mo[j] \in Addresses /\ v.mo[j] # id  BY <1>1, <2>1, <2>5, <3>1
      <4> QED  BY <2>4, <2>5, <3>1, <4>1
    <3>2. ASSUME NEW k \in Addresses, u.mobj[k].kind = "body", u.mobj[k].player # NULL
          PROVE  u.mobj[k].player \notin {i} /\ u.mo[u.mobj[k].player] = k
      <4>1. k # id /\ u.mobj[k] = v.mobj[k]  BY <2>2, <2>4, <3>2
      <4> QED  BY <2>5, <2>7, <3>2, <4>1
    <3>3. \A j \in u.in \ {i} : u.ps[j] # "reborn" => u.mo[j] # NULL
      BY <2>5 DEF Beside, Like
    <3> QED  BY <3>1, <3>2, <3>3 DEF Owned
  <2>9. id \notin Range(v.bodyque)
    BY <2>1, <2>7 DEF Buried, IsCorpse
  <2>10. Buried(u)
    <3>1. \A k \in Range(v.bodyque) : u.mobj[k] = v.mobj[k]  BY <1>1, <2>4, <2>9, RangeIs
    <3> QED  BY <2>5, <3>1 DEF Buried, IsCorpse
  <2>11. Aimed(u) /\ Stocked(u)
    <3>1. \A k \in Addresses : v.mobj[k].kind \in {"target", "cube"} \/ u.mobj[k].kind \in {"target", "cube"}
            => u.mobj[k] = v.mobj[k]
      BY <2>1, <2>2, <2>4
    <3> QED  BY <1>1, <2>5, <3>1, BesideKept
  <2>12. Like(u, v) /\ u.in = v.in  BY <2>5 DEF Beside, Like
  <2>13. IsCorpse(u, u.mo[i])  BY <2>2, <2>4, <2>5, <2>7 DEF IsCorpse
  <2>14. Underway(u, {i}, FALSE, v)
    BY <2>6, <2>8, <2>10, <2>11, <2>12, <2>13 DEF Underway
  <2>15. Unused(u) # {}
    <3>1. PICK k \in Unused(v) : TRUE  OBVIOUS
    <3>2. k \in Addresses /\ v.mobj[k].kind = "gone" /\ k \notin Present(v) /\ k \notin Pointers(v)
      BY <1>1, <3>1, UnusedIs DEF Unused
    <3>3. k # id  BY <2>1, <3>2
    <3>4. k \notin Present(u)  BY <2>4, <2>5, <3>2, <3>3, LiveIs
    <3>5. Pointers(u) = Pointers(v)  BY <2>5 DEF Pointers, Beside
    <3> QED  BY <3>2, <3>4, <3>5 DEF Unused
  <2> QED  BY <2>5, <2>7, <2>9, <2>14, <2>15 DEF Ready, u, id
<1> QED  BY <1>3, <1>4

LEMMA UnderwayEnds ==
  ASSUME NEW v, NEW o, NEW new \in BOOLEAN, Underway(v, {}, new, o)
  PROVE  Sound(v) /\ Like(v, o)
BY DEF Underway, Sound

LEMMA RebornKept ==
  ASSUME session \in Sessions, NEW v, NEW i, NEW taken,
         Ready(Dissociated(v, i), {i}, FALSE, v, i), NEW u \in G_DoReborn(v, i, taken)
  PROVE  Sound(u) /\ Like(u, v)
<1> DEFINE x == Dissociated(v, i)
           first == TrySpot([ok |-> FALSE, v |-> x], i, i, taken)
           try == TryStarts(first, i, taken)
<1>1. Ready(x, {i}, FALSE, v, i)  OBVIOUS
<1>2. \/ session.deathmatch > 0 /\ u \in G_DeathMatchSpawnPlayer(x, i, taken)
      \/ try.ok /\ u = try.v
      \/ ~ try.ok /\ u = P_SpawnPlayer(try.v, i, i)
      \/ ~ try.ok /\ u \in G_SpawnAtAnyStart(try.v, i, taken)
  BY DEF G_DoReborn
<1> HIDE DEF x
<1>3. Tried([ok |-> FALSE, v |-> x], {i}, FALSE, v, i)  BY <1>1 DEF Tried
<1>4. Tried(first, {i}, FALSE, v, i)
  <2> DEFINE start == [ok |-> FALSE, v |-> x]
  <2>1. Tried(start, {i}, FALSE, v, i)  BY <1>3
  <2> HIDE DEF start
  <2>2. Tried(TrySpot(start, i, i, taken), {i}, FALSE, v, i)  BY <2>1, TrySpotKept
  <2> QED  BY <2>2 DEF start
<1> HIDE DEF first
<1>5. Tried(try, {i}, FALSE, v, i)  BY <1>4, TryStartsKept
<1> HIDE DEF try
<1>6. Underway(u, {i} \ {i}, FALSE, v)
  <2>1. CASE u \in G_DeathMatchSpawnPlayer(x, i, taken)  BY <1>1, <2>1, DeathMatchKept
  <2>2. CASE try.ok /\ u = try.v  BY <1>5, <2>2 DEF Tried
  <2>3. CASE ~ try.ok /\ u = P_SpawnPlayer(try.v, i, i)
    <3>1. Ready(try.v, {i}, FALSE, v, i)  BY <1>5, <2>3 DEF Tried
    <3>2. i \in Slots  BY <3>1, Fields DEF Ready, Underway, Typed
    <3> QED  BY <2>3, <3>1, <3>2, SpawnKept DEF Ready
  <2>4. CASE ~ try.ok /\ u \in G_SpawnAtAnyStart(try.v, i, taken)
    <3>1. Ready(try.v, {i}, FALSE, v, i)  BY <1>5, <2>4 DEF Tried
    <3> QED  BY <2>4, <3>1, AnyStartKept
  <2> QED  BY <1>2, <2>1, <2>2, <2>3, <2>4
<1>7. {i} \ {i} = {}  OBVIOUS
<1> QED  BY <1>6, <1>7, UnderwayEnds

-----------------------------------------------------------------------------
(* A level is set up.                                                      *)

\* While a player is still to be placed there is an address for it.
LEMMA BareHasRoom ==
  ASSUME session \in Sessions, NEW v, NEW X, NEW o, Underway(v, X, TRUE, o), NEW i \in X
  PROVE  Unused(v) # {}
<1> DEFINE A == Of(v, "target")  S == Slots \ {i}  f == [j \in S |-> v.mo[j]]  B == Range(f)
           C == Range(v.targets)
<1>1. /\ v \in Worlds /\ Bare(v, X) /\ Len(v.targets) <= MAXBRAINTARGETS /\ i \in Slots /\ i \in X
      /\ v.mo \in [Slots -> Addresses \cup {NULL}] /\ v.targets \in Seq(Addresses)
  BY Fields DEF Underway, Typed
<1>2. IsFiniteSet(Addresses) /\ Cardinality(Addresses) \in Nat  BY MobjsAssumption, FS_CardinalityType
<1>3. IsFiniteSet(A) /\ Cardinality(A) \in Nat /\ Cardinality(A) <= session.map.targets
  <2>1. A \in SUBSET Addresses  BY DEF Of
  <2>2. IsFiniteSet(A)  BY <1>2, <2>1, FS_Subset
  <2> QED  BY <1>1, <2>2, FS_CardinalityType DEF Bare
<1>4. IsFiniteSet(B) /\ Cardinality(B) \in Nat /\ Cardinality(B) <= MAXPLAYERS - 1
  <2>1. IsFiniteSet(Slots) /\ Cardinality(Slots) = MAXPLAYERS
    BY SlotsAre
  <2>2. IsFiniteSet(S) /\ Cardinality(S) = MAXPLAYERS - 1
    BY <1>1, <2>1, FS_RemoveElement
  <2>3. f \in Surjection(S, B)  BY DEF Surjection, Range
  <2> HIDE DEF f, S, B
  <2>4. IsFiniteSet(B) /\ Cardinality(B) <= Cardinality(S)  BY <2>2, <2>3, FS_Surjection
  <2> QED  BY <2>2, <2>4, FS_CardinalityType
<1>5. IsFiniteSet(C) /\ Cardinality(C) \in Nat /\ Cardinality(C) <= MAXBRAINTARGETS
  <2>1. IsFiniteSet(C) /\ Cardinality(C) <= Len(v.targets)  BY <1>1, RangeBound
  <2>2. Cardinality(C) \in Nat /\ Len(v.targets) \in Nat  BY <1>1, <2>1, FS_CardinalityType
  <2> QED  BY <1>1, <2>1, <2>2, MobjsAssumption
<1>6. Range(v.mo) \subseteq B \cup {NULL}
  <2>1. v.mo[i] = NULL  BY <1>1 DEF Bare
  <2> QED  BY <1>1, <2>1 DEF Range
<1>7. ASSUME Unused(v) = {}  PROVE Addresses \subseteq (A \cup B) \cup C
  <2> SUFFICES ASSUME NEW id \in Addresses  PROVE id \in (A \cup B) \cup C  OBVIOUS
  <2>1. id \in Present(v) \cup Pointers(v)  BY <1>7 DEF Unused
  <2>2. id \in A \cup Range(v.mo) \cup C  BY <1>1, <2>1, RangeEmpty DEF Bare, Pointers
  <2>3. id # NULL  BY NullIs
  <2> HIDE DEF A, B, C
  <2> QED  BY <1>6, <2>2, <2>3
<1>8. session.map.targets + MAXPLAYERS + MAXBRAINTARGETS <= Cardinality(Addresses)
      /\ session.map.targets \in Nat /\ MAXPLAYERS \in Nat /\ MAXBRAINTARGETS \in Nat
  BY MobjsAssumption, SessionIs
<1> SUFFICES ASSUME Unused(v) = {}  PROVE FALSE  OBVIOUS
<1>9. Addresses \subseteq (A \cup B) \cup C  BY <1>7
<1> HIDE DEF A, B, C
<1>10. /\ IsFiniteSet(A \cup B) /\ Cardinality(A \cup B) \in Nat
       /\ Cardinality(A \cup B) <= Cardinality(A) + Cardinality(B)
  <2>1. IsFiniteSet(A \cup B) /\ IsFiniteSet(A \cap B)
        /\ Cardinality(A \cup B) = Cardinality(A) + Cardinality(B) - Cardinality(A \cap B)
    BY <1>3, <1>4, FS_Union, FS_Intersection
  <2>2. Cardinality(A \cap B) \in Nat /\ Cardinality(A \cup B) \in Nat  BY <2>1, FS_CardinalityType
  <2> QED  BY <1>3, <1>4, <2>1, <2>2
<1> DEFINE D == A \cup B
<1>11. IsFiniteSet(D) /\ Cardinality(D) \in Nat  BY <1>10
<1>12. D = A \cup B  OBVIOUS
<1> HIDE DEF D
<1>13. /\ IsFiniteSet(D \cup C) /\ Cardinality(D \cup C) \in Nat
       /\ Cardinality(D \cup C) <= Cardinality(D) + Cardinality(C)
  <2>1. IsFiniteSet(D \cup C) /\ IsFiniteSet(D \cap C)
        /\ Cardinality(D \cup C) = Cardinality(D) + Cardinality(C) - Cardinality(D \cap C)
    BY <1>5, <1>11, FS_Union, FS_Intersection
  <2>2. Cardinality(D \cap C) \in Nat /\ Cardinality(D \cup C) \in Nat  BY <2>1, FS_CardinalityType
  <2> QED  BY <1>5, <1>11, <2>1, <2>2
<1>14. Cardinality(Addresses) <= Cardinality(D \cup C)
  <2>1. Addresses \in SUBSET (D \cup C)  BY <1>9, <1>12
  <2> QED  BY <1>13, <2>1, FS_Subset
<1>15. Cardinality(D) <= Cardinality(A) + Cardinality(B)  BY <1>10, <1>12
<1> QED  BY <1>2, <1>3, <1>4, <1>5, <1>8, <1>11, <1>13, <1>14, <1>15

\* When everything is freed only the list of targets may still hold addresses.
LEMMA FreedIs ==
  ASSUME session \in Sessions, NEW v, Typed(v), Present(v) = {}, v.mo = [i \in Slots |-> NULL], v.bodyque = <<>>
  PROVE  /\ IsFiniteSet(Unused(v)) /\ Cardinality(Unused(v)) \in Nat
         /\ Cardinality(Addresses) <= Cardinality(Unused(v)) + MAXBRAINTARGETS
<1> DEFINE C == Addresses \cap Range(v.targets)
<1>1. v \in Worlds /\ v.targets \in Seq(Addresses) /\ Len(v.targets) <= MAXBRAINTARGETS /\ Len(v.targets) \in Nat
  BY Fields DEF Typed
<1>2. IsFiniteSet(Addresses) /\ Cardinality(Addresses) \in Nat  BY MobjsAssumption, FS_CardinalityType
<1>3. IsFiniteSet(Range(v.targets)) /\ Cardinality(Range(v.targets)) <= Len(v.targets)
      /\ Cardinality(Range(v.targets)) \in Nat
  BY <1>1, RangeBound, FS_CardinalityType
<1>4. Cardinality(C) <= MAXBRAINTARGETS /\ Cardinality(C) \in Nat
  <2>1. IsFiniteSet(C) /\ Cardinality(C) <= Cardinality(Range(v.targets))
    BY <1>3, FS_Intersection
  <2>2. Cardinality(C) \in Nat  BY <2>1, FS_CardinalityType
  <2> QED  BY <1>1, <1>3, <2>1, <2>2, MobjsAssumption
<1>5. Unused(v) = Addresses \ Range(v.targets)
  <2>1. Range(v.mo) \subseteq {NULL}  BY DEF Range
  <2> QED  BY <2>1, RangeEmpty, NullIs DEF Unused, Pointers
<1>6. IsFiniteSet(Unused(v)) /\ Cardinality(Unused(v)) = Cardinality(Addresses) - Cardinality(C)
  BY <1>2, <1>5, FS_Difference
<1>7. Cardinality(Unused(v)) \in Nat  BY <1>6, FS_CardinalityType
<1>8. MAXBRAINTARGETS \in Nat  BY MobjsAssumption
<1> HIDE DEF C
<1> QED  BY <1>2, <1>4, <1>6, <1>7, <1>8

\* Addresses enough for the spots, whatever the list of targets still holds.
LEMMA SpotsFit ==
  ASSUME session \in Sessions, NEW v, Typed(v), Present(v) = {}, v.mo = [i \in Slots |-> NULL], v.bodyque = <<>>
  PROVE  \E S \in SUBSET Unused(v) : Cardinality(S) = session.map.targets
<1>1. /\ IsFiniteSet(Unused(v)) /\ Cardinality(Unused(v)) \in Nat
      /\ Cardinality(Addresses) <= Cardinality(Unused(v)) + MAXBRAINTARGETS
  BY FreedIs
<1>2. /\ session.map.targets + MAXPLAYERS + MAXBRAINTARGETS <= Cardinality(Addresses)
      /\ MAXPLAYERS \in Nat /\ MAXBRAINTARGETS \in Nat /\ session.map.targets \in Nat
      /\ Cardinality(Addresses) \in Nat
  BY MobjsAssumption, SessionIs, FS_CardinalityType
<1>3. session.map.targets \in 0 .. Cardinality(Unused(v))  BY <1>1, <1>2
<1> QED  BY <1>1, <1>3, SubsetOfSize

LEMMA ThingsKept ==
  ASSUME session \in Sessions, NEW v, Typed(v)
  PROVE  LET u == Things(Cleared(v)) IN
         /\ Underway(u, u.in, TRUE, u)
         /\ u.stage = v.stage /\ u.in = v.in /\ ~ u.loaded /\ u.error = v.error
<1> DEFINE c == Cleared(v)
           spots == CHOOSE S \in SUBSET Unused(c) : Cardinality(S) = session.map.targets
           u == Things(c)
<1>1. v \in Worlds  BY DEF Typed
<1>2. /\ c.mobj = [id \in Addresses |-> NoMobj] /\ c.mo = [i \in Slots |-> NULL] /\ c.bodyque = <<>>
      /\ c.itemque = <<>> /\ c.awake = FALSE /\ c.loaded = FALSE
      /\ c.lying = [p \in Slots |-> IF p \in session.map.items THEN 1 ELSE 0]
      /\ c.stage = v.stage /\ c.in = v.in /\ c.error = v.error /\ c.targets = v.targets /\ c.on = v.on
  BY <1>1 DEF Cleared, NoBodies, Worlds
<1>3. c \in Worlds
  <2>1. NoMobj \in Objects  BY DEF Objects
  <2>2. /\ [id \in Addresses |-> NoMobj] \in [Addresses -> Objects]
        /\ [i \in Slots |-> NULL] \in [Slots -> Addresses \cup {NULL}]
        /\ [p \in Slots |-> IF p \in session.map.items THEN 1 ELSE 0] \in [Slots -> Nat]
    BY <2>1
  <2>3. /\ <<>> \in Seq(Addresses) /\ <<>> \in Seq(Slots)  OBVIOUS
  <2> QED  BY <1>1, <2>2, <2>3 DEF Cleared, NoBodies, Worlds
<1> HIDE DEF c
<1>4. Typed(c)
  <2>1. Len(<<>>) = 0 /\ BODYQUESIZE \in Nat \ {0} /\ ITEMQUESIZE \in Nat \ {0}  BY MobjsAssumption
  <2> QED  BY <1>2, <1>3, <2>1 DEF Typed
<1>5. Present(c) = {}  BY <1>2 DEF Present
<1>6. spots \in SUBSET Unused(c) /\ Cardinality(spots) = session.map.targets
  BY <1>2, <1>4, <1>5, SpotsFit
<1>7. u = [c EXCEPT !.mobj = [id \in Addresses |-> IF id \in spots THEN [kind |-> "target"] ELSE @[id]]]
  BY DEF Things
<1>8. spots \subseteq Addresses  BY <1>6 DEF Unused
<1> HIDE DEF spots, u
<1>9. u.mobj = [id \in Addresses |-> IF id \in spots THEN [kind |-> "target"] ELSE NoMobj]
  BY <1>2, <1>3, <1>7 DEF Worlds
<1>10. /\ Beside(u, c) /\ u.mo = c.mo /\ u.bodyque = c.bodyque /\ u = [c EXCEPT !.mobj = u.mobj]
  BY <1>3, <1>7 DEF Beside, Like, Worlds
<1>11. u \in Worlds /\ Typed(u)
  <2>1. NoMobj \in Objects /\ [kind |-> "target"] \in Objects  BY DEF Objects
  <2>2. u.mobj \in [Addresses -> Objects]  BY <1>9, <2>1
  <2>3. u \in Worlds  BY <1>3, <1>10, <2>2 DEF Worlds
  <2> QED  BY <1>4, <1>10, <2>3 DEF Typed, Beside
<1>12. \A id \in Addresses : u.mobj[id].kind = IF id \in spots THEN "target" ELSE "gone"
  BY <1>9 DEF NoMobj
<1>13. Of(u, "target") = spots /\ Of(u, "cube") = {} /\ Present(u) \subseteq spots
  <2>1. Of(u, "target") = spots /\ Of(u, "cube") = {}  BY <1>8, <1>12 DEF Of
  <2>2. Present(u) \subseteq spots  BY <1>11, <1>12, LiveIs DEF Present
  <2> QED  BY <2>1, <2>2
<1>14. Owned(u, u.in)
  <2>1. u.mo = [i \in Slots |-> NULL]  BY <1>2, <1>10
  <2> QED  BY <1>12, <2>1 DEF Owned
<1>15. Buried(u)  BY <1>2, <1>10, RangeEmpty DEF Buried, IsInjective
<1>16. Aimed(u)
  <2>1. session.map.targets > 0 => spots # {}
    BY <1>6, SessionIs, FS_EmptySet
  <2> QED  BY <1>2, <1>10, <1>13, <2>1 DEF Aimed, Beside
<1>17. Stocked(u)
  <2>1. u.itemque = <<>> /\ \A p \in Slots : u.lying[p] = IF p \in session.map.items THEN 1 ELSE 0
    BY <1>2, <1>10 DEF Beside
  <2>2. IsInjective(u.itemque) /\ Range(u.itemque) = {}  BY <2>1, RangeEmpty DEF IsInjective
  <2>3. Fresh(u)  BY <2>1, <2>2, SessionIs DEF Fresh
  <2> QED  BY <2>1, <2>3 DEF Stocked
<1>18. Bare(u, u.in)
  <2>1. Cardinality(Of(u, "target")) <= session.map.targets  BY <1>6, <1>13, SessionIs
  <2>2. \A j \in u.in : u.mo[j] = NULL  BY <1>2, <1>10, <1>11, Fields
  <2> QED  BY <1>2, <1>10, <1>13, <2>1, <2>2 DEF Bare
<1>19. /\ Like(u, u) /\ u.stage = v.stage /\ u.in = v.in /\ ~ u.loaded /\ u.error = v.error
  BY <1>2, <1>10 DEF Beside, Like
<1>20. Underway(u, u.in, TRUE, u)
  BY <1>11, <1>14, <1>15, <1>16, <1>17, <1>18, <1>19 DEF Underway, Bare
<1> QED  BY <1>19, <1>20 DEF u, c

\* The players still to be placed when a pass comes to player n.
Left(ins, pass, n) ==
  CASE pass = "own" -> {j \in ins : j \in session.map.starts => j >= n}
    [] pass = "missing" -> {j \in ins : j \notin session.map.starts /\ j >= n}
    [] pass = "random" -> {j \in ins : j >= n}

\* Whom a pass places.
Places(ins, pass, n) ==
  n \in ins /\ (pass = "own" => n \in session.map.starts) /\ (pass = "missing" => n \notin session.map.starts)

LEMMA LeftIs ==
  ASSUME session \in Sessions, NEW ins \in SUBSET Slots, NEW n \in Slots, NEW pass \in {"own", "missing", "random"}
  PROVE  IF Places(ins, pass, n)
         THEN n \in Left(ins, pass, n) /\ Left(ins, pass, n + 1) = Left(ins, pass, n) \ {n}
         ELSE Left(ins, pass, n + 1) = Left(ins, pass, n)
<1>1. n \in Int /\ Slots \subseteq Int  BY MobjsAssumption DEF Slots
<1>2. \A j \in ins : (j >= n + 1) <=> (j >= n /\ j # n)
  <2> TAKE j \in ins
  <2>1. j \in Int  BY <1>1
  <2> QED  BY <1>1, <2>1
<1>3. n >= n  BY <1>1
<1>4. CASE pass = "own"
  <2>1. \A k : Left(ins, pass, k) = {j \in ins : j \in session.map.starts => j >= k}
    BY <1>4 DEF Left
  <2> QED  BY <1>2, <1>3, <1>4, <2>1 DEF Places
<1>5. CASE pass = "missing"
  <2>1. \A k : Left(ins, pass, k) = {j \in ins : j \notin session.map.starts /\ j >= k}
    BY <1>5 DEF Left
  <2> QED  BY <1>2, <1>3, <1>5, <2>1 DEF Places
<1>6. CASE pass = "random"
  <2>1. \A k : Left(ins, pass, k) = {j \in ins : j >= k}  BY <1>6 DEF Left
  <2> QED  BY <1>2, <1>3, <1>6, <2>1 DEF Places
<1> QED  BY <1>4, <1>5, <1>6

LEMMA TurnKept ==
  ASSUME session \in Sessions, NEW v, NEW o, NEW n \in Slots, NEW pass \in {"own", "missing", "random"},
         Underway(v, Left(o.in, pass, n), TRUE, o), NEW u \in PlayersTurn(v, n, pass)
  PROVE  Underway(u, Left(o.in, pass, n + 1), TRUE, o)
<1> DEFINE X == Left(o.in, pass, n)  Y == Left(o.in, pass, n + 1)
<1>1. v.in = o.in /\ o.in \in SUBSET Slots
  <2>1. v.in = o.in /\ v \in Worlds  BY DEF Underway, Typed, Like
  <2> QED  BY <2>1, Fields
<1>2. IF Places(o.in, pass, n) THEN n \in X /\ Y = X \ {n} ELSE Y = X
  BY <1>1, LeftIs
<1>3. Underway(v, X, TRUE, o)  OBVIOUS
<1> HIDE DEF X, Y
<1>4. CASE Places(o.in, pass, n)
  <2>1. n \in X /\ Y = X \ {n}  BY <1>2, <1>4
  <2>2. Unused(v) # {}  BY <1>3, <2>1, BareHasRoom
  <2>3. Ready(v, X, TRUE, o, n)
    <3>1. v.mo[n] = NULL  BY <1>3, <2>1 DEF Underway, Bare
    <3> QED  BY <1>3, <2>1, <2>2, <3>1 DEF Ready
  <2>4. \/ u = P_SpawnPlayer(v, n, n) \/ u \in G_SpawnAtAnyStart(v, n, {})
        \/ u \in G_DeathMatchSpawnPlayer(v, n, {})
    <3>1. CASE pass = "own"  BY <1>4, <3>1 DEF PlayersTurn, Places
    <3>2. CASE pass = "missing"  BY <1>1, <1>4, <3>2 DEF PlayersTurn, Places
    <3>3. CASE pass = "random"  BY <1>1, <1>4, <3>3 DEF PlayersTurn, Places
    <3> QED  BY <3>1, <3>2, <3>3
  <2>5. Underway(u, X \ {n}, TRUE, o)
    <3>1. CASE u = P_SpawnPlayer(v, n, n)  BY <1>3, <2>1, <2>2, <3>1, SpawnKept
    <3>2. CASE u \in G_SpawnAtAnyStart(v, n, {})  BY <2>3, <3>2, AnyStartKept
    <3>3. CASE u \in G_DeathMatchSpawnPlayer(v, n, {})  BY <2>3, <3>3, DeathMatchKept
    <3> QED  BY <2>4, <3>1, <3>2, <3>3
  <2> QED  BY <2>1, <2>5 DEF Y
<1>5. CASE ~ Places(o.in, pass, n)
  <2>1. u = v
    <3>1. CASE pass = "own"  BY <1>1, <1>5, <3>1 DEF PlayersTurn, Places, P_SpawnPlayer
    <3>2. CASE pass = "missing"  BY <1>1, <1>5, <3>2 DEF PlayersTurn, Places
    <3>3. CASE pass = "random"  BY <1>1, <1>5, <3>3 DEF PlayersTurn, Places
    <3> QED  BY <3>1, <3>2, <3>3
  <2> QED  BY <1>2, <1>3, <1>5, <2>1 DEF Y
<1> QED  BY <1>4, <1>5

\* The loop over the players does what its turns do.
LEMMA TurnSteps ==
  ASSUME NEW vs, NEW pass
  PROVE  \E f : /\ f[0] = vs /\ InTurn(vs, pass) = f[MAXPLAYERS]
                /\ \A n \in 1 .. MAXPLAYERS : f[n] = EachTurn(f[n - 1], n - 1, pass)
<1> DEFINE Is(f, N) == f = [n \in 0 .. N |-> IF n = 0 THEN vs ELSE EachTurn(f[n - 1], n - 1, pass)]
<1> DEFINE T == {N \in Nat : \E f : Is(f, N)}
<1>1. 0 \in T
  <2>1. Is([n \in 0 .. 0 |-> vs], 0)  OBVIOUS
  <2> QED  BY <2>1
<1>2. ASSUME NEW N \in Nat, N \in T  PROVE N + 1 \in T
  <2>1. PICK g : Is(g, N)  BY <1>2
  <2> DEFINE h == [n \in 0 .. N + 1 |-> IF n = N + 1 THEN EachTurn(g[N], N, pass) ELSE g[n]]
  <2>2. \A n \in 0 .. N + 1 : h[n] = IF n = 0 THEN vs ELSE EachTurn(h[n - 1], n - 1, pass)
    BY <2>1
  <2>3. Is(h, N + 1)
    <3>1. h = [n \in 0 .. N + 1 |-> h[n]]  OBVIOUS
    <3> HIDE DEF h
    <3> QED  BY <2>2, <3>1
  <2>4. \E f : Is(f, N + 1)
    <3> HIDE DEF h, Is
    <3> QED  BY <2>3
  <2> HIDE DEF Is
  <2> QED  BY <2>4
<1>3. MAXPLAYERS \in T
  <2> HIDE DEF T
  <2> QED  BY <1>1, <1>2, NaturalsOf, MobjsAssumption
<1>4. \E f : Is(f, MAXPLAYERS)  BY <1>3
<1> DEFINE f == CHOOSE f : Is(f, MAXPLAYERS)
<1>5. Is(f, MAXPLAYERS)  BY <1>4
<1>6. InTurn(vs, pass) = f[MAXPLAYERS]  BY DEF InTurn
<1> HIDE DEF f
<1>7. f[0] = vs /\ \A n \in 1 .. MAXPLAYERS : f[n] = EachTurn(f[n - 1], n - 1, pass)
  BY <1>5, MobjsAssumption
<1> QED  BY <1>6, <1>7

LEMMA InTurnKept ==
  ASSUME session \in Sessions, NEW vs, NEW o, NEW pass \in {"own", "missing", "random"},
         \A v \in vs : Underway(v, Left(o.in, pass, 0), TRUE, o), NEW u \in InTurn(vs, pass)
  PROVE  Underway(u, Left(o.in, pass, MAXPLAYERS), TRUE, o)
<1>1. PICK f : /\ f[0] = vs /\ InTurn(vs, pass) = f[MAXPLAYERS]
               /\ \A n \in 1 .. MAXPLAYERS : f[n] = EachTurn(f[n - 1], n - 1, pass)
  BY TurnSteps
<1> DEFINE Good(n) == \A v \in f[n] : Underway(v, Left(o.in, pass, n), TRUE, o)
           T == {n \in Nat : n <= MAXPLAYERS => Good(n)}
<1>2. Good(0)  BY <1>1
<1>3. ASSUME NEW n \in Slots, Good(n)  PROVE Good(n + 1)
  <2>1. SUFFICES ASSUME NEW x \in f[n + 1]
                 PROVE  Underway(x, Left(o.in, pass, n + 1), TRUE, o)
    BY DEF Good
  <2>2. n + 1 \in 1 .. MAXPLAYERS /\ (n + 1) - 1 = n
    BY MobjsAssumption DEF Slots
  <2>3. x \in EachTurn(f[n], n, pass)
    <3>1. f[n + 1] = EachTurn(f[(n + 1) - 1], (n + 1) - 1, pass)  BY <1>1, <2>2, Zenon
    <3> QED  BY <2>1, <2>2, <3>1
  <2>4. PICK y \in f[n] : x \in PlayersTurn(y, n, pass)  BY <2>3 DEF EachTurn
  <2>5. Underway(y, Left(o.in, pass, n), TRUE, o)  BY <1>3, <2>4 DEF Good
  <2> QED  BY <2>4, <2>5, TurnKept
<1> HIDE DEF Good
<1>4. 0 \in T  BY <1>2
<1>5. ASSUME NEW n \in Nat, n \in T  PROVE n + 1 \in T
  <2>1. n + 1 <= MAXPLAYERS => n \in Slots /\ Good(n)  BY <1>5, MobjsAssumption DEF Slots
  <2>2. n + 1 <= MAXPLAYERS => Good(n + 1)  BY <1>3, <2>1
  <2> QED  BY <2>2
<1>6. MAXPLAYERS \in T
  <2> HIDE DEF T
  <2> QED  BY <1>4, <1>5, NaturalsOf, MobjsAssumption
<1>7. Good(MAXPLAYERS)  BY <1>6, MobjsAssumption
<1> QED  BY <1>1, <1>7, Zenon DEF Good

\* Whatever the world was before, the level it is set up with is sound, and every
\* player in the game has a body.
LEMMA SetupKept ==
  ASSUME session \in Sessions, NEW v, Typed(v), NEW u \in P_SetupLevel(v)
  PROVE  /\ Sound(u) /\ u.bodyque = <<>>
         /\ u.stage = v.stage /\ u.in = v.in /\ ~ u.loaded /\ u.error = v.error
<1> DEFINE o == Things(Cleared(v))
<1>1. /\ Underway(o, o.in, TRUE, o)
      /\ o.stage = v.stage /\ o.in = v.in /\ ~ o.loaded /\ o.error = v.error
  BY ThingsKept
<1>2. IF session.deathmatch > 0 THEN u \in InTurn({o}, "random")
      ELSE u \in InTurn(InTurn({o}, "own"), "missing")
  BY DEF P_SetupLevel
<1> HIDE DEF o
<1>3. o.in \subseteq Slots
  <2>1. o \in Worlds  BY <1>1 DEF Underway, Typed
  <2> QED  BY <2>1, Fields
<1>4. \A j \in o.in : j >= 0 /\ ~ (j >= MAXPLAYERS)
  <2> TAKE j \in o.in
  <2>1. j \in Slots  BY <1>3
  <2> QED  BY <2>1, MobjsAssumption DEF Slots
<1>5. /\ Left(o.in, "own", 0) = o.in /\ Left(o.in, "random", 0) = o.in
      /\ Left(o.in, "own", MAXPLAYERS) = Left(o.in, "missing", 0)
      /\ Left(o.in, "missing", MAXPLAYERS) = {} /\ Left(o.in, "random", MAXPLAYERS) = {}
  <2>1. /\ \A k : Left(o.in, "own", k) = {j \in o.in : j \in session.map.starts => j >= k}
        /\ \A k : Left(o.in, "missing", k) = {j \in o.in : j \notin session.map.starts /\ j >= k}
        /\ \A k : Left(o.in, "random", k) = {j \in o.in : j >= k}
    BY DEF Left
  <2> QED  BY <1>4, <2>1
<1>6. Underway(u, {}, TRUE, o)
  <2>1. CASE session.deathmatch > 0
    <3>1. \A x \in {o} : Underway(x, Left(o.in, "random", 0), TRUE, o)  BY <1>1, <1>5
    <3>2. u \in InTurn({o}, "random")  BY <1>2, <2>1
    <3>3. Underway(u, Left(o.in, "random", MAXPLAYERS), TRUE, o)  BY <3>1, <3>2, InTurnKept
    <3> QED  BY <1>5, <3>3
  <2>2. CASE ~ (session.deathmatch > 0)
    <3>1. \A x \in {o} : Underway(x, Left(o.in, "own", 0), TRUE, o)  BY <1>1, <1>5
    <3>2. \A x \in InTurn({o}, "own") : Underway(x, Left(o.in, "own", MAXPLAYERS), TRUE, o)
      BY <3>1, InTurnKept
    <3>3. \A x \in InTurn({o}, "own") : Underway(x, Left(o.in, "missing", 0), TRUE, o)
      BY <1>5, <3>2
    <3>4. u \in InTurn(InTurn({o}, "own"), "missing")  BY <1>2, <2>2
    <3>5. Underway(u, Left(o.in, "missing", MAXPLAYERS), TRUE, o)  BY <3>3, <3>4, InTurnKept
    <3> QED  BY <1>5, <3>5
  <2> QED  BY <2>1, <2>2
<1>7. Sound(u) /\ Like(u, o) /\ u.bodyque = <<>>
  <2>1. u.bodyque = <<>>  BY <1>6 DEF Underway, Bare
  <2> QED  BY <1>6, <2>1, UnderwayEnds
<1> QED  BY <1>1, <1>7 DEF Like

LEMMA LoadLevelKept ==
  ASSUME session \in Sessions, NEW v, Typed(v), NEW u \in G_DoLoadLevel(v)
  PROVE  Sound(u) /\ u.bodyque = <<>> /\ u.stage = "level" /\ u.in = v.in /\ ~ u.loaded /\ u.error = v.error
<1> DEFINE ps == [i \in Slots |-> IF i \in v.in /\ v.ps[i] = "dead" THEN "reborn" ELSE v.ps[i]]
           x == [v EXCEPT !.stage = "level", !.ps = ps]
<1>1. v \in Worlds /\ ps \in [Slots -> {"live", "dead", "reborn"}]  BY Fields DEF Typed
<1>2. u \in P_SetupLevel(x)  BY <1>1 DEF G_DoLoadLevel, Worlds
<1> HIDE DEF ps
<1>3. Typed(x) /\ x.stage = "level" /\ x.in = v.in /\ x.error = v.error
  BY <1>1 DEF Typed, Worlds
<1> HIDE DEF x
<1> QED  BY <1>2, <1>3, SetupKept

-----------------------------------------------------------------------------
(* The steps of a level that goes on.                                      *)

\* The bodies that pointers hold are alive or dead, never gone, so that only the
\* list of spots can keep addresses from use.
LEMMA RoomGives ==
  ASSUME session \in Sessions, NEW v, Sound(v), HasRoom(v, 1)
  PROVE  Unused(v) # {}
<1> DEFINE A == Present(v)  C == Range(v.targets)
<1>1. /\ v \in Worlds /\ Len(v.targets) <= MAXBRAINTARGETS /\ v.targets \in Seq(Addresses)
      /\ v.mo \in [Slots -> Addresses \cup {NULL}] /\ v.bodyque \in Seq(Addresses)
  BY Fields DEF Sound, Typed
<1>2. IsFiniteSet(Addresses) /\ Cardinality(Addresses) \in Nat  BY MobjsAssumption, FS_CardinalityType
<1>3. IsFiniteSet(A) /\ Cardinality(A) \in Nat
  <2>1. A \in SUBSET Addresses  BY DEF Present
  <2> QED  BY <1>2, <2>1, FS_Subset, FS_CardinalityType
<1>4. IsFiniteSet(C) /\ Cardinality(C) \in Nat /\ Cardinality(C) <= MAXBRAINTARGETS
  <2>1. IsFiniteSet(C) /\ Cardinality(C) <= Len(v.targets)  BY <1>1, RangeBound
  <2>2. Cardinality(C) \in Nat /\ Len(v.targets) \in Nat  BY <1>1, <2>1, FS_CardinalityType
  <2> QED  BY <1>1, <2>1, <2>2, MobjsAssumption
<1>5. Range(v.mo) \subseteq A \cup {NULL}
  <2>1. \A j \in Slots : v.mo[j] # NULL => v.mo[j] \in A
    <3> TAKE j \in Slots
    <3> HAVE v.mo[j] # NULL
    <3>1. v.mo[j] \in Addresses /\ v.mobj[v.mo[j]].kind = "body"  BY <1>1 DEF Sound, Owned
    <3> QED  BY <1>1, <3>1, LiveIs
  <2> QED  BY <1>1, <2>1 DEF Range
<1>6. Range(v.bodyque) \subseteq A
  <2>1. ASSUME NEW id \in Range(v.bodyque)  PROVE id \in A
    <3>1. id \in Addresses /\ v.mobj[id].kind = "body"  BY <1>1, RangeIs DEF Sound, Buried, IsCorpse
    <3> QED  BY <1>1, <3>1, LiveIs
  <2> QED  BY <2>1
<1> SUFFICES ASSUME Unused(v) = {}  PROVE FALSE  OBVIOUS
<1>7. Addresses \subseteq A \cup C
  <2> SUFFICES ASSUME NEW id \in Addresses  PROVE id \in A \cup C  OBVIOUS
  <2>1. id \in A \cup Range(v.mo) \cup C \cup Range(v.bodyque)  BY DEF Unused, Pointers
  <2> HIDE DEF A, C
  <2> QED  BY <1>5, <1>6, <2>1, NullIs
<1>8. /\ session.room \in Nat /\ MAXBRAINTARGETS \in Nat
      /\ session.room + MAXBRAINTARGETS <= Cardinality(Addresses)
  BY MobjsAssumption, SessionIs
<1>9. Cardinality(A) + 1 <= session.room  BY DEF HasRoom
<1> HIDE DEF A, C
<1>10. /\ IsFiniteSet(A \cup C) /\ Cardinality(A \cup C) \in Nat
       /\ Cardinality(A \cup C) <= Cardinality(A) + Cardinality(C)
  <2>1. IsFiniteSet(A \cup C) /\ IsFiniteSet(A \cap C)
        /\ Cardinality(A \cup C) = Cardinality(A) + Cardinality(C) - Cardinality(A \cap C)
    BY <1>3, <1>4, FS_Union, FS_Intersection
  <2>2. Cardinality(A \cap C) \in Nat /\ Cardinality(A \cup C) \in Nat  BY <2>1, FS_CardinalityType
  <2> QED  BY <1>3, <1>4, <2>1, <2>2
<1>11. Cardinality(Addresses) <= Cardinality(A \cup C)
  <2>1. Addresses \in SUBSET (A \cup C)  BY <1>7
  <2> QED  BY <1>10, <2>1, FS_Subset
<1> QED  BY <1>2, <1>3, <1>4, <1>8, <1>9, <1>10, <1>11

\* What a step from v to u leaves of the level: all that IInv says of it.
Goes(u, v) == Sound(u) /\ u.stage = v.stage /\ u.loaded = v.loaded /\ u.error = v.error

\* The spots as P_BrainTargets lists them.
LEMMA ListIs ==
  ASSUME NEW v, Typed(v)
  PROVE  LET u == P_BrainTargets(v) IN
         /\ Typed(u) /\ u = [v EXCEPT !.targets = u.targets, !.on = 0] /\ u.on = 0
         /\ Range(u.targets) \subseteq Of(v, "target")
         /\ Of(v, "target") # {} => u.targets # <<>>
<1> DEFINE A == Of(v, "target")  all == SetToSeq(A)  n == MAXBRAINTARGETS
           q == IF Len(all) <= n THEN all ELSE SubSeq(all, 1, n)  u == P_BrainTargets(v)
<1>1. v \in Worlds /\ n \in Nat \ {0}  BY MobjsAssumption DEF Typed
<1>2. A \subseteq Addresses /\ IsFiniteSet(A)
  <2>1. A \in SUBSET Addresses  BY DEF Of
  <2> QED  BY <2>1, MobjsAssumption, FS_Subset
<1>3. all \in Seq(A) /\ Range(all) = A  BY <1>2, SetToSeqIs
<1>4. u = [v EXCEPT !.targets = q, !.on = 0]  BY DEF P_BrainTargets
<1> HIDE DEF A, all
<1>5. q \in Seq(A) /\ Len(q) <= n /\ (q = <<>> => all = <<>>)
  <2>1. Len(all) \in Nat /\ (Len(all) = 0 => all = <<>>)  BY <1>3
  <2>2. CASE Len(all) <= n  BY <1>3, <2>2
  <2>3. CASE ~ (Len(all) <= n)
    <3>1. q = SubSeq(all, 1, n)  BY <2>3
    <3>2. q \in Seq(A) /\ Len(q) = n  BY <1>1, <1>3, <2>1, <2>3, <3>1
    <3>3. q # <<>>  BY <1>1, <3>2
    <3> QED  BY <1>1, <3>2, <3>3
  <2> QED  BY <2>2, <2>3
<1>6. Range(q) \subseteq A  BY <1>5, RangeIs
<1>7. A # {} => q # <<>>  BY <1>3, <1>5, RangeEmpty
<1> HIDE DEF q, u
<1>8. q \in Seq(Addresses)  BY <1>2, <1>5
<1>9. u.targets = q /\ u.on = 0 /\ u.bodyque = v.bodyque /\ u.itemque = v.itemque
  BY <1>1, <1>4 DEF Worlds
<1>10. u \in Worlds
  <2>1. 0 \in 0 .. MAXBRAINTARGETS - 1  BY <1>1
  <2> QED  BY <1>1, <1>4, <1>8, <2>1 DEF Worlds
<1>11. Typed(u)  BY <1>5, <1>9, <1>10 DEF Typed
<1> QED  BY <1>4, <1>6, <1>7, <1>9, <1>11 DEF u, A

\* The shooter wakes up.
LEMMA AwakeKept ==
  ASSUME session \in Sessions, session.map.targets > 0, NEW v, Sound(v)
  PROVE  Goes(P_BrainTargets([v EXCEPT !.awake = TRUE]), v)
<1> DEFINE x == [v EXCEPT !.awake = TRUE]  u == P_BrainTargets(x)
<1>1. v \in Worlds  BY DEF Sound, Typed
<1>2. /\ x \in Worlds /\ x.mobj = v.mobj /\ x.mo = v.mo /\ x.ps = v.ps /\ x.in = v.in
      /\ x.bodyque = v.bodyque /\ x.itemque = v.itemque /\ x.lying = v.lying
      /\ x.targets = v.targets /\ x.stage = v.stage /\ x.loaded = v.loaded /\ x.error = v.error
      /\ x.awake
  BY <1>1 DEF Worlds
<1> HIDE DEF x
<1>3. Typed(x)  BY <1>2 DEF Sound, Typed
<1>4. /\ Typed(u) /\ u = [x EXCEPT !.targets = u.targets, !.on = 0] /\ u.on = 0
      /\ Range(u.targets) \subseteq Of(x, "target")
      /\ Of(x, "target") # {} => u.targets # <<>>
  BY <1>3, ListIs
<1> HIDE DEF u
<1>5. /\ u.mobj = v.mobj /\ u.mo = v.mo /\ u.ps = v.ps /\ u.in = v.in
      /\ u.bodyque = v.bodyque /\ u.itemque = v.itemque /\ u.lying = v.lying
      /\ u.stage = v.stage /\ u.loaded = v.loaded /\ u.error = v.error
  BY <1>2, <1>4 DEF Worlds
<1>6. \A k : Of(x, k) = Of(v, k) /\ Of(u, k) = Of(v, k)  BY <1>2, <1>5 DEF Of
<1>7. Owned(u, {}) /\ Buried(u) /\ Stocked(u)
  BY <1>5 DEF Sound, Owned, Buried, IsCorpse, Stocked, Fresh
<1>8. Aimed(u)
  <2>1. Of(u, "target") # {}  BY <1>6 DEF Sound, Aimed
  <2>2. u.on \in 0 .. Len(u.targets) - 1
    <3>1. u.targets \in Seq(Addresses) /\ u.targets # <<>>  BY <1>4, <1>6, <2>1, Fields DEF Typed
    <3> QED  BY <1>4, <3>1
  <2>3. \A id \in Of(u, "cube") : u.mobj[id].target \in Of(u, "target") \cup {NULL}
    BY <1>5, <1>6 DEF Sound, Aimed
  <2> QED  BY <1>4, <1>6, <2>1, <2>2, <2>3 DEF Aimed
<1>9. Goes(u, v)  BY <1>4, <1>5, <1>7, <1>8 DEF Goes, Sound
<1> QED  BY <1>9 DEF u, x

\* A cube is in the air, or gone.
LEMMA CubeKept ==
  ASSUME NEW v, Sound(v), NEW id \in Addresses, v.mobj[id].kind \in {"gone", "cube"},
         NEW m \in Objects, m.kind \in {"gone", "cube"},
         m.kind = "cube" => m.target \in Of(v, "target") \cup {NULL},
         NEW u \in Worlds, u.mobj = [v.mobj EXCEPT ![id] = m],
         u.targets = v.targets, u.awake = v.awake, u.lying = v.lying, u.itemque = v.itemque,
         u.mo = v.mo, u.ps = v.ps, u.bodyque = v.bodyque, Like(u, v),
         v.awake => u.on \in 0 .. Len(v.targets) - 1
  PROVE  Goes(u, v)
<1>1. v \in Worlds /\ v.mobj \in [Addresses -> Objects] /\ v.mo \in [Slots -> Addresses \cup {NULL}] /\ v.bodyque \in Seq(Addresses)
  BY Fields DEF Sound, Typed
<1>2. u.mobj[id] = m /\ \A k \in Addresses \ {id} : u.mobj[k] = v.mobj[k]  BY <1>1
<1>3. Of(u, "target") = Of(v, "target")  BY <1>2 DEF Of
<1>4. \A k \in Addresses : u.mobj[k].kind = "body" \/ v.mobj[k].kind = "body" => u.mobj[k] = v.mobj[k]
  BY <1>2
<1>5. Typed(u)  BY DEF Sound, Typed
<1>6. Owned(u, {})
  <2>1. \A j \in Slots : v.mo[j] # NULL => v.mo[j] \in Addresses /\ v.mobj[v.mo[j]].kind = "body" /\ v.mobj[v.mo[j]].player = j
    BY <1>1 DEF Sound, Owned
  <2>2. \A j \in Slots : u.mo[j] # NULL => u.mobj[u.mo[j]].kind = "body" /\ u.mobj[u.mo[j]].player = j
    BY <1>4, <2>1
  <2>3. \A k \in Addresses : u.mobj[k].kind = "body" /\ u.mobj[k].player # NULL => u.mo[u.mobj[k].player] = k
    BY <1>4 DEF Sound, Owned
  <2>4. \A j \in u.in : u.ps[j] # "reborn" => u.mo[j] # NULL  BY DEF Sound, Owned, Like
  <2> QED  BY <2>2, <2>3, <2>4 DEF Owned
<1>7. Buried(u)
  <2>1. \A k \in Range(v.bodyque) : k \in Addresses /\ IsCorpse(v, k)  BY <1>1, RangeIs DEF Sound, Buried
  <2> QED  BY <1>4, <2>1 DEF Sound, Buried, IsCorpse
<1>8. Aimed(u)
  <2>1. \A k \in Of(u, "cube") : u.mobj[k].target \in Of(u, "target") \cup {NULL}
    <3> TAKE k \in Of(u, "cube")
    <3>1. CASE k = id  BY <1>2, <1>3, <3>1 DEF Of
    <3>2. CASE k # id  BY <1>2, <1>3, <3>2 DEF Of, Sound, Aimed
    <3> QED  BY <3>1, <3>2
  <2> QED  BY <1>3, <2>1 DEF Sound, Aimed
<1>9. Stocked(u)  BY DEF Sound, Stocked, Fresh, Like
<1> QED  BY <1>5, <1>6, <1>7, <1>8, <1>9 DEF Goes, Sound, Like

\* An awake shooter always has a spot to aim at.
LEMMA SpitKept ==
  ASSUME session \in Sessions, NEW v, Sound(v), v.awake, HasRoom(v, 1)
  PROVE  Goes(A_BrainSpit(v), v)
<1> DEFINE id == NewAddress(v)  m == [kind |-> "cube", target |-> v.targets[v.on + 1]]
           on == (v.on + 1) % Len(v.targets)  u == A_BrainSpit(v)
<1>1. /\ v \in Worlds /\ v.targets \in Seq(Addresses) /\ v.targets # <<>> /\ Len(v.targets) <= MAXBRAINTARGETS
      /\ v.on \in 0 .. Len(v.targets) - 1 /\ Range(v.targets) \subseteq Of(v, "target")
      /\ v.mobj \in [Addresses -> Objects]
  BY Fields DEF Sound, Typed, Aimed
<1>2. id \in Unused(v)  BY RoomGives DEF NewAddress
<1>3. id \in Addresses /\ v.mobj[id].kind = "gone"  BY <1>1, <1>2, UnusedIs
<1>4. v.targets[v.on + 1] \in Of(v, "target")
  <2>1. v.on + 1 \in 1 .. Len(v.targets)  BY <1>1
  <2>2. v.targets[v.on + 1] \in Range(v.targets)  BY <1>1, <2>1, RangeIs
  <2> QED  BY <1>1, <2>2
<1>5. m \in Objects /\ m.kind = "cube" /\ m.target \in Of(v, "target")
  <2>1. v.targets[v.on + 1] \in Addresses  BY <1>4 DEF Of
  <2> QED  BY <1>4, <2>1 DEF Objects
<1>6. on \in 0 .. Len(v.targets) - 1 /\ on \in 0 .. MAXBRAINTARGETS - 1
  <2>1. Len(v.targets) \in Nat \ {0} /\ v.on + 1 \in Nat  BY <1>1
  <2>2. on \in 0 .. Len(v.targets) - 1  BY <2>1
  <2> HIDE DEF on
  <2> QED  BY <1>1, <2>1, <2>2, MobjsAssumption
<1>7. u = [[v EXCEPT !.mobj[id] = m] EXCEPT !.on = on]
  BY <1>1 DEF A_BrainSpit, P_SpawnMobj, Worlds
<1> HIDE DEF id, m, on, u
<1>8. u = [v EXCEPT !.mobj = [v.mobj EXCEPT ![id] = m], !.on = on]  BY <1>1, <1>7 DEF Worlds
<1>9. [v.mobj EXCEPT ![id] = m] \in [Addresses -> Objects]  BY <1>1, <1>3, <1>5
<1>10. u \in Worlds  BY <1>1, <1>6, <1>8, <1>9 DEF Worlds
<1>11. /\ u.mobj = [v.mobj EXCEPT ![id] = m] /\ u.on = on
       /\ u.targets = v.targets /\ u.awake = v.awake /\ u.lying = v.lying /\ u.itemque = v.itemque
       /\ u.mo = v.mo /\ u.ps = v.ps /\ u.bodyque = v.bodyque /\ Like(u, v)
  BY <1>1, <1>8 DEF Worlds, Like
<1>12. Goes(u, v)  BY <1>3, <1>5, <1>6, <1>10, <1>11, CubeKept
<1> QED  BY <1>12 DEF u

LEMMA FlyKept ==
  ASSUME NEW v, Sound(v), NEW id \in Of(v, "cube")
  PROVE  Goes(A_SpawnFly(v, id), v)
<1> DEFINE u == A_SpawnFly(v, id)
<1>1. v \in Worlds /\ v.mobj \in [Addresses -> Objects]  BY Fields DEF Sound, Typed
<1>2. id \in Addresses /\ v.mobj[id].kind = "cube"  BY DEF Of
<1>3. NoMobj \in Objects /\ NoMobj.kind = "gone"  BY DEF Objects, NoMobj
<1>4. u = [v EXCEPT !.mobj = [v.mobj EXCEPT ![id] = NoMobj]]  BY <1>1 DEF A_SpawnFly, Worlds
<1> HIDE DEF u
<1>5. [v.mobj EXCEPT ![id] = NoMobj] \in [Addresses -> Objects]  BY <1>1, <1>2, <1>3
<1>6. u \in Worlds  BY <1>1, <1>4, <1>5 DEF Worlds
<1>7. /\ u.mobj = [v.mobj EXCEPT ![id] = NoMobj] /\ u.on = v.on
      /\ u.targets = v.targets /\ u.awake = v.awake /\ u.lying = v.lying /\ u.itemque = v.itemque
      /\ u.mo = v.mo /\ u.ps = v.ps /\ u.bodyque = v.bodyque /\ Like(u, v)
  BY <1>1, <1>4 DEF Worlds, Like
<1>8. v.awake => u.on \in 0 .. Len(v.targets) - 1  BY <1>7 DEF Sound, Aimed
<1>9. Goes(u, v)  BY <1>2, <1>3, <1>6, <1>7, <1>8, CubeKept
<1> QED  BY <1>9 DEF u

\* A body moves or dies.
LEMMA BodyKept ==
  ASSUME NEW v, Sound(v), NEW id \in Addresses, v.mobj[id].kind = "body",
         NEW m \in Objects, m.kind = "body", m.player = v.mobj[id].player,
         NEW ps \in [Slots -> {"live", "dead", "reborn"}],
         \A j \in v.in : ps[j] # "reborn" => v.ps[j] # "reborn" \/ v.mo[j] # NULL
  PROVE  Goes([v EXCEPT !.mobj = [v.mobj EXCEPT ![id] = m], !.ps = ps], v)
<1> DEFINE mobj == [v.mobj EXCEPT ![id] = m]  u == [v EXCEPT !.mobj = mobj, !.ps = ps]
<1>1. Typed(v) /\ v \in Worlds /\ v.mobj \in [Addresses -> Objects]  BY Fields DEF Sound, Typed
<1>2. /\ mobj \in [Addresses -> Objects] /\ mobj[id] = m /\ \A k \in Addresses \ {id} : mobj[k] = v.mobj[k]
  BY <1>1
<1> HIDE DEF mobj
<1>3. /\ u \in Worlds /\ Beside(u, v) /\ u.mobj = mobj /\ u.ps = ps /\ u.mo = v.mo
      /\ u.bodyque = v.bodyque
  BY <1>1, <1>2 DEF Worlds, Beside, Like
<1> HIDE DEF u
<1>4. Posed(u, v)  BY <1>2, <1>3 DEF Posed
<1>5. Sound(v) => Sound(u)  BY <1>1, <1>3, <1>4, PosedKept
<1>6. Goes(u, v)  BY <1>3, <1>5 DEF Goes, Beside, Like
<1> QED  BY <1>6 DEF u, mobj

LEMMA BodyIs ==
  ASSUME NEW v, Sound(v), NEW id \in Addresses, v.mobj[id].kind = "body"
  PROVE  /\ v.mobj[id] \in [kind : {"body"}, player : Slots \cup {NULL}, alive : BOOLEAN, at : Slots \cup {NULL}]
         /\ v.mobj[id].player # NULL => v.mo[v.mobj[id].player] = id
<1>1. v.mobj[id] \in Objects  BY Fields DEF Sound, Typed
<1> QED  BY <1>1 DEF Objects, NoMobj, Sound, Owned

LEMMA MoveKept ==
  ASSUME session \in Sessions, NEW v, Sound(v), NEW id \in Addresses, v.mobj[id].kind = "body",
         NEW u \in {[v EXCEPT !.mobj[id].at = NULL]}
                     \cup {TouchItem([v EXCEPT !.mobj[id].at = NULL], id, s) : s \in Slots}
  PROVE  Goes(u, v)
<1> DEFINE m == [v.mobj[id] EXCEPT !.at = NULL]  x == [v EXCEPT !.mobj[id].at = NULL]
<1>1. v \in Worlds /\ v.mobj \in [Addresses -> Objects] /\ v.ps \in [Slots -> {"live", "dead", "reborn"}]
  BY Fields DEF Sound, Typed
<1>2. m \in Objects /\ m.kind = "body" /\ m.player = v.mobj[id].player
  <2>1. m \in [kind : {"body"}, player : Slots \cup {NULL}, alive : BOOLEAN, at : Slots \cup {NULL}]
        /\ m.player = v.mobj[id].player /\ m.kind = "body"
    BY BodyIs
  <2> QED  BY <2>1 DEF Objects
<1>3. x = [v EXCEPT !.mobj = [v.mobj EXCEPT ![id] = m], !.ps = v.ps]  BY <1>1 DEF Worlds
<1>4. u = x \/ \E s \in Slots : u = TouchItem(x, id, s)  OBVIOUS
<1> HIDE DEF m, x
<1>5. Goes(x, v)
  <2>1. Goes([v EXCEPT !.mobj = [v.mobj EXCEPT ![id] = m], !.ps = v.ps], v)  BY <1>1, <1>2, BodyKept
  <2> QED  BY <1>3, <2>1
<1>6. ASSUME NEW s \in Slots, u = TouchItem(x, id, s)  PROVE Goes(u, v)
  <2>1. Typed(x) /\ Stocked(x) /\ Sound(x)  BY <1>5 DEF Goes, Sound
  <2>2. Typed(u) /\ Stocked(u) /\ Untouched(u, x)  BY <1>6, <2>1, TouchKept
  <2>3. Sound(u)  BY <2>1, <2>2, UntouchedKept
  <2> QED  BY <1>5, <2>2, <2>3 DEF Goes, Untouched, Like
<1> QED  BY <1>4, <1>5, <1>6

LEMMA DieKept ==
  ASSUME NEW v, Sound(v), NEW id \in Addresses, v.mobj[id].kind = "body"
  PROVE  LET i == v.mobj[id].player
             x == [v EXCEPT !.mobj[id].alive = FALSE,
                            !.mobj[id].at = IF i = NULL THEN NULL ELSE @]
         IN Goes(IF i = NULL THEN x ELSE [x EXCEPT !.ps[i] = "dead"], v)
<1> DEFINE i == v.mobj[id].player
           x == [v EXCEPT !.mobj[id].alive = FALSE,
                          !.mobj[id].at = IF i = NULL THEN NULL ELSE @]
           u == IF i = NULL THEN x ELSE [x EXCEPT !.ps[i] = "dead"]
           m == [v.mobj[id] EXCEPT !.alive = FALSE, !.at = IF i = NULL THEN NULL ELSE @]
           ps == IF i = NULL THEN v.ps ELSE [v.ps EXCEPT ![i] = "dead"]
<1>1. /\ v \in Worlds /\ v.mobj \in [Addresses -> Objects] /\ v.ps \in [Slots -> {"live", "dead", "reborn"}]
      /\ v.in \subseteq Slots
  BY Fields DEF Sound, Typed
<1>2. /\ v.mobj[id] \in [kind : {"body"}, player : Slots \cup {NULL}, alive : BOOLEAN, at : Slots \cup {NULL}]
      /\ i # NULL => v.mo[i] = id
  BY BodyIs
<1>3. m \in Objects /\ m.kind = "body" /\ m.player = v.mobj[id].player
  <2>1. m \in [kind : {"body"}, player : Slots \cup {NULL}, alive : BOOLEAN, at : Slots \cup {NULL}]
        /\ m.player = v.mobj[id].player /\ m.kind = "body"
    BY <1>2
  <2> QED  BY <2>1 DEF Objects
<1>4. ps \in [Slots -> {"live", "dead", "reborn"}]  BY <1>1, <1>2
<1>5. \A j \in v.in : ps[j] # "reborn" => v.ps[j] # "reborn" \/ v.mo[j] # NULL
  BY <1>1, <1>2, NullIs
<1>6. x = [v EXCEPT !.mobj = [v.mobj EXCEPT ![id] = m]]
  <2>1. [[v.mobj EXCEPT ![id].alive = FALSE] EXCEPT ![id].at = IF i = NULL THEN NULL ELSE @]
          = [v.mobj EXCEPT ![id] = m]
    BY <1>1, <1>2
  <2> QED  BY <1>1, <2>1 DEF Worlds
<1>7. u = [v EXCEPT !.mobj = [v.mobj EXCEPT ![id] = m], !.ps = ps]
  <2> HIDE DEF m, x, i
  <2> QED  BY <1>1, <1>6 DEF Worlds
<1> HIDE DEF m, ps, x, u
<1>8. Goes([v EXCEPT !.mobj = [v.mobj EXCEPT ![id] = m], !.ps = ps], v)
  BY <1>3, <1>4, <1>5, BodyKept
<1>9. Goes(u, v)  BY <1>7, <1>8
<1> QED  BY <1>9 DEF u, x

\* A player who is in the game changes its state, or its place in it, but not its body.
Grouped(v, stage, ins, ps) == [v EXCEPT !.stage = stage, !.in = ins, !.ps = ps]

LEMMA PlayersKept ==
  ASSUME NEW v, Sound(v), NEW ins \in SUBSET Slots, NEW ps \in [Slots -> {"live", "dead", "reborn"}],
         \A j \in ins : ps[j] # "reborn" => v.mo[j] # NULL,
         NEW stage \in {"level", "between"},
         NEW u, u = Grouped(v, stage, ins, ps)
  PROVE  /\ Sound(u) /\ u.stage = stage /\ u.loaded = v.loaded /\ u.error = v.error
         /\ Unused(u) = Unused(v)
<1>1. v \in Worlds  BY DEF Sound, Typed
<1>2. /\ u \in Worlds /\ u.mobj = v.mobj /\ u.mo = v.mo /\ u.bodyque = v.bodyque /\ u.lying = v.lying
      /\ u.itemque = v.itemque /\ u.targets = v.targets /\ u.on = v.on /\ u.awake = v.awake
      /\ u.loaded = v.loaded /\ u.error = v.error /\ u.in = ins /\ u.ps = ps /\ u.stage = stage
  BY <1>1 DEF Worlds, Grouped
<1>3. Typed(u)  BY <1>2 DEF Sound, Typed
<1>4. Owned(u, {}) /\ Buried(u) /\ Stocked(u)
  BY <1>2 DEF Sound, Owned, Buried, IsCorpse, Stocked, Fresh
<1>5. Aimed(u)  BY <1>2 DEF Sound, Aimed, Of
<1>6. Unused(u) = Unused(v)  BY <1>2 DEF Unused, Pointers, Present
<1>7. Sound(u)  BY <1>3, <1>4, <1>5 DEF Sound
<1> QED  BY <1>2, <1>6, <1>7

\* An item comes back to its place: it is no longer queued.
LEMMA RespawnKept ==
  ASSUME session \in Sessions, session.deathmatch = 2, NEW v, Sound(v), v.itemque # <<>>
  PROVE  Goes([v EXCEPT !.lying[Head(v.itemque)] = @ + 1, !.itemque = Tail(@)], v)
<1> DEFINE q == v.itemque  h == Head(q)  t == Tail(q)
           u == [v EXCEPT !.lying[Head(v.itemque)] = @ + 1, !.itemque = Tail(@)]
<1>1. /\ v \in Worlds /\ q \in Seq(Slots) /\ q # <<>> /\ v.lying \in [Slots -> Nat] /\ Len(q) < ITEMQUESIZE
  BY Fields DEF Sound, Typed
<1>2. /\ h \in Slots /\ t \in Seq(Slots) /\ Len(t) = Len(q) - 1 /\ h = q[1] /\ Len(q) \in Nat \ {0}
      /\ \A k \in 1 .. Len(t) : t[k] = q[k + 1] /\ k + 1 \in 1 .. Len(q)
  BY <1>1
<1>3. u.lying = [v.lying EXCEPT ![h] = @ + 1] /\ u.itemque = t  BY <1>1 DEF Worlds
<1>4. u = [v EXCEPT !.lying = u.lying, !.itemque = t]  BY <1>1 DEF Worlds
<1> HIDE DEF u, h, t
<1>5. /\ u.lying \in [Slots -> Nat] /\ u.lying[h] = v.lying[h] + 1
      /\ \A p \in Slots \ {h} : u.lying[p] = v.lying[p]
  BY <1>1, <1>2, <1>3
<1>6. u \in Worlds /\ Untouched(u, v) /\ u.in = v.in
  BY <1>1, <1>2, <1>3, <1>4, <1>5 DEF Worlds, Untouched, Like
<1>7. Typed(u)  BY <1>1, <1>2, <1>3, <1>6, MobjsAssumption DEF Sound, Typed, Untouched
<1>8. ASSUME Fresh(v)  PROVE Fresh(u)
  <2>1. \A j, k \in 1 .. Len(q) : q[j] = q[k] => j = k  BY <1>1, <1>8 DEF Fresh, IsInjective
  <2>2. IsInjective(t)
    <3>1. ASSUME NEW j \in 1 .. Len(t), NEW k \in 1 .. Len(t), t[j] = t[k]  PROVE j = k
      <4>1. j + 1 = k + 1  BY <1>2, <2>1, <3>1
      <4> QED  BY <4>1
    <3>2. DOMAIN t = 1 .. Len(t)  BY <1>2
    <3> QED  BY <3>1, <3>2 DEF IsInjective
  <2>3. Range(t) \subseteq Range(q) \ {h}
    <3>1. SUFFICES ASSUME NEW y \in Range(t)  PROVE y \in Range(q) \ {h}  OBVIOUS
    <3>2. PICK k \in 1 .. Len(t) : y = t[k]  BY <1>2, RangeIs
    <3>3. y = q[k + 1] /\ k + 1 \in 1 .. Len(q) /\ k + 1 # 1  BY <1>2, <3>2
    <3>4. 1 \in 1 .. Len(q)  BY <1>2
    <3>5. y # h  BY <1>2, <2>1, <3>3, <3>4
    <3> QED  BY <1>1, <3>3, <3>5, RangeIs
  <2>4. Range(q) = Range(t) \cup {h}
    <3>1. h \in Range(q)  BY <1>1, <1>2, RangeIs
    <3>2. ASSUME NEW y \in Range(q), y # h  PROVE y \in Range(t)
      <4>1. PICK k \in 1 .. Len(q) : y = q[k]  BY <1>1, RangeIs
      <4>2. k # 1 /\ k - 1 \in 1 .. Len(t) /\ (k - 1) + 1 = k  BY <1>2, <3>2, <4>1
      <4>3. t[k - 1] = y  BY <1>2, <4>1, <4>2
      <4> QED  BY <1>2, <4>2, <4>3, RangeIs
    <3> QED  BY <2>3, <3>1, <3>2
  <2>5. v.lying[h] = 0 /\ h \in session.map.items /\ session.map.items \subseteq Slots
    <3>1. h \in Range(q)  BY <2>4
    <3>2. v.lying[h] \in Nat /\ v.lying[h] <= 1 /\ v.lying[h] # 1  BY <1>1, <1>2, <1>8, <3>1 DEF Fresh
    <3> QED  BY <1>8, <3>1, <3>2, SessionIs DEF Fresh
  <2>6. \A p \in Slots : /\ u.lying[p] <= 1
                         /\ u.lying[p] = 1 => p \in session.map.items \ Range(t)
    <3> TAKE p \in Slots
    <3>1. CASE p = h  BY <1>5, <2>3, <2>5, <3>1
    <3>2. CASE p # h  BY <1>5, <1>8, <2>3, <3>2 DEF Fresh
    <3> QED  BY <3>1, <3>2
  <2>7. ASSUME Cardinality(session.map.items) < ITEMQUESIZE, NEW p \in session.map.items
        PROVE  u.lying[p] = 1 \/ p \in Range(t)
    <3>1. CASE p = h  BY <1>5, <2>5, <3>1
    <3>2. CASE p # h  BY <1>5, <1>8, <2>4, <2>5, <2>7, <3>2 DEF Fresh
    <3> QED  BY <3>1, <3>2
  <2> HIDE DEF q
  <2>8. Range(t) \subseteq session.map.items  BY <1>8, <2>3 DEF Fresh, q
  <2> QED  BY <1>3, <2>2, <2>6, <2>7, <2>8 DEF Fresh
<1>9. Stocked(u)
  <2>1. u.loaded = v.loaded  BY <1>6 DEF Untouched, Like
  <2> QED  BY <1>8, <2>1 DEF Sound, Stocked
<1>10. Sound(u)  BY <1>6, <1>7, <1>9, UntouchedKept
<1>11. Goes(u, v)  BY <1>6, <1>10 DEF Goes, Untouched, Like
<1> QED  BY <1>11 DEF u

\* A player in the game, dead, waiting or just arrived, is given a body.
LEMMA ComesBack ==
  ASSUME session \in Sessions, NEW v, Sound(v), NEW i \in v.in, Unused(v) # {},
         NEW taken, NEW u \in G_DoReborn(v, i, taken)
  PROVE  Goes(u, v)
<1>1. v \in Worlds /\ v.mo \in [Slots -> Addresses \cup {NULL}] /\ v.in \subseteq Slots
  BY Fields DEF Sound, Typed
<1>2. /\ Typed(v) /\ Buried(v) /\ Aimed(v) /\ Stocked(v)
      /\ \A j \in v.in \ {i} : v.ps[j] # "reborn" => v.mo[j] # NULL
      /\ \A j \in Slots : v.mo[j] # NULL => v.mobj[v.mo[j]].kind = "body" /\ v.mobj[v.mo[j]].player = j
      /\ \A id \in Addresses : v.mobj[id].kind = "body" /\ v.mobj[id].player # NULL => v.mo[v.mobj[id].player] = id
  BY DEF Sound, Owned
<1>3. Ready(Dissociated(v, i), {i}, FALSE, v, i)  BY <1>2, DissociatedReady
<1>4. Sound(u) /\ Like(u, v)  BY <1>3, RebornKept
<1> QED  BY <1>4 DEF Goes, Like

LEMMA UnseenKept ==
  ASSUME Sound(world)
  PROVE  /\ Goes(Unseen, world) /\ Untouched(Unseen, world) /\ Unused(Unseen) = Unused(world)
         /\ Unseen.in = world.in /\ Unseen.lying = world.lying /\ Unseen.itemque = world.itemque
<1> DEFINE u == [world EXCEPT !.seen = {}]
<1>1. Typed(world) /\ Stocked(world)  BY DEF Sound
<1>2. Typed(u) /\ Stocked(u) /\ Untouched(u, world) /\ u.lying = world.lying
  <2>1. {} \in SUBSET {"blind", "crowded"}  OBVIOUS
  <2> QED  BY <1>1, <2>1, SeenKept
<1>3. u.itemque = world.itemque  BY <1>1 DEF Typed, Worlds
<1> HIDE DEF u
<1>4. Sound(u) /\ Unused(u) = Unused(world)  BY <1>2, UntouchedKept
<1>5. Goes(u, world) /\ u.in = world.in  BY <1>2, <1>4 DEF Goes, Untouched, Like
<1> QED  BY <1>2, <1>3, <1>4, <1>5 DEF u, Unseen

-----------------------------------------------------------------------------
(* A save and a load.                                                      *)

\* What P_ArchiveThinkers writes a load can read.
LEMMA ArchiveFits ==
  ASSUME session \in Sessions, NEW v, Sound(v), ~ v.loaded, HasRoom(v, 0)
  PROVE  Fits(P_Archive(v))
<1> DEFINE Forget(id) == IF v.mobj[id].kind = "cube" THEN [v.mobj[id] EXCEPT !.target = NULL] ELSE v.mobj[id]
           ids == SetToSeq(Present(v))
           mobjs == [n \in DOMAIN ids |-> Forget(ids[n])]
           f == P_Archive(v)
<1>1. /\ v \in Worlds /\ v.mobj \in [Addresses -> Objects] /\ v.in \subseteq Slots
      /\ v.ps \in [Slots -> {"live", "dead", "reborn"}] /\ v.lying \in [Slots -> Nat]
      /\ v.awake \in BOOLEAN
  BY Fields DEF Sound, Typed
<1>2. IsFiniteSet(Present(v)) /\ Cardinality(Present(v)) \in Nat /\ Present(v) \subseteq Addresses
  <2>1. Present(v) \in SUBSET Addresses  BY DEF Present
  <2> QED  BY <2>1, MobjsAssumption, FS_Subset, FS_CardinalityType
<1>3. /\ ids \in Seq(Present(v)) /\ Len(ids) = Cardinality(Present(v)) /\ IsInjective(ids)
      /\ Range(ids) = Present(v)
  BY <1>2, SetToSeqIs
<1>4. \A id \in Addresses : /\ Forget(id) \in Objects /\ Forget(id).kind = v.mobj[id].kind
                            /\ v.mobj[id].kind = "cube" => Forget(id).target = NULL
                            /\ v.mobj[id].kind = "body" => Forget(id) = v.mobj[id]
  <2> TAKE id \in Addresses
  <2>1. v.mobj[id] \in Objects  BY <1>1
  <2>2. CASE v.mobj[id].kind = "cube"
    <3>1. v.mobj[id] \in [kind : {"cube"}, target : Addresses \cup {NULL}]  BY <2>1, <2>2 DEF Objects, NoMobj
    <3>2. Forget(id) \in [kind : {"cube"}, target : Addresses \cup {NULL}] /\ Forget(id).target = NULL
      BY <2>2, <3>1
    <3> QED  BY <2>2, <3>2 DEF Objects
  <2>3. CASE v.mobj[id].kind # "cube"  BY <2>1, <2>3
  <2> QED  BY <2>2, <2>3
<1>5. f = [map |-> session.map, in |-> v.in, ps |-> v.ps, lying |-> v.lying, awake |-> v.awake,
           mobjs |-> mobjs]
  BY DEF P_Archive
<1> HIDE DEF ids, Forget, f
<1>6. /\ DOMAIN ids = 1 .. Len(ids) /\ Len(ids) \in Nat
      /\ \A n \in 1 .. Len(ids) : ids[n] \in Addresses /\ ids[n] \in Present(v) /\ mobjs[n] = Forget(ids[n])
  BY <1>2, <1>3
<1>7. mobjs \in Seq(Objects) /\ Len(mobjs) = Cardinality(Present(v)) /\ DOMAIN mobjs = 1 .. Len(ids)
  BY <1>3, <1>4, <1>6
<1> HIDE DEF mobjs
<1>8. /\ f.map = session.map /\ f.in = v.in /\ f.ps = v.ps /\ f.lying = v.lying
      /\ f.awake = v.awake /\ f.mobjs = mobjs
  BY <1>5
<1>9. f \in Saves
  <2>1. session.map \in Maps  BY SessionIs
  <2> QED  BY <1>1, <1>5, <1>7, <2>1 DEF Saves
<1>10. Len(f.mobjs) + MAXBRAINTARGETS <= Cardinality(Addresses)
  <2>1. /\ session.room + MAXBRAINTARGETS <= Cardinality(Addresses) /\ MAXBRAINTARGETS \in Nat
        /\ session.room \in Nat /\ Cardinality(Addresses) \in Nat
    BY MobjsAssumption, SessionIs, FS_CardinalityType
  <2>2. Cardinality(Present(v)) <= session.room  BY <1>2, <2>1 DEF HasRoom
  <2> QED  BY <1>2, <1>7, <1>8, <2>1, <2>2
<1>11. \A n \in DOMAIN f.mobjs : f.mobjs[n].kind = "cube" => f.mobjs[n].target = NULL
  BY <1>4, <1>6, <1>7, <1>8
<1>12. ASSUME NEW m \in DOMAIN f.mobjs, NEW n \in DOMAIN f.mobjs,
              f.mobjs[m].kind = "body", f.mobjs[n].kind = "body",
              f.mobjs[m].player = f.mobjs[n].player, f.mobjs[m].player # NULL
       PROVE  m = n
  <2>1. /\ v.mobj[ids[m]].kind = "body" /\ v.mobj[ids[n]].kind = "body"
        /\ v.mobj[ids[m]].player = v.mobj[ids[n]].player /\ v.mobj[ids[m]].player # NULL
        /\ ids[m] \in Addresses /\ ids[n] \in Addresses
    BY <1>4, <1>6, <1>7, <1>8, <1>12
  <2>2. ids[m] = ids[n]  BY <2>1 DEF Sound, Owned
  <2> QED  BY <1>3, <1>6, <1>7, <1>8, <1>12, <2>2 DEF IsInjective
<1>13. ASSUME f.awake \/ f.map.targets > 0
       PROVE  \E n \in DOMAIN f.mobjs : f.mobjs[n].kind = "target"
  <2>1. Of(v, "target") # {}
    <3>1. CASE v.awake
      <4>1. v.targets \in Seq(Addresses) /\ v.targets # <<>> /\ Range(v.targets) \subseteq Of(v, "target")
        BY <1>1, <3>1, Fields DEF Sound, Aimed
      <4>2. 1 \in 1 .. Len(v.targets)  BY <4>1
      <4>3. v.targets[1] \in Range(v.targets)  BY <4>1, <4>2, RangeIs
      <4> QED  BY <4>1, <4>3
    <3>2. CASE ~ v.awake  BY <1>8, <1>13, <3>2 DEF Sound, Aimed
    <3> QED  BY <3>1, <3>2
  <2>2. PICK id \in Of(v, "target") : TRUE  BY <2>1
  <2>3. id \in Addresses /\ v.mobj[id].kind = "target"  BY <2>2 DEF Of
  <2>4. id \in Present(v)  BY <1>1, <2>3, LiveIs
  <2>5. PICK n \in 1 .. Len(ids) : id = ids[n]  BY <1>3, <2>4, RangeIs
  <2> QED  BY <1>4, <1>6, <1>7, <1>8, <2>3, <2>5
<1>14. \A p \in Slots : f.lying[p] <= 1  BY <1>8 DEF Sound, Stocked, Fresh
<1>15. Fits(f)
  BY <1>9, <1>10, <1>11, <1>12, <1>13, <1>14 DEF Fits
<1> QED  BY <1>15 DEF f

LEMMA LatestFits ==
  ASSUME NEW S, NEW q \in Seq(S), NEW n \in Nat
  PROVE  Latest(q, n) \in Seq(S) /\ Len(Latest(q, n)) <= n
<1>1. CASE Len(q) <= n  BY <1>1 DEF Latest
<1>2. CASE ~ (Len(q) <= n)
  <2> DEFINE k == Len(q) - n + 1
  <2>2. Latest(q, n) = SubSeq(q, k, Len(q))  BY <1>2 DEF Latest
  <2>3. Len(q) - k + 1 = n /\ k >= 1 /\ k \in Nat  BY <1>2
  <2> HIDE DEF k
  <2>4. SubSeq(q, k, Len(q)) \in Seq(S) /\ Len(SubSeq(q, k, Len(q))) = n  BY <2>3
  <2> QED  BY <2>2, <2>4
<1> QED  BY <1>1, <1>2

\* What the world is when the file's mobjs are read: the level's own are swept away.
LEMMA SweptIs ==
  ASSUME session \in Sessions, NEW v, Sound(v), v.bodyque = <<>>, NEW f, Fits(f)
  PROVE  LET x == [SweptAway(NoBodies(v)) EXCEPT !.ps = f.ps, !.lying = f.lying, !.awake = f.awake,
                                                 !.loaded = TRUE] IN
         /\ Typed(x) /\ x.bodyque = <<>> /\ x.lying = f.lying /\ x.awake = f.awake /\ x.ps = f.ps
         /\ x.loaded /\ x.stage = v.stage /\ x.in = v.in /\ Len(f.mobjs) <= Cardinality(Unused(x))
         /\ IsFiniteSet(Unused(x))
<1> DEFINE q == Latest(v.itemque \o SetToSeq({p \in Slots : v.lying[p] > 0}), ITEMQUESIZE - 1)
           mobj == [id \in Addresses |-> NoMobj]  mo == [i \in Slots |-> NULL]
           x == [SweptAway(NoBodies(v)) EXCEPT !.ps = f.ps, !.lying = f.lying, !.awake = f.awake,
                                               !.loaded = TRUE]
<1>1. v \in Worlds /\ v.itemque \in Seq(Slots) /\ Typed(v)  BY Fields DEF Sound, Typed
<1>2. /\ f.ps \in [Slots -> {"live", "dead", "reborn"}] /\ f.lying \in [Slots -> Nat]
      /\ f.awake \in BOOLEAN /\ f.mobjs \in Seq(Objects)
  BY DEF Fits, Saves
<1>3. q \in Seq(Slots) /\ Len(q) < ITEMQUESIZE
  <2> DEFINE S == {p \in Slots : v.lying[p] > 0}
  <2>1. S \in SUBSET Slots  OBVIOUS
  <2>2. IsFiniteSet(S)  BY <2>1, SlotsAre, FS_Subset
  <2> HIDE DEF S
  <2>3. SetToSeq(S) \in Seq(Slots)
    <3>1. SetToSeq(S) \in Seq(S)  BY <2>2, SetToSeqIs
    <3> QED  BY <2>1, <3>1
  <2> DEFINE t == v.itemque \o SetToSeq(S)  n == ITEMQUESIZE - 1
  <2>4. t \in Seq(Slots) /\ n \in Nat  BY <1>1, <2>3, MobjsAssumption
  <2>5. q = Latest(t, n)  BY DEF S
  <2> HIDE DEF t, n, q
  <2>6. q \in Seq(Slots) /\ Len(q) <= n  BY <2>4, <2>5, LatestFits
  <2> QED  BY <2>4, <2>6, MobjsAssumption DEF n
<1>4. x = [v EXCEPT !.mo = mo, !.mobj = mobj, !.itemque = q, !.ps = f.ps, !.lying = f.lying,
                    !.awake = f.awake, !.loaded = TRUE]
  <2> DEFINE no == NoBodies(v)  sw == SweptAway(no)
  <2>1. no = [v EXCEPT !.mo = mo] /\ no.lying = v.lying /\ no.itemque = v.itemque  BY <1>1 DEF NoBodies, Worlds
  <2>2. sw = [no EXCEPT !.mobj = mobj, !.lying = [p \in Slots |-> 0], !.itemque = q]
    <3> HIDE DEF no
    <3> QED  BY <1>1, <2>1 DEF SweptAway, Worlds
  <2> HIDE DEF no, sw, q, mobj, mo
  <2>3. sw = [v EXCEPT !.mo = mo, !.mobj = mobj, !.lying = [p \in Slots |-> 0], !.itemque = q]
    BY <1>1, <2>1, <2>2 DEF Worlds
  <2>4. x = [sw EXCEPT !.ps = f.ps, !.lying = f.lying, !.awake = f.awake, !.loaded = TRUE]
    BY DEF sw, no
  <2> HIDE DEF x
  <2> QED  BY <1>1, <2>3, <2>4 DEF Worlds
<1>5. mobj \in [Addresses -> Objects] /\ mo \in [Slots -> Addresses \cup {NULL}]
  <2>1. NoMobj \in Objects  BY DEF Objects
  <2> QED  BY <2>1
<1>6. mo = [i \in Slots |-> NULL] /\ mobj = [id \in Addresses |-> NoMobj]  OBVIOUS
<1> HIDE DEF x, q, mobj, mo
<1>7. /\ x.mo = mo /\ x.mobj = mobj /\ x.itemque = q /\ x.ps = f.ps /\ x.lying = f.lying
      /\ x.awake = f.awake /\ x.loaded /\ x.bodyque = v.bodyque /\ x.targets = v.targets
      /\ x.stage = v.stage /\ x.in = v.in
  BY <1>1, <1>4 DEF Worlds
<1>8. x \in Worlds  BY <1>1, <1>2, <1>3, <1>4, <1>5 DEF Worlds
<1>9. Typed(x)  BY <1>1, <1>3, <1>7, <1>8 DEF Typed
<1>10. Present(x) = {}  BY <1>6, <1>7 DEF Present
<1>11. /\ IsFiniteSet(Unused(x)) /\ Cardinality(Unused(x)) \in Nat
       /\ Cardinality(Addresses) <= Cardinality(Unused(x)) + MAXBRAINTARGETS
  BY <1>6, <1>7, <1>9, <1>10, FreedIs
<1>12. Len(f.mobjs) <= Cardinality(Unused(x))
  <2>1. Len(f.mobjs) + MAXBRAINTARGETS <= Cardinality(Addresses)  BY DEF Fits
  <2>2. Len(f.mobjs) \in Nat /\ MAXBRAINTARGETS \in Nat /\ Cardinality(Addresses) \in Nat
    BY <1>2, MobjsAssumption, FS_CardinalityType
  <2> QED  BY <1>11, <2>1, <2>2
<1> QED  BY <1>7, <1>9, <1>11, <1>12 DEF x

\* The file's mobjs get addresses of their own, and each player the body saved for it.
LEMMA ReadIs ==
  ASSUME session \in Sessions, NEW x, Typed(x), x.bodyque = <<>>, x.loaded, NEW f, Fits(f),
         x.lying = f.lying, Len(f.mobjs) <= Cardinality(Unused(x)), IsFiniteSet(Unused(x))
  PROVE  LET y == UnArchived(x, f) IN
         /\ Typed(y) /\ y.bodyque = <<>> /\ y.lying = f.lying /\ y.loaded /\ y.stage = x.stage
         /\ y.awake = x.awake
         /\ \A id \in Of(y, "cube") : y.mobj[id].target = NULL
         /\ f.awake \/ f.map.targets > 0 => Of(y, "target") # {}
         /\ ~ y.error => Owned(y, {})
<1> DEFINE A == Unused(x)  address == SetToSeq(A)
           Got(id) == {n \in DOMAIN f.mobjs : address[n] = id}
           mobj == [id \in Addresses |-> IF Got(id) = {} THEN NoMobj ELSE f.mobjs[CHOOSE n \in Got(id) : TRUE]]
           BodyOf(i) == {id \in Addresses : mobj[id].kind = "body" /\ mobj[id].player = i}
           mo == [i \in Slots |-> IF BodyOf(i) = {} THEN NULL ELSE CHOOSE id \in BodyOf(i) : TRUE]
           error == \E i \in Slots : (BodyOf(i) = {}) = (i \in x.in)
           y == UnArchived(x, f)
<1>1. x \in Worlds /\ f.mobjs \in Seq(Objects) /\ x.in \subseteq Slots  BY Fields DEF Typed, Fits, Saves
<1>2. /\ address \in Seq(A) /\ Len(address) = Cardinality(A) /\ IsInjective(address)
  BY SetToSeqIs
<1>3. y = [x EXCEPT !.mobj = mobj, !.mo = mo, !.error = error]  BY DEF UnArchived
<1>4. A \subseteq Addresses  BY DEF Unused
<1> HIDE DEF A, address
<1>5. /\ DOMAIN f.mobjs = 1 .. Len(f.mobjs) /\ Len(f.mobjs) \in Nat
      /\ \A n \in 1 .. Len(f.mobjs) : n \in DOMAIN address /\ address[n] \in Addresses
  <2>1. Len(address) \in Nat /\ DOMAIN address = 1 .. Len(address)  BY <1>2
  <2>2. Len(f.mobjs) \in Nat /\ Len(f.mobjs) <= Len(address)  BY <1>1, <1>2 DEF A
  <2>3. \A n \in 1 .. Len(address) : address[n] \in Addresses  BY <1>2, <1>4
  <2>4. \A n \in 1 .. Len(f.mobjs) : n \in 1 .. Len(address)  BY <2>1, <2>2
  <2> QED  BY <1>1, <2>1, <2>3, <2>4
<1>6. \A m, n \in DOMAIN f.mobjs : address[m] = address[n] => m = n
  BY <1>2, <1>5 DEF IsInjective
\* What lies at an address is what was read for it.
<1>7. \A id \in Addresses : \/ Got(id) = {} /\ mobj[id] = NoMobj
                            \/ \E n \in DOMAIN f.mobjs : address[n] = id /\ mobj[id] = f.mobjs[n]
  OBVIOUS
<1>8. \A n \in DOMAIN f.mobjs : mobj[address[n]] = f.mobjs[n]
  <2> TAKE n \in DOMAIN f.mobjs
  <2>1. address[n] \in Addresses /\ n \in Got(address[n])  BY <1>5
  <2>2. PICK m \in DOMAIN f.mobjs : address[m] = address[n] /\ mobj[address[n]] = f.mobjs[m]
    BY <1>7, <2>1
  <2> QED  BY <1>6, <2>2
<1>9. \A id \in Addresses : \/ mobj[id] = NoMobj
                            \/ \E n \in DOMAIN f.mobjs : address[n] = id /\ mobj[id] = f.mobjs[n]
  BY <1>7
<1>10. NoMobj \in Objects /\ NoMobj.kind = "gone"  BY DEF Objects, NoMobj
<1>11. mobj \in [Addresses -> Objects]
  <2>1. \A id \in Addresses : mobj[id] \in Objects  BY <1>1, <1>9, <1>10
  <2>2. mobj = [id \in Addresses |-> mobj[id]]  OBVIOUS
  <2> HIDE DEF mobj
  <2> QED  BY <2>1, <2>2
<1> HIDE DEF mobj, Got
<1>12. \A i \in Slots, j, k \in Addresses : j \in BodyOf(i) /\ k \in BodyOf(i) => j = k
  <2> TAKE i \in Slots, j, k \in Addresses
  <2> HAVE j \in BodyOf(i) /\ k \in BodyOf(i)
  <2>1. PICK m \in DOMAIN f.mobjs : address[m] = j /\ mobj[j] = f.mobjs[m]  BY <1>9, <1>10
  <2>2. PICK n \in DOMAIN f.mobjs : address[n] = k /\ mobj[k] = f.mobjs[n]  BY <1>9, <1>10
  <2>3. /\ f.mobjs[m].kind = "body" /\ f.mobjs[n].kind = "body"
        /\ f.mobjs[m].player = f.mobjs[n].player /\ f.mobjs[m].player # NULL
    BY <2>1, <2>2, NullIs
  <2>4. m = n  BY <2>3 DEF Fits
  <2> QED  BY <2>1, <2>2, <2>4
<1>13. \A i \in Slots : IF BodyOf(i) = {} THEN mo[i] = NULL ELSE mo[i] \in BodyOf(i)
  OBVIOUS
<1>14. mo \in [Slots -> Addresses \cup {NULL}]  OBVIOUS
<1>15. error \in BOOLEAN  OBVIOUS
<1>16. ~ error => \A i \in Slots : i \in x.in => BodyOf(i) # {}  OBVIOUS
<1> HIDE DEF mo, error, y
<1>17. /\ y.mobj = mobj /\ y.mo = mo /\ y.error = error /\ y.bodyque = <<>> /\ y.lying = f.lying
       /\ y.loaded /\ y.stage = x.stage /\ y.awake = x.awake /\ y.in = x.in /\ y.targets = x.targets
       /\ y.itemque = x.itemque
  BY <1>1, <1>3 DEF Worlds
<1>18. Typed(y)
  <2>1. y \in Worlds  BY <1>1, <1>3, <1>11, <1>14, <1>15 DEF Worlds
  <2> QED  BY <1>17, <2>1 DEF Typed
<1>19. \A id \in Of(y, "cube") : y.mobj[id].target = NULL
  <2> TAKE id \in Of(y, "cube")
  <2>1. id \in Addresses /\ mobj[id].kind = "cube"  BY <1>17 DEF Of
  <2>2. PICK n \in DOMAIN f.mobjs : address[n] = id /\ mobj[id] = f.mobjs[n]  BY <1>9, <1>10, <2>1
  <2> QED  BY <1>17, <2>1, <2>2 DEF Fits
<1>20. f.awake \/ f.map.targets > 0 => Of(y, "target") # {}
  <2> HAVE f.awake \/ f.map.targets > 0
  <2>1. PICK n \in DOMAIN f.mobjs : f.mobjs[n].kind = "target"  BY DEF Fits
  <2>2. address[n] \in Of(y, "target")  BY <1>5, <1>8, <1>17, <2>1 DEF Of
  <2> QED  BY <2>2
<1>21. ASSUME ~ y.error  PROVE Owned(y, {})
  <2>1. \A j \in Slots : mo[j] # NULL => mobj[mo[j]].kind = "body" /\ mobj[mo[j]].player = j
    BY <1>13
  <2>2. ASSUME NEW id \in Addresses, mobj[id].kind = "body", mobj[id].player # NULL
        PROVE  mo[mobj[id].player] = id
    <3> DEFINE i == mobj[id].player
    <3>1. i \in Slots  BY <1>11, <2>2, ObjectIs
    <3>2. id \in BodyOf(i)  BY <2>2
    <3>3. mo[i] \in BodyOf(i) /\ mo[i] \in Addresses  BY <1>13, <3>1, <3>2
    <3> QED  BY <1>12, <3>1, <3>2, <3>3
  <2>3. \A j \in x.in : mo[j] # NULL
    <3> TAKE j \in x.in
    <3>1. j \in Slots /\ BodyOf(j) # {}  BY <1>1, <1>16, <1>17, <1>21
    <3>2. mo[j] \in Addresses  BY <1>13, <3>1
    <3> QED  BY <3>2, NullIs
  <2> QED  BY <1>17, <2>1, <2>2, <2>3 DEF Owned
<1> QED  BY <1>17, <1>18, <1>19, <1>20, <1>21 DEF y

\* A loaded world is sound, unless the load found the saved bodies amiss.
LEMMA LoadKept ==
  ASSUME session \in Sessions, Typed(world), ~ world.error, NEW f, Fits(f), f.map = session.map,
         NEW u \in G_DoLoadGame(f)
  PROVE  Typed(u) /\ (~ u.error => Sound(u) /\ u.stage # "boot")
<1>1. CASE 0 \notin f.in
  <2>1. u = [world EXCEPT !.error = TRUE]  BY <1>1 DEF G_DoLoadGame
  <2>2. world \in Worlds  BY DEF Typed
  <2>3. /\ u \in Worlds /\ u.error /\ u.bodyque = world.bodyque /\ u.itemque = world.itemque
        /\ u.targets = world.targets
    BY <2>1, <2>2 DEF Worlds
  <2> QED  BY <2>3 DEF Typed
<1>2. CASE 0 \in f.in
  <2> DEFINE begun == [world EXCEPT !.in = f.in, !.ps = [i \in Slots |-> "reborn"]]
             X(v) == [SweptAway(NoBodies(v)) EXCEPT !.ps = f.ps, !.lying = f.lying, !.awake = f.awake,
                                                    !.loaded = TRUE]
  <2>1. PICK v \in G_DoLoadLevel(begun) : u = P_BrainTargets(UnArchived(X(v), f))
    BY <1>2 DEF G_DoLoadGame, Retargeted
  <2>2. Typed(begun)
    <3>1. world \in Worlds /\ f.in \in SUBSET Slots  BY DEF Typed, Fits, Saves
    <3>2. [i \in Slots |-> "reborn"] \in [Slots -> {"live", "dead", "reborn"}]  OBVIOUS
    <3>3. /\ begun \in Worlds /\ begun.bodyque = world.bodyque /\ begun.itemque = world.itemque
          /\ begun.targets = world.targets
      BY <3>1, <3>2 DEF Worlds
    <3> HIDE DEF begun
    <3> QED  BY <3>3 DEF Typed
  <2> HIDE DEF begun
  <2>3. Sound(v) /\ v.bodyque = <<>> /\ v.stage = "level"  BY <2>1, <2>2, LoadLevelKept
  <2> DEFINE x == X(v)  y == UnArchived(x, f)
  <2>4. /\ Typed(x) /\ x.bodyque = <<>> /\ x.lying = f.lying /\ x.awake = f.awake /\ x.ps = f.ps
        /\ x.loaded /\ x.stage = v.stage /\ x.in = v.in /\ Len(f.mobjs) <= Cardinality(Unused(x))
        /\ IsFiniteSet(Unused(x))
    BY <2>3, SweptIs
  <2>5. u = P_BrainTargets(y)  BY <2>1
  <2> HIDE DEF x
  <2>6. /\ Typed(y) /\ y.bodyque = <<>> /\ y.lying = f.lying /\ y.loaded /\ y.stage = x.stage
        /\ y.awake = x.awake
        /\ \A id \in Of(y, "cube") : y.mobj[id].target = NULL
        /\ f.awake \/ f.map.targets > 0 => Of(y, "target") # {}
        /\ ~ y.error => Owned(y, {})
    BY <2>4, ReadIs
  <2> HIDE DEF y
  <2>7. /\ Typed(u) /\ u = [y EXCEPT !.targets = u.targets, !.on = 0] /\ u.on = 0
        /\ Range(u.targets) \subseteq Of(y, "target")
        /\ Of(y, "target") # {} => u.targets # <<>>
    BY <2>5, <2>6, ListIs
  <2> HIDE DEF X
  <2>8. y \in Worlds  BY <2>6 DEF Typed
  <2>9. /\ u.mobj = y.mobj /\ u.mo = y.mo /\ u.ps = y.ps /\ u.in = y.in /\ u.bodyque = <<>>
        /\ u.lying = f.lying /\ u.loaded /\ u.awake = f.awake /\ u.stage = "level" /\ u.error = y.error
    BY <2>3, <2>4, <2>6, <2>7, <2>8 DEF Worlds
  <2>10. ASSUME ~ u.error  PROVE Sound(u)
    <3>1. Owned(u, {})  BY <2>6, <2>9, <2>10 DEF Owned
    <3>2. Buried(u)  BY <2>9, RangeEmpty DEF Buried, IsInjective
    <3>3. \A k : Of(u, k) = Of(y, k)  BY <2>9 DEF Of
    <3>4. Aimed(u)
      <4>1. ASSUME u.awake
            PROVE  /\ Range(u.targets) \subseteq Of(u, "target") /\ u.targets # <<>>
                   /\ u.on \in 0 .. Len(u.targets) - 1
        <5>1. u.targets # <<>>  BY <2>6, <2>7, <2>9, <4>1
        <5>2. u.targets \in Seq(Addresses)  BY <2>7, Fields DEF Typed
        <5> QED  BY <2>7, <3>3, <5>1, <5>2
      <4>2. \A id \in Of(u, "cube") : u.mobj[id].target \in Of(u, "target") \cup {NULL}
        BY <2>6, <2>9, <3>3
      <4>3. session.map.targets > 0 => Of(u, "target") # {}  BY <2>6, <3>3
      <4> QED  BY <4>1, <4>2, <4>3 DEF Aimed
    <3>5. Stocked(u)  BY <2>9 DEF Stocked, Fits
    <3> QED  BY <2>7, <3>1, <3>2, <3>4, <3>5 DEF Sound
  <2> QED  BY <2>7, <2>9, <2>10
<1> QED  BY <1>1, <1>2

-----------------------------------------------------------------------------
(* Every step keeps the invariant.                                         *)

LEMMA Primed ==
  ASSUME session' = session, Sound(world')
  PROVE  Sound(world)'
BY DEF Sound, Typed, Worlds, Owned, Buried, IsCorpse, Aimed, Of, Stocked, Fresh

LEMMA Lands ==
  ASSUME IInv, session' = session, file' = file, Sound(world'), world'.stage # "boot", world'.loaded => world.loaded
  PROVE  IInv'
<1>1. Sound(world)'  BY Primed
<1>2. Typed(world)'  BY <1>1 DEF Sound
<1>3. file' \in {NULL, Loaded} \/ Fits(file)'
  <2>1. file \in {NULL, Loaded} \/ Fits(file)  BY DEF IInv
  <2> QED  BY <2>1 DEF Fits, Saves
<1>4. session' \in Sessions /\ (world'.loaded => file' = Loaded)  BY DEF IInv
<1> QED  BY <1>1, <1>2, <1>3, <1>4 DEF IInv

LEMMA GoesOn ==
  ASSUME IInv, session' = session, file' = file, Sound(world), world.stage # "boot", Goes(world', Unseen)
  PROVE  IInv'
<1>1. Goes(Unseen, world)  BY UnseenKept
<1>2. Sound(world') /\ world'.stage # "boot" /\ (world'.loaded => world.loaded)  BY <1>1 DEF Goes
<1> QED  BY <1>2, Lands

LEMMA RunningSound ==
  ASSUME IInv, Followed
  PROVE  /\ Sound(world) /\ session \in Sessions /\ world.stage \in {"level", "between"}
         /\ Sound(Unseen) /\ Typed(Unseen) /\ Unseen.stage = world.stage /\ Unseen.loaded = world.loaded
         /\ Unseen.in = world.in /\ Unseen.ps = world.ps /\ Unseen.mobj = world.mobj /\ Unseen.mo = world.mo
         /\ Unseen.awake = world.awake /\ Unseen.itemque = world.itemque
         /\ Unseen \in Worlds /\ Unused(Unseen) = Unused(world)
<1>1. Sound(world) /\ session \in Sessions /\ world.stage # "boot"  BY DEF IInv, Followed
<1>2. world.stage \in {"level", "between"}  BY <1>1, Fields DEF Sound, Typed
<1>3. /\ Goes(Unseen, world) /\ Untouched(Unseen, world) /\ Unused(Unseen) = Unused(world)
      /\ Unseen.in = world.in /\ Unseen.lying = world.lying /\ Unseen.itemque = world.itemque
  BY <1>1, UnseenKept
<1> QED  BY <1>1, <1>2, <1>3 DEF Goes, Untouched, Sound, Typed

LEMMA LevelLoads ==
  ASSUME IInv, session' = session, file' = file, world' \in G_DoLoadLevel(Unseen)
  PROVE  IInv'
<1>1. session \in Sessions /\ Typed(world) /\ world \in Worlds  BY DEF IInv, Typed
<1>2. Typed(Unseen)
  <2>1. /\ Unseen \in Worlds /\ Unseen.bodyque = world.bodyque /\ Unseen.itemque = world.itemque
        /\ Unseen.targets = world.targets
    BY <1>1 DEF Unseen, Worlds
  <2> QED  BY <1>1, <2>1 DEF Typed
<1>3. Sound(world') /\ world'.stage = "level" /\ ~ world'.loaded  BY <1>1, <1>2, LoadLevelKept
<1> QED  BY <1>3, Lands

LEMMA EmptyIs ==
  ASSUME NEW s \in Sessions
  PROVE  Typed(Empty(s)) /\ Empty(s).stage = "boot" /\ ~ Empty(s).loaded
<1>1. /\ s.in \in SUBSET Slots
      /\ MAXBRAINTARGETS \in Nat \ {0} /\ BODYQUESIZE \in Nat \ {0} /\ ITEMQUESIZE \in Nat \ {0}
  BY MobjsAssumption
<1>2. NoMobj \in Objects /\ 0 \in 0 .. MAXBRAINTARGETS - 1  BY <1>1 DEF Objects
<1>3. /\ [i \in Slots |-> "reborn"] \in [Slots -> {"live", "dead", "reborn"}]
      /\ [i \in Slots |-> NULL] \in [Slots -> Addresses \cup {NULL}]
      /\ [id \in Addresses |-> NoMobj] \in [Addresses -> Objects]
      /\ [p \in Slots |-> 0] \in [Slots -> Nat]
      /\ <<>> \in Seq(Addresses) /\ <<>> \in Seq(Slots)
  BY <1>2
<1>4. Empty(s) \in Worlds  BY <1>1, <1>2, <1>3 DEF Empty, Worlds
<1>5. /\ Empty(s).bodyque = <<>> /\ Empty(s).itemque = <<>> /\ Empty(s).targets = <<>>
      /\ Empty(s).stage = "boot" /\ Empty(s).loaded = FALSE
  BY DEF Empty
<1> HIDE DEF NoMobj
<1> QED  BY <1>1, <1>4, <1>5 DEF Typed

LEMMA InitHolds == MobjsInit => IInv
<1> SUFFICES ASSUME MobjsInit  PROVE IInv  OBVIOUS
<1>1. session \in Sessions /\ file = NULL /\ world = Empty(session)  BY DEF MobjsInit
<1>2. Typed(world) /\ world.stage = "boot" /\ ~ world.loaded  BY <1>1, EmptyIs
<1> QED  BY <1>1, <1>2 DEF IInv

LEMMA BootKept == IInv /\ Boot => IInv'
<1> SUFFICES ASSUME IInv, Boot  PROVE IInv'  OBVIOUS
<1>1. session' \in Sessions /\ world' = Empty(session') /\ file' = file  BY DEF Boot
<1>2. Typed(world') /\ world'.stage = "boot" /\ ~ world'.loaded  BY <1>1, EmptyIs
<1>3. Typed(world)'  BY <1>2 DEF Typed, Worlds
<1>4. file' \in {NULL, Loaded} \/ Fits(file)'
  <2>1. file \in {NULL, Loaded} \/ Fits(file)  BY DEF IInv
  <2> QED  BY <1>1, <2>1 DEF Fits, Saves
<1>5. (world = Empty(session))'  BY <1>1
<1> QED  BY <1>1, <1>2, <1>3, <1>4, <1>5 DEF IInv

LEMMA NewGameKept == IInv /\ NewGame => IInv'
BY LevelLoads DEF NewGame, StepTo

LEMMA WorldDoneKept == IInv /\ WorldDone => IInv'
BY LevelLoads DEF WorldDone, StepTo

\* A change of who plays, and in what state, before or instead of a new body.
LEMMA Regrouped ==
  ASSUME IInv, Followed, NEW ins \in SUBSET Slots, NEW ps \in [Slots -> {"live", "dead", "reborn"}],
         \A j \in ins : ps[j] # "reborn" => world.mo[j] # NULL, NEW stage \in {"level", "between"},
         NEW u, u = Grouped(Unseen, stage, ins, ps)
  PROVE  Sound(u) /\ u.stage = stage /\ u.loaded = world.loaded /\ Unused(u) = Unused(world) /\ u.in = ins
<1>1. Sound(Unseen) /\ Unseen.loaded = world.loaded /\ Unseen.mo = world.mo /\ Unused(Unseen) = Unused(world)
      /\ Unseen \in Worlds
  BY RunningSound
<1>2. /\ Sound(u) /\ u.stage = stage /\ u.loaded = Unseen.loaded /\ u.error = Unseen.error
      /\ Unused(u) = Unused(Unseen)
  BY <1>1, PlayersKept
<1>3. u.in = ins  BY <1>1 DEF Worlds, Grouped
<1> QED  BY <1>1, <1>2, <1>3

LEMMA JoinKept ==
  ASSUME IInv, NEW i \in Slots, Join(i)
  PROVE  IInv'
<1> DEFINE ins == world.in \cup {i}  ps == [world.ps EXCEPT ![i] = "reborn"]
           v == Grouped(Unseen, world.stage, ins, ps)
<1>1. Followed /\ HasRoom(world, 1) /\ session' = session /\ file' = file  BY DEF Join, StepTo
<1>2. PICK taken \in {{}, Slots} :
        world' \in G_DoReborn([Unseen EXCEPT !.in = @ \cup {i}, !.ps[i] = "reborn"], i, taken)
  BY DEF Join, StepTo
<1>3. /\ Sound(world) /\ session \in Sessions /\ world.stage \in {"level", "between"}
      /\ Unseen.stage = world.stage /\ Unseen.in = world.in /\ Unseen.ps = world.ps /\ Unseen \in Worlds
  BY <1>1, RunningSound
<1>4. ins \in SUBSET Slots /\ ps \in [Slots -> {"live", "dead", "reborn"}]
      /\ world.ps \in [Slots -> {"live", "dead", "reborn"}]
  BY <1>3, Fields DEF Sound, Typed
<1>5. \A j \in ins : ps[j] # "reborn" => world.mo[j] # NULL
  BY <1>3, <1>4 DEF Sound, Owned
<1>6. [Unseen EXCEPT !.in = @ \cup {i}, !.ps[i] = "reborn"] = v  BY <1>3 DEF Worlds, Grouped
<1>7. v = Grouped(Unseen, world.stage, ins, ps)  OBVIOUS
<1> HIDE DEF ins, ps, v
<1>8. Sound(v) /\ v.stage = world.stage /\ v.loaded = world.loaded /\ Unused(v) = Unused(world) /\ v.in = ins
  BY <1>1, <1>3, <1>4, <1>5, <1>7, Regrouped
<1>9. Unused(v) # {}  BY <1>1, <1>3, <1>8, RoomGives
<1>10. i \in v.in /\ world' \in G_DoReborn(v, i, taken)  BY <1>2, <1>6, <1>8 DEF ins
<1>11. Goes(world', v)  BY <1>3, <1>8, <1>9, <1>10, ComesBack
<1>12. Sound(world') /\ world'.stage # "boot" /\ (world'.loaded => world.loaded)  BY <1>3, <1>8, <1>11 DEF Goes
<1> QED  BY <1>1, <1>12, Lands

LEMMA RebornStepKept ==
  ASSUME IInv, NEW i \in Slots, Respawns(i)
  PROVE  IInv'
<1>1. Followed /\ HasRoom(world, 1) /\ i \in world.in /\ session' = session /\ file' = file
      /\ (\/ world' \in G_DoLoadLevel(Unseen)
          \/ \E taken \in {{}, Slots} : world' \in G_DoReborn(Unseen, i, taken))
  BY DEF Respawns, StepTo
<1>2. CASE world' \in G_DoLoadLevel(Unseen)  BY <1>1, <1>2, LevelLoads
<1>3. ASSUME NEW taken, world' \in G_DoReborn(Unseen, i, taken)  PROVE IInv'
  <2>1. /\ Sound(world) /\ session \in Sessions /\ world.stage \in {"level", "between"}
        /\ Sound(Unseen) /\ Unseen.in = world.in /\ Unused(Unseen) = Unused(world)
    BY <1>1, RunningSound
  <2>2. Unused(Unseen) # {}  BY <1>1, <2>1, RoomGives
  <2>3. Goes(world', Unseen)  BY <1>1, <1>3, <2>1, <2>2, ComesBack
  <2> QED  BY <1>1, <2>1, <2>3, GoesOn
<1> QED  BY <1>1, <1>2, <1>3

LEMMA LeaveKept ==
  ASSUME IInv, NEW i \in Slots, Leave(i)
  PROVE  IInv'
<1>1. Followed /\ world' = [Unseen EXCEPT !.in = @ \ {i}] /\ session' = session /\ file' = file
  BY DEF Leave, StepTo
<1>2. /\ Sound(world) /\ world.stage \in {"level", "between"}
      /\ Unseen.stage = world.stage /\ Unseen.in = world.in /\ Unseen.ps = world.ps /\ Unseen \in Worlds
  BY <1>1, RunningSound
<1> DEFINE ins == world.in \ {i}
<1>3. /\ ins \in SUBSET Slots /\ world.ps \in [Slots -> {"live", "dead", "reborn"}]
      /\ \A j \in ins : world.ps[j] # "reborn" => world.mo[j] # NULL
  BY <1>2, Fields DEF Sound, Typed, Owned
<1>4. world' = Grouped(Unseen, world.stage, ins, world.ps)  BY <1>1, <1>2 DEF Worlds, Grouped
<1> HIDE DEF ins
<1>5. Sound(world') /\ world'.stage = world.stage /\ world'.loaded = world.loaded
  <2> DEFINE u == Grouped(Unseen, world.stage, ins, world.ps)
  <2>1. u = Grouped(Unseen, world.stage, ins, world.ps)  OBVIOUS
  <2> HIDE DEF u
  <2>2. Sound(u) /\ u.stage = world.stage /\ u.loaded = world.loaded
    BY <1>1, <1>2, <1>3, <2>1, Regrouped
  <2> QED  BY <1>4, <2>1, <2>2
<1> QED  BY <1>1, <1>2, <1>5, Lands

LEMMA PressUseKept ==
  ASSUME IInv, NEW i \in Slots, PressUse(i)
  PROVE  IInv'
<1>1. /\ Followed /\ i \in world.in /\ world.ps[i] = "dead" /\ world' = [Unseen EXCEPT !.ps[i] = "reborn"]
      /\ session' = session /\ file' = file
  BY DEF PressUse, Playing, StepTo
<1>2. /\ Sound(world) /\ world.stage \in {"level", "between"}
      /\ Unseen.stage = world.stage /\ Unseen.in = world.in /\ Unseen.ps = world.ps /\ Unseen \in Worlds
  BY <1>1, RunningSound
<1> DEFINE ps == [world.ps EXCEPT ![i] = "reborn"]
<1>3. /\ world.in \in SUBSET Slots /\ world.ps \in [Slots -> {"live", "dead", "reborn"}]
      /\ ps \in [Slots -> {"live", "dead", "reborn"}]
  BY <1>2, Fields DEF Sound, Typed
<1>4. \A j \in world.in : ps[j] # "reborn" => world.mo[j] # NULL  BY <1>2, <1>3 DEF Sound, Owned
<1>5. world' = Grouped(Unseen, world.stage, world.in, ps)  BY <1>1, <1>2 DEF Worlds, Grouped
<1> HIDE DEF ps
<1>6. Sound(world') /\ world'.stage = world.stage /\ world'.loaded = world.loaded
  <2> DEFINE u == Grouped(Unseen, world.stage, world.in, ps)
  <2>1. u = Grouped(Unseen, world.stage, world.in, ps)  OBVIOUS
  <2> HIDE DEF u
  <2>2. Sound(u) /\ u.stage = world.stage /\ u.loaded = world.loaded
    BY <1>1, <1>2, <1>3, <1>4, <2>1, Regrouped
  <2> QED  BY <1>5, <2>1, <2>2
<1> QED  BY <1>1, <1>2, <1>6, Lands

LEMMA CompleteKept == IInv /\ Complete => IInv'
<1> SUFFICES ASSUME IInv, Complete  PROVE IInv'  OBVIOUS
<1>1. Followed /\ world' = [Unseen EXCEPT !.stage = "between"] /\ session' = session /\ file' = file
  BY DEF Complete, Playing, StepTo
<1>2. /\ Sound(world) /\ Unseen.in = world.in /\ Unseen.ps = world.ps /\ Unseen \in Worlds
  BY <1>1, RunningSound
<1>3. /\ world.in \in SUBSET Slots /\ world.ps \in [Slots -> {"live", "dead", "reborn"}]
      /\ \A j \in world.in : world.ps[j] # "reborn" => world.mo[j] # NULL
  BY <1>2, Fields DEF Sound, Typed, Owned
<1>4. world' = Grouped(Unseen, "between", world.in, world.ps)  BY <1>1, <1>2 DEF Worlds, Grouped
<1>5. Sound(world') /\ world'.stage = "between" /\ world'.loaded = world.loaded
  <2> DEFINE u == Grouped(Unseen, "between", world.in, world.ps)
  <2>1. u = Grouped(Unseen, "between", world.in, world.ps)  OBVIOUS
  <2> HIDE DEF u
  <2>2. Sound(u) /\ u.stage = "between" /\ u.loaded = world.loaded
    BY <1>1, <1>3, <2>1, Regrouped
  <2> QED  BY <1>4, <2>1, <2>2
<1> QED  BY <1>1, <1>5, Lands

LEMMA MoveStepKept ==
  ASSUME IInv, NEW id \in Addresses, Move(id)
  PROVE  IInv'
<1>1. /\ Followed /\ world.mobj[id].kind = "body" /\ session' = session /\ file' = file
      /\ world' \in {[Unseen EXCEPT !.mobj[id].at = NULL]}
                  \cup {TouchItem([Unseen EXCEPT !.mobj[id].at = NULL], id, s) : s \in Slots}
  BY DEF Move, Playing, StepTo
<1>2. Sound(world) /\ session \in Sessions /\ world.stage # "boot" /\ Sound(Unseen) /\ Unseen.mobj = world.mobj
  BY <1>1, RunningSound
<1>3. Goes(world', Unseen)
  <2> DEFINE v == Unseen
  <2> HIDE DEF v
  <2>1. Sound(v) /\ v.mobj[id].kind = "body"  BY <1>1, <1>2 DEF v
  <2>2. world' \in {[v EXCEPT !.mobj[id].at = NULL]}
                  \cup {TouchItem([v EXCEPT !.mobj[id].at = NULL], id, s) : s \in Slots}
    BY <1>1 DEF v
  <2>3. Goes(world', v)  BY <1>2, <2>1, <2>2, MoveKept
  <2> QED  BY <2>3 DEF v
<1> QED  BY <1>1, <1>2, <1>3, GoesOn

LEMMA DieStepKept ==
  ASSUME IInv, NEW id \in Addresses, BodyDies(id)
  PROVE  IInv'
<1> DEFINE X(v) == [v EXCEPT !.mobj[id].alive = FALSE,
                             !.mobj[id].at = IF v.mobj[id].player = NULL THEN NULL ELSE @]
           U(v) == IF v.mobj[id].player = NULL THEN X(v) ELSE [X(v) EXCEPT !.ps[v.mobj[id].player] = "dead"]
<1>1. Followed /\ world.mobj[id].kind = "body" /\ session' = session /\ file' = file
  BY DEF BodyDies, Playing, StepTo
<1>2. Sound(world) /\ world.stage # "boot" /\ Sound(Unseen) /\ Unseen.mobj = world.mobj  BY <1>1, RunningSound
<1>3. world' = U(Unseen)  BY <1>2 DEF BodyDies, StepTo
<1>4. Goes(U(Unseen), Unseen)
  <2> DEFINE v == Unseen
  <2> HIDE DEF v
  <2>1. Sound(v) /\ v.mobj[id].kind = "body"  BY <1>1, <1>2 DEF v
  <2>2. Goes(U(v), v)  BY <2>1, DieKept
  <2> HIDE DEF U
  <2> QED  BY <2>2 DEF v
<1> QED  BY <1>1, <1>2, <1>3, <1>4, GoesOn

LEMMA ShooterKept == IInv /\ Shooter => IInv'
<1> SUFFICES ASSUME IInv, Shooter  PROVE IInv'  OBVIOUS
<1>1. Followed /\ session.map.targets > 0 /\ session' = session /\ file' = file
  BY DEF Shooter, Playing, StepTo
<1>2. /\ Sound(world) /\ session \in Sessions /\ world.stage # "boot" /\ Sound(Unseen)
      /\ Unseen.mobj = world.mobj /\ Unseen.awake = world.awake
  BY <1>1, RunningSound
<1>3. \/ world' = P_BrainTargets([Unseen EXCEPT !.awake = TRUE])
      \/ world.awake /\ HasRoom(world, 1) /\ world' = A_BrainSpit(Unseen)
      \/ \E id \in Of(world, "cube") : world' = A_SpawnFly(Unseen, id)
  BY DEF Shooter, StepTo
<1>4. Of(Unseen, "cube") = Of(world, "cube") /\ (HasRoom(world, 1) => HasRoom(Unseen, 1))
  BY <1>2 DEF Of, HasRoom, Present
<1>5. Goes(world', Unseen)
  <2>1. CASE world' = P_BrainTargets([Unseen EXCEPT !.awake = TRUE])  BY <1>1, <1>2, <2>1, AwakeKept
  <2>2. CASE world.awake /\ HasRoom(world, 1) /\ world' = A_BrainSpit(Unseen)  BY <1>2, <1>4, <2>2, SpitKept
  <2>3. ASSUME NEW id \in Of(world, "cube"), world' = A_SpawnFly(Unseen, id)  PROVE Goes(world', Unseen)
    BY <1>2, <1>4, <2>3, FlyKept
  <2> QED  BY <1>3, <2>1, <2>2, <2>3
<1> QED  BY <1>1, <1>2, <1>5, GoesOn

LEMMA RespawnStepKept == IInv /\ P_RespawnSpecials => IInv'
<1> SUFFICES ASSUME IInv, P_RespawnSpecials  PROVE IInv'  OBVIOUS
<1>1. /\ Followed /\ session.deathmatch = 2 /\ world.itemque # <<>> /\ session' = session /\ file' = file
      /\ world' = [Unseen EXCEPT !.lying[Head(world.itemque)] = @ + 1, !.itemque = Tail(@)]
  BY DEF P_RespawnSpecials, Playing, StepTo
<1>2. /\ Sound(world) /\ session \in Sessions /\ world.stage # "boot" /\ Sound(Unseen)
      /\ Unseen.itemque = world.itemque
  BY <1>1, RunningSound
<1>3. Goes(world', Unseen)
  <2> DEFINE v == Unseen
  <2> HIDE DEF v
  <2>1. /\ Sound(v) /\ v.itemque # <<>>
        /\ world' = [v EXCEPT !.lying[Head(v.itemque)] = @ + 1, !.itemque = Tail(@)]
    BY <1>1, <1>2 DEF v
  <2>2. Goes(world', v)  BY <1>1, <1>2, <2>1, RespawnKept
  <2> QED  BY <2>2 DEF v
<1> QED  BY <1>1, <1>2, <1>3, GoesOn

LEMMA SaveGameKept == IInv /\ SaveGame => IInv'
<1> SUFFICES ASSUME IInv, SaveGame  PROVE IInv'  OBVIOUS
<1>1. Followed /\ HasRoom(world, 0) /\ file = NULL /\ file' = P_Archive(world) /\ world' = Unseen /\ session' = session
  BY DEF SaveGame, Playing
<1>2. /\ Sound(world) /\ session \in Sessions /\ world.stage \in {"level", "between"}
      /\ Sound(Unseen) /\ Unseen.stage = world.stage /\ Unseen.loaded = world.loaded
  BY <1>1, RunningSound
<1>3. ~ world.loaded
  <2>1. NULL # Loaded  BY MobjsAssumption
  <2> QED  BY <1>1, <2>1 DEF IInv
<1>4. Fits(file')  BY <1>1, <1>2, <1>3, ArchiveFits
<1>5. Fits(file)'  BY <1>4 DEF Fits, Saves
<1>6. Sound(world)' /\ world'.stage # "boot" /\ ~ world'.loaded  BY <1>1, <1>2, <1>3, Primed
<1>7. session' \in Sessions  BY <1>1, <1>2
<1> QED  BY <1>5, <1>6, <1>7 DEF IInv, Sound

LEMMA LoadGameKept == IInv /\ LoadGame => IInv'
<1> SUFFICES ASSUME IInv, LoadGame  PROVE IInv'  OBVIOUS
<1>1. /\ ~ world.error /\ file \notin {NULL, Loaded} /\ file.map = session.map
      /\ world' \in G_DoLoadGame(file) /\ file' = Loaded /\ session' = session
  BY DEF LoadGame
<1>2. Fits(file) /\ session \in Sessions /\ Typed(world)  BY <1>1 DEF IInv
<1>3. Typed(world') /\ (~ world'.error => Sound(world') /\ world'.stage # "boot")  BY <1>1, <1>2, LoadKept
<1>4. Typed(world)'  BY <1>3 DEF Typed, Worlds
<1>5. ~ world'.error => Sound(world)' /\ world'.stage # "boot"  BY <1>1, <1>3, Primed
<1> QED  BY <1>1, <1>2, <1>4, <1>5 DEF IInv

LEMMA NextKept == IInv /\ [MobjsNext]_mobjsVars => IInv'
<1> SUFFICES ASSUME IInv, [MobjsNext]_mobjsVars  PROVE IInv'  OBVIOUS
<1>1. CASE Boot  BY <1>1, BootKept
<1>2. CASE NewGame  BY <1>2, NewGameKept
<1>3. CASE Shooter  BY <1>3, ShooterKept
<1>4. CASE P_RespawnSpecials  BY <1>4, RespawnStepKept
<1>5. CASE Complete  BY <1>5, CompleteKept
<1>6. CASE WorldDone  BY <1>6, WorldDoneKept
<1>7. CASE SaveGame  BY <1>7, SaveGameKept
<1>8. CASE LoadGame  BY <1>8, LoadGameKept
<1>9. ASSUME NEW i \in Slots, Join(i)  PROVE IInv'  BY <1>9, JoinKept
<1>10. ASSUME NEW i \in Slots, Leave(i)  PROVE IInv'  BY <1>10, LeaveKept
<1>11. ASSUME NEW i \in Slots, Respawns(i)  PROVE IInv'  BY <1>11, RebornStepKept
<1>12. ASSUME NEW i \in Slots, PressUse(i)  PROVE IInv'  BY <1>12, PressUseKept
<1>13. ASSUME NEW id \in Addresses, Move(id)  PROVE IInv'  BY <1>13, MoveStepKept
<1>14. ASSUME NEW id \in Addresses, BodyDies(id)  PROVE IInv'  BY <1>14, DieStepKept
<1>15. CASE UNCHANGED mobjsVars
  BY <1>15 DEF mobjsVars, IInv, Typed, Worlds, Sound, Owned, Buried, IsCorpse, Aimed, Of, Stocked, Fresh,
     Fits, Saves, Empty
<1> QED
  BY <1>1, <1>2, <1>3, <1>4, <1>5, <1>6, <1>7, <1>8, <1>9, <1>10, <1>11, <1>12, <1>13, <1>14, <1>15
  DEF MobjsNext

LEMMA Invariant == MobjsSpec => []IInv
<1>1. MobjsInit => IInv  BY InitHolds
<1>2. IInv /\ [MobjsNext]_mobjsVars => IInv'  BY NextKept
<1> QED  BY <1>1, <1>2, PTL DEF MobjsSpec

-----------------------------------------------------------------------------
(* What follows.                                                           *)

LEMMA Typing == IInv => MobjsTypeOK
BY DEF IInv, Typed, Fits, MobjsTypeOK

LEMMA Holding == IInv => PointersHold
<1> SUFFICES ASSUME IInv, Followed  PROVE
      /\ \A i \in Slots : world.mo[i] # NULL => world.mobj[world.mo[i]].kind = "body"
      /\ \A i \in world.in : world.ps[i] # "reborn" => world.mo[i] # NULL /\ world.mobj[world.mo[i]].player = i
      /\ \A id \in Of(world, "body") : world.mobj[id].player # NULL => world.mo[world.mobj[id].player] = id
      /\ IsInjective(world.bodyque)
      /\ \A id \in Range(world.bodyque) : world.mobj[id].kind = "body" /\ world.mobj[id].player = NULL
      /\ world.awake => /\ Range(world.targets) \subseteq Of(world, "target") /\ world.targets # <<>>
                        /\ world.on \in 0 .. Len(world.targets) - 1
      /\ \A id \in Of(world, "cube") : world.mobj[id].target \in Of(world, "target") \cup {NULL}
  BY DEF PointersHold
<1>1. Sound(world)  BY RunningSound
<1>2. world.in \subseteq Slots  BY <1>1, Fields DEF Sound, Typed
<1>3. /\ \A i \in Slots : world.mo[i] # NULL => world.mobj[world.mo[i]].kind = "body" /\ world.mobj[world.mo[i]].player = i
      /\ \A id \in Addresses : world.mobj[id].kind = "body" /\ world.mobj[id].player # NULL => world.mo[world.mobj[id].player] = id
      /\ \A i \in world.in : world.ps[i] # "reborn" => world.mo[i] # NULL
  BY <1>1 DEF Sound, Owned
<1>4. \A id \in Of(world, "body") : world.mobj[id].player # NULL => world.mo[world.mobj[id].player] = id
  BY <1>3 DEF Of
<1>5. \A i \in world.in : world.ps[i] # "reborn" => world.mo[i] # NULL /\ world.mobj[world.mo[i]].player = i
  BY <1>2, <1>3
<1>6. IsInjective(world.bodyque) /\ \A id \in Range(world.bodyque) : world.mobj[id].kind = "body" /\ world.mobj[id].player = NULL
  BY <1>1 DEF Sound, Buried, IsCorpse
<1>7. /\ world.awake => /\ Range(world.targets) \subseteq Of(world, "target") /\ world.targets # <<>>
                        /\ world.on \in 0 .. Len(world.targets) - 1
      /\ \A id \in Of(world, "cube") : world.mobj[id].target \in Of(world, "target") \cup {NULL}
  BY <1>1 DEF Sound, Aimed
<1> QED  BY <1>3, <1>4, <1>5, <1>6, <1>7

LEMMA CountIs ==
  ASSUME NEW S, NEW q \in Seq(S), IsInjective(q), NEW p
  PROVE  Cardinality({k \in DOMAIN q : q[k] = p}) = IF p \in Range(q) THEN 1 ELSE 0
<1> DEFINE K == {k \in DOMAIN q : q[k] = p}
<1>1. CASE p \in Range(q)
  <2>1. PICK k \in 1 .. Len(q) : q[k] = p  BY <1>1, RangeIs
  <2>2. K = {k}  BY <2>1 DEF IsInjective
  <2> QED  BY <1>1, <2>2, FS_Singleton
<1>2. CASE p \notin Range(q)
  <2>1. K = {}  BY <1>2 DEF Range
  <2> QED  BY <1>2, <2>1, FS_EmptySet
<1> QED  BY <1>1, <1>2

LEMMA Once == IInv => ItemOnce
<1> SUFFICES ASSUME IInv, Followed, NEW p \in Slots
    PROVE  LET n == world.lying[p] + Cardinality({k \in DOMAIN world.itemque : world.itemque[k] = p}) IN
           /\ ~ world.loaded => n <= 1
           /\ ~ world.loaded /\ p \in session.map.items /\ Cardinality(session.map.items) < ITEMQUESIZE => n = 1
           /\ session.deathmatch # 2 => world.lying[p] <= 1
  BY DEF ItemOnce
<1> DEFINE c == Cardinality({k \in DOMAIN world.itemque : world.itemque[k] = p})
<1>1. Sound(world) /\ session \in Sessions  BY RunningSound
<1>2. world.itemque \in Seq(Slots) /\ world.lying[p] \in Nat  BY <1>1, Fields DEF Sound, Typed
<1>3. session.deathmatch # 2 => world.lying[p] <= 1  BY <1>1 DEF Sound, Stocked
<1>4. ASSUME Fresh(world)
      PROVE  /\ world.lying[p] + c <= 1
             /\ p \in session.map.items /\ Cardinality(session.map.items) < ITEMQUESIZE => world.lying[p] + c = 1
  <2>1. c = IF p \in Range(world.itemque) THEN 1 ELSE 0  BY <1>2, <1>4, CountIs DEF Fresh
  <2> HIDE DEF c
  <2>2. /\ world.lying[p] <= 1 /\ (world.lying[p] = 1 => p \notin Range(world.itemque))
        /\ p \in session.map.items /\ Cardinality(session.map.items) < ITEMQUESIZE
             => world.lying[p] = 1 \/ p \in Range(world.itemque)
    BY <1>4 DEF Fresh
  <2> QED  BY <1>2, <2>1, <2>2
<1>5. ~ world.loaded => Fresh(world)  BY <1>1 DEF Sound, Stocked
<1> HIDE DEF c
<1> QED  BY <1>3, <1>4, <1>5 DEF c

\* Every pointer of the engine is an address or NULL, and the corpse ring, the
\* item ring and the list of spots stay within their tables, for any number of
\* players, any maps and any sizes of the tables.
THEOREM ObjectsTyped == MobjsSpec => []MobjsTypeOK
<1>1. IInv => MobjsTypeOK  BY Typing
<1> QED  BY <1>1, Invariant, PTL

\* No pointer the engine follows outlives what it points to, whoever joins,
\* leaves, dies, comes back, saves or loads (G_DoReborn, G_CheckSpot,
\* P_SetupLevel, P_UnArchiveThinkers, P_BrainTargets).
THEOREM NoneDangles == MobjsSpec => []PointersHold
<1>1. IInv => PointersHold  BY Holding
<1> QED  BY <1>1, Invariant, PTL

\* Until a load, an item lies at its place or is queued to come back, never both,
\* and none is lost while the ring has room for all (P_RemoveMobj,
\* P_RespawnSpecials).
THEOREM NoneTwice == MobjsSpec => []ItemOnce
<1>1. IInv => ItemOnce  BY Once
<1> QED  BY <1>1, Invariant, PTL

\* Both together, which is what the runs check.
THEOREM ObjectsStaySound == MobjsSpec => []ObjectsSound
<1>1. IInv => ObjectsSound  BY Holding, Once DEF ObjectsSound
<1> QED  BY <1>1, Invariant, PTL
=============================================================================
