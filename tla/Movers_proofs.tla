---------------------------- MODULE Movers_proofs ----------------------------
(* The moving sectors agree with their tables, for every map the assumptions  *)
(* of Movers allow, every size of the tables, every wait and height.          *)
EXTENDS Movers, FiniteSetTheorems, SequenceTheorems, TLAPS

-----------------------------------------------------------------------------
(* Induction over the naturals, with a set in the place of a predicate.    *)

\* The least element of a set of naturals.
LEMMA LeastNat ==
  ASSUME NEW T \in SUBSET Nat, T # {}
  PROVE  \E m \in T : \A n \in T : m <= n
<1> DEFINE R == {ss \in Nat \X Nat : ss[1] < ss[2]}
<1>1. IsWellFoundedOn(R, Nat)
  BY NatLessThanWellFounded, Zenon DEF OpToRel
<1>2. PICK m \in T : \A n \in T : ~ (<<n, m>> \in R)
  <2> HIDE DEF R
  <2> QED  BY <1>1, WFMin
<1>3. ASSUME NEW n \in T, n < m  PROVE FALSE
  <2>1. <<n, m>> \in Nat \X Nat /\ <<n, m>>[1] < <<n, m>>[2]  BY <1>3
  <2>2. <<n, m>> \in R  BY <2>1, Zenon
  <2> QED  BY <1>2, <1>3, <2>2
<1>4. \A n \in T : m <= n  BY <1>3
<1> QED  BY <1>4

\* A set that holds 0, and the next of each it holds below n, holds n.
LEMMA UpTo ==
  ASSUME NEW T, NEW n \in Nat, 0 \in T, \A k \in 0 .. n - 1 : k \in T => k + 1 \in T
  PROVE  \A k \in 0 .. n : k \in T
<1> DEFINE M == {k \in 0 .. n : k \notin T}
<1> SUFFICES ASSUME M # {} PROVE FALSE  OBVIOUS
<1>1. M \in SUBSET Nat  OBVIOUS
<1>2. PICK m \in M : \A k \in M : m <= k
  <2> HIDE DEF M
  <2> QED  BY <1>1, LeastNat
<1>3. m \in 0 .. n /\ m \notin T /\ m # 0  BY <1>2
<1>4. m - 1 \in 0 .. n - 1 /\ m - 1 \notin M  BY <1>2, <1>3
<1>5. m - 1 \in T  BY <1>4
<1>6. (m - 1) + 1 \in T  BY <1>4, <1>5
<1> QED  BY <1>3, <1>6

\* A set of numbers up to n has a greatest and a least, which Max and Min choose.
LEMMA MaxIn ==
  ASSUME NEW n \in Nat, NEW S \in SUBSET (1 .. n), S # {}
  PROVE  Max(S) \in S /\ \A y \in S : Max(S) >= y
<1> DEFINE T == {k \in Nat : n - k \in S}
<1>1. T # {}
  <2>1. PICK y \in S : TRUE  OBVIOUS
  <2>2. n - y \in Nat /\ n - (n - y) = y  BY <2>1
  <2> QED  BY <2>1, <2>2
<1>2. PICK m \in T : \A k \in T : m <= k
  <2> HIDE DEF T
  <2>1. T \in SUBSET Nat  BY DEF T
  <2> QED  BY <1>1, <2>1, LeastNat
<1>3. n - m \in S  BY <1>2
<1>4. \A y \in S : n - m >= y
  <2> TAKE y \in S
  <2>1. n - y \in Nat /\ n - (n - y) = y  OBVIOUS
  <2>2. n - y \in T  BY <2>1
  <2>3. m <= n - y
    <3> HIDE DEF T
    <3> QED  BY <1>2, <2>2
  <2> QED  BY <1>2, <2>1, <2>3
<1>5. \E x \in S : \A y \in S : x >= y  BY <1>3, <1>4
<1> QED  BY <1>5 DEF Max

\* The least of numbers from 1 to n, likewise.
LEMMA MinIn ==
  ASSUME NEW n \in Nat, NEW S \in SUBSET (1 .. n), S # {}
  PROVE  Min(S) \in S /\ \A y \in S : Min(S) <= y
<1>1. PICK m \in S : \A k \in S : m <= k
  <2>1. S \in SUBSET Nat  OBVIOUS
  <2> QED  BY <2>1, LeastNat
<1> QED  BY <1>1 DEF Min

-----------------------------------------------------------------------------
(* Folds.  FoldLeft is a recursive function of the sets of indices; there is *)
(* such a function when every step leads from a set V of values into V.      *)

FoldsBy(f, n, base, F) ==
  \A s \in SUBSET (1 .. n) :
    f[s] = IF s = {} THEN base ELSE F[<<Max(s), f[s \ {Max(s)}]>>]

\* A fold whose steps stay in V is a recursive function that has values.
LEMMA FoldExists ==
  ASSUME NEW n \in Nat, NEW V, NEW base \in V, NEW F \in [(1 .. n) \X V -> V]
  PROVE  \E f \in [SUBSET (1 .. n) -> V] : FoldsBy(f, n, base, F)
<1> DEFINE D == SUBSET (1 .. n)
           Small(k) == {s \in D : Cardinality(s) <= k}
           Val(f, s) == IF s = {} THEN base ELSE F[<<Max(s), f[s \ {Max(s)}]>>]
           Done(k) == \E f \in [Small(k) -> V] : \A s \in Small(k) : f[s] = Val(f, s)
           T == {k \in Nat : Done(k)}
<1>1. \A s \in D : IsFiniteSet(s) /\ Cardinality(s) \in 0 .. n /\ (Cardinality(s) = 0 <=> s = {})
  <2> TAKE s \in D
  <2>1. IsFiniteSet(1 .. n) /\ Cardinality(1 .. n) = n  BY FS_Interval
  <2>2. s \in SUBSET (1 .. n)  OBVIOUS
  <2> HIDE DEF D
  <2>3. IsFiniteSet(s) /\ Cardinality(s) <= n
    <3>1. IsFiniteSet(s) /\ Cardinality(s) <= Cardinality(1 .. n)
      BY <2>1, <2>2, FS_Subset, Zenon
    <3> QED  BY <2>1, <3>1
  <2>4. Cardinality(s) \in Nat  BY <2>3, FS_CardinalityType
  <2>5. Cardinality(s) = 0 <=> s = {}  BY <2>3, FS_EmptySet
  <2> QED  BY <2>3, <2>4, <2>5
<1>2. \A s \in D : s # {} => /\ Max(s) \in 1 .. n /\ s \ {Max(s)} \in D
                             /\ Cardinality(s \ {Max(s)}) = Cardinality(s) - 1
  <2> TAKE s \in D
  <2> HAVE s # {}
  <2>1. Max(s) \in s  BY MaxIn
  <2>2. Cardinality(s \ {Max(s)}) = Cardinality(s) - 1  BY <1>1, <2>1, FS_RemoveElement
  <2> QED  BY <2>1, <2>2
<1>3. 0 \in T
  <2> DEFINE f == [s \in Small(0) |-> base]
  <2>1. \A s \in Small(0) : s = {}  BY <1>1
  <2>2. f \in [Small(0) -> V]  OBVIOUS
  <2>3. \A s \in Small(0) : f[s] = Val(f, s)  BY <2>1
  <2> HIDE DEF f, Val, Small
  <2> QED  BY <2>2, <2>3
<1>4. ASSUME NEW k \in 0 .. n - 1, k \in T  PROVE k + 1 \in T
  <2>1. PICK f \in [Small(k) -> V] : \A s \in Small(k) : f[s] = Val(f, s)
    <3> HIDE DEF Val, Small
    <3> QED  BY <1>4
  <2> DEFINE g == [s \in Small(k + 1) |-> IF s \in Small(k) THEN f[s] ELSE Val(f, s)]
  <2>2. \A s \in Small(k + 1) : s # {} => s \ {Max(s)} \in Small(k)
    <3> TAKE s \in Small(k + 1)
    <3> HAVE s # {}
    <3>1. s \in D /\ Cardinality(s) <= k + 1  OBVIOUS
    <3>2. s \ {Max(s)} \in D /\ Cardinality(s \ {Max(s)}) = Cardinality(s) - 1  BY <1>2, <3>1
    <3>3. Cardinality(s) - 1 <= k  BY <1>1, <3>1
    <3> QED  BY <3>2, <3>3
  <2>3. \A s \in Small(k) : s \in Small(k + 1)  BY <1>1
  <2>4. \A s \in Small(k + 1) : Val(f, s) \in V
    <3> TAKE s \in Small(k + 1)
    <3>1. CASE s = {}  BY <3>1
    <3>2. CASE s # {}
      <4>1. f[s \ {Max(s)}] \in V /\ Max(s) \in 1 .. n
        <5> HIDE DEF Small
        <5>1. s \in D  BY DEF Small
        <5> QED  BY <1>2, <2>1, <2>2, <3>2, <5>1
      <4>2. <<Max(s), f[s \ {Max(s)}]>> \in (1 .. n) \X V  BY <4>1
      <4>3. F[<<Max(s), f[s \ {Max(s)}]>>] \in V  BY <4>2
      <4> QED  BY <3>2, <4>3
    <3> QED  BY <3>1, <3>2
  <2>5. g \in [Small(k + 1) -> V]
    <3> HIDE DEF Small, Val
    <3> QED  BY <2>1, <2>4
  <2>6. \A s \in Small(k) : g[s] = f[s]
    <3> HIDE DEF Small, Val
    <3> QED  BY <2>3
  <2>7. \A s \in Small(k + 1) : g[s] = Val(f, s)
    <3> HIDE DEF Small, Val
    <3> QED  BY <2>1
  <2>8. \A s \in Small(k + 1) : Val(g, s) = Val(f, s)
    <3> HIDE DEF Small, g
    <3> QED  BY <2>2, <2>6
  <2>9. \A s \in Small(k + 1) : g[s] = Val(g, s)
    <3> HIDE DEF Small, g, Val
    <3> QED  BY <2>7, <2>8
  <2> HIDE DEF g, Val, Small
  <2> QED  BY <2>5, <2>9
<1>5. n \in T
  <2> HIDE DEF T
  <2> QED  BY <1>3, <1>4, UpTo
<1>6. Small(n) = D  BY <1>1
<1>7. PICK f \in [Small(n) -> V] : \A s \in Small(n) : f[s] = Val(f, s)
  <2> HIDE DEF Small, Val
  <2> QED  BY <1>5
<1> HIDE DEF Small
<1> QED  BY <1>6, <1>7 DEF FoldsBy

\* The first k elements are the first k - 1 and the k-th.
LEMMA FirstOnes ==
  ASSUME NEW n \in Nat, NEW k \in 1 .. n
  PROVE  /\ 1 .. k \in SUBSET (1 .. n) /\ 1 .. k # {}
         /\ Max(1 .. k) = k /\ (1 .. k) \ {k} = 1 .. k - 1
<1>1. 1 .. k \in SUBSET (1 .. n) /\ 1 .. k # {} /\ k \in 1 .. k  OBVIOUS
<1>2. Max(1 .. k) \in 1 .. k /\ \A y \in 1 .. k : Max(1 .. k) >= y  BY <1>1, MaxIn
<1>3. Max(1 .. k) = k  BY <1>1, <1>2
<1>4. (1 .. k) \ {k} = 1 .. k - 1  OBVIOUS
<1> QED  BY <1>1, <1>3, <1>4

\* The values a fold goes through, one after each element.
StepsBy(h, n, base, F) == h[0] = base /\ \A k \in 1 .. n : h[k] = F[<<k, h[k - 1]>>]

\* it folds by F as far as its values are known to be in V.
FoldsWithin(it, n, V, base, F) ==
  /\ it[{}] = base
  /\ \A s \in SUBSET (1 .. n) :
       s # {} /\ it[s \ {Max(s)}] \in V => it[s] = F[<<Max(s), it[s \ {Max(s)}]>>]

\* FoldFunctionOnSet over 1..n, one step after another: it has a trace.
LEMMA FoldSteps ==
  ASSUME NEW n \in Nat, NEW V, NEW base \in V, NEW F \in [(1 .. n) \X V -> V], NEW it,
         FoldsWithin(it, n, V, base, F)
  PROVE  \E h \in [0 .. n -> V] : h[n] = it[1 .. n] /\ StepsBy(h, n, base, F)
<1> DEFINE T == {k \in 0 .. n : it[1 .. k] \in V}
           h == [k \in 0 .. n |-> it[1 .. k]]
<1>1. it[1 .. 0] = base
  <2>1. 1 .. 0 = {}  OBVIOUS
  <2> QED  BY <2>1 DEF FoldsWithin
<1>2. \A k \in 1 .. n : it[1 .. k - 1] \in V => it[1 .. k] = F[<<k, it[1 .. k - 1]>>]
  <2> TAKE k \in 1 .. n
  <2> QED  BY FirstOnes DEF FoldsWithin
<1>3. \A k \in 0 .. n : it[1 .. k] \in V
  <2>1. 0 \in T  BY <1>1
  <2>2. ASSUME NEW k \in 0 .. n - 1, k \in T  PROVE k + 1 \in T
    <3>1. k + 1 \in 1 .. n /\ (k + 1) - 1 = k /\ it[1 .. k] \in V  BY <2>2
    <3>2. it[1 .. k + 1] = F[<<k + 1, it[1 .. k]>>]  BY <1>2, <3>1
    <3>3. <<k + 1, it[1 .. k]>> \in (1 .. n) \X V  BY <3>1
    <3> QED  BY <3>1, <3>2, <3>3
  <2>3. \A k \in 0 .. n : k \in T
    <3> HIDE DEF T
    <3> QED  BY <2>1, <2>2, UpTo
  <2> QED  BY <2>3
<1>4. h \in [0 .. n -> V] /\ h[n] = it[1 .. n] /\ h[0] = base  BY <1>1, <1>3
<1>5. \A k \in 1 .. n : h[k] = F[<<k, h[k - 1]>>]
  <2> TAKE k \in 1 .. n
  <2>1. k \in 0 .. n /\ k - 1 \in 0 .. n  OBVIOUS
  <2>2. h[k] = it[1 .. k] /\ h[k - 1] = it[1 .. k - 1]  BY <2>1
  <2> HIDE DEF h
  <2> QED  BY <1>2, <1>3, <2>1, <2>2
<1> HIDE DEF h
<1> QED  BY <1>4, <1>5 DEF StepsBy

-----------------------------------------------------------------------------
(* The playsim's state, and what starting a thinker changes in it.         *)

Dirs == {"up", "down", "waiting", "initial", "stasis"}

Types ==
  {"perpetualRaise", "downWaitUpStay", "raiseAndChange",
   "lowerToFloor", "raiseToHighest", "crushAndRaise",
   "normal", "open", "close", "close30ThenOpen", "raiseIn5Mins",
   "lowerFloor", "raiseFloor", "raiseFloorCrush", "step", "donutRaise"}

Body ==
  [kind : Kinds, type : Types, sec : Sectors \ {0}, dir : Dirs, old : Dirs,
   low : Int, high : Int, wait : Int, count : Int, crush : BOOLEAN]

\* The states when an id may also be j.
Loose(j) ==
  [floor : [Sectors -> Int], ceil : [Sectors -> Int],
   data : [Sectors -> Ids \cup {NoMover, j}], mover : [Ids -> Body \cup {Gone}],
   list : Seq(Ids \cup {j}), plats : SUBSET (Ids \cup {j}), ceilings : SUBSET (Ids \cup {j}),
   error : {"no", "full", "lost"}]

State ==
  [floor : [Sectors -> Int], ceil : [Sectors -> Int],
   data : [Sectors -> Ids \cup {NoMover}], mover : [Ids -> Body \cup {Gone}],
   list : Seq(Ids), plats : SUBSET Ids, ceilings : SUBSET Ids,
   error : {"no", "full", "lost"}]

\* What Fresh says when there is no thinker left.
None == Min({})

Alive(v) == {id \in Ids : v.mover[id] # Gone}

\* The ids are finite, and so is every set of them.
LEMMA IdsFinite ==
  /\ IsFiniteSet(Ids) /\ Cardinality(Ids) \in Nat /\ Ids = 1 .. Cardinality(Ids)
  /\ \A S \in SUBSET Ids : IsFiniteSet(S) /\ Cardinality(S) \in Nat
<1>1. IsFiniteSet(Ids) /\ Ids = 1 .. Cardinality(Ids)  BY MoversAssumption
<1>2. Cardinality(Ids) \in Nat  BY <1>1, FS_CardinalityType
<1>3. \A S \in SUBSET Ids : IsFiniteSet(S) /\ Cardinality(S) \in Nat
  BY <1>1, FS_Subset, FS_CardinalityType
<1> QED  BY <1>1, <1>2, <1>3

\* A body is not Gone.
LEMMA BodyIsThere == \A m \in Body : m # Gone /\ m.kind \in Kinds
<1> TAKE m \in Body
<1>1. m.kind \in Kinds  BY DEF Body
<1>2. Gone.kind = "gone"  BY DEF Gone
<1>3. "gone" \notin Kinds  BY DEF Kinds
<1> QED  BY <1>1, <1>2, <1>3

\* Fresh finds an id that no thinker has, as long as there is one.
LEMMA FreshIs ==
  ASSUME NEW v
  PROVE  IF Alive(v) = Ids THEN Fresh(v) = None ELSE Fresh(v) \in Ids \ Alive(v)
<1> DEFINE S == {id \in Ids : v.mover[id] = Gone}
<1>1. Fresh(v) = Min(S)  BY DEF Fresh
<1>2. CASE Alive(v) = Ids
  <2>1. S = {}  BY <1>2 DEF Alive
  <2> QED  BY <1>1, <1>2, <2>1 DEF None
<1>3. CASE Alive(v) # Ids
  <2>1. S # {}  BY <1>3 DEF Alive
  <2>2. S \in SUBSET (1 .. Cardinality(Ids)) /\ Cardinality(Ids) \in Nat  BY IdsFinite
  <2>3. Min(S) \in S
    <3> HIDE DEF S
    <3> QED  BY <2>1, <2>2, MinIn
  <2> QED  BY <1>1, <1>3, <2>3 DEF Alive
<1> QED  BY <1>2, <1>3

\* What Start leaves in each field, with room for a thinker or without.
LEMMA StartFields ==
  ASSUME NEW v \in Loose(None), NEW m \in Body
  PROVE  LET f == Fresh(v)
             r == Start(v, m)
         IN  /\ r \in Loose(None)
             /\ r.floor = v.floor /\ r.ceil = v.ceil
             /\ r.mover = [v.mover EXCEPT ![f] = m]
             /\ r.list = Append(v.list, f)
             /\ r.data = [v.data EXCEPT ![m.sec] = f]
             /\ r.plats = IF m.kind = "plat" /\ Cardinality(v.plats) < MAXPLATS
                          THEN v.plats \cup {f} ELSE v.plats
             /\ r.ceilings = IF m.kind = "ceiling" /\ Cardinality(v.ceilings) < MAXCEILINGS
                             THEN v.ceilings \cup {f} ELSE v.ceilings
             /\ r.error = IF m.kind = "plat" /\ ~ (Cardinality(v.plats) < MAXPLATS)
                          THEN "full" ELSE v.error
<1> DEFINE f == Fresh(v)
           u == Spawn(v, f, m)
           r == Start(v, m)
<1>1. f \in Ids \cup {None}  BY FreshIs
<1>2. v.floor \in [Sectors -> Int] /\ v.ceil \in [Sectors -> Int]
      /\ v.data \in [Sectors -> Ids \cup {NoMover, None}] /\ v.mover \in [Ids -> Body \cup {Gone}]
      /\ v.list \in Seq(Ids \cup {None}) /\ v.plats \in SUBSET (Ids \cup {None})
      /\ v.ceilings \in SUBSET (Ids \cup {None}) /\ v.error \in {"no", "full", "lost"}
  BY DEF Loose
<1>3. m.sec \in Sectors /\ m.kind \in Kinds  BY DEF Body
<1> HIDE DEF f
<1>4. u = [floor |-> v.floor, ceil |-> v.ceil, data |-> [v.data EXCEPT ![m.sec] = f],
           mover |-> [v.mover EXCEPT ![f] = m], list |-> Append(v.list, f),
           plats |-> v.plats, ceilings |-> v.ceilings, error |-> v.error]
  <2>1. v = [floor |-> v.floor, ceil |-> v.ceil, data |-> v.data, mover |-> v.mover,
             list |-> v.list, plats |-> v.plats, ceilings |-> v.ceilings, error |-> v.error]
    BY DEF Loose
  <2> DEFINE a == [v EXCEPT !.mover = [v.mover EXCEPT ![f] = m]]
             b == [a EXCEPT !.list = Append(a.list, f)]
             c == [b EXCEPT !.data = [b.data EXCEPT ![m.sec] = f]]
  <2>2. u = c  BY DEF Spawn, u
  <2>3. a = [floor |-> v.floor, ceil |-> v.ceil, data |-> v.data, mover |-> [v.mover EXCEPT ![f] = m],
             list |-> v.list, plats |-> v.plats, ceilings |-> v.ceilings, error |-> v.error]
    BY <2>1
  <2> HIDE DEF a
  <2>4. b = [floor |-> v.floor, ceil |-> v.ceil, data |-> v.data, mover |-> [v.mover EXCEPT ![f] = m],
             list |-> Append(v.list, f), plats |-> v.plats, ceilings |-> v.ceilings,
             error |-> v.error]
    BY <2>3
  <2> HIDE DEF b
  <2> QED  BY <2>2, <2>4
<1> HIDE DEF u
<1>5. r = IF m.kind = "plat" THEN P_AddActivePlat(u, f)
          ELSE IF m.kind = "ceiling" THEN P_AddActiveCeiling(u, f) ELSE u
  BY <1>3 DEF Start, f, u, Kinds
<1>6. r = [floor |-> v.floor, ceil |-> v.ceil, data |-> [v.data EXCEPT ![m.sec] = f],
           mover |-> [v.mover EXCEPT ![f] = m], list |-> Append(v.list, f),
           plats |-> IF m.kind = "plat" /\ Cardinality(v.plats) < MAXPLATS
                     THEN v.plats \cup {f} ELSE v.plats,
           ceilings |-> IF m.kind = "ceiling" /\ Cardinality(v.ceilings) < MAXCEILINGS
                        THEN v.ceilings \cup {f} ELSE v.ceilings,
           error |-> IF m.kind = "plat" /\ ~ (Cardinality(v.plats) < MAXPLATS)
                     THEN "full" ELSE v.error]
  <2>1. CASE m.kind = "plat"  BY <1>4, <1>5, <2>1 DEF P_AddActivePlat
  <2>2. CASE m.kind = "ceiling"  BY <1>4, <1>5, <2>2 DEF P_AddActiveCeiling
  <2>3. CASE m.kind \notin {"plat", "ceiling"}  BY <1>4, <1>5, <2>3
  <2> QED  BY <2>1, <2>2, <2>3
<1> HIDE DEF r
<1>7. r \in Loose(None)
  <2>1. [v.data EXCEPT ![m.sec] = f] \in [Sectors -> Ids \cup {NoMover, None}]  BY <1>1, <1>2
  <2>2. [v.mover EXCEPT ![f] = m] \in [Ids -> Body \cup {Gone}]  BY <1>2
  <2>3. Append(v.list, f) \in Seq(Ids \cup {None})  BY <1>1, <1>2, AppendProperties
  <2> QED  BY <1>1, <1>2, <1>6, <2>1, <2>2, <2>3 DEF Loose
<1> QED  BY <1>6, <1>7 DEF f, r

-----------------------------------------------------------------------------
(* The map.                                                                *)

Last0 == Cardinality(Sectors) - 1

\* What MoversAssumption says of the map that is played.
LEMMA LevelIs ==
  ASSUME level \in Levels
  PROVE  /\ Last0 \in Ids /\ Last0 \in Nat /\ Last0 >= 1 /\ Last0 <= Cardinality(Ids)
         /\ Sectors = 0 .. Last0 /\ Sectors \ {0} = 1 .. Last0
         /\ level.floor \in [Sectors -> Int] /\ level.ceil \in [Sectors -> Int]
         /\ level.tagged \in Seq(1 .. Last0) /\ level.stairs \in Seq(1 .. Last0)
         /\ TaggedSectors \subseteq 1 .. Last0
         /\ \A i \in DOMAIN level.tagged : level.tagged[i] \in TaggedSectors
         /\ \A l \in level.lines : /\ l.op \in DOMAIN LineTypes /\ l.type \in LineTypes[l.op]
                                   /\ l.op = "own" => l.face[1] \in 1 .. Last0
         /\ \A own, k \in level.lines :
              own.op = "own" /\ k.op = "ceiling" => own.face[1] \notin TaggedSectors
         /\ IsInjective(level.stairs) /\ ToSet(level.stairs) \cap TaggedSectors = {}
         /\ (\E l \in level.lines : l.op = "donut") =>
              Len(level.tagged) = 1 /\ level.ring \in 1 .. Last0 /\ level.ring # level.tagged[1]
<1>1. PICK n \in Ids :
        /\ level.floor \in [0 .. n -> Int] /\ level.ceil \in [0 .. n -> Int]
        /\ level.tagged \in Seq(1 .. n) /\ level.stairs \in Seq(1 .. n)
        /\ \A l \in level.lines : /\ l.op \in DOMAIN LineTypes /\ l.type \in LineTypes[l.op]
                                  /\ l.op = "own" => l.face[1] \in 1 .. n
        /\ \A own, k \in level.lines :
             own.op = "own" /\ k.op = "ceiling" => own.face[1] \notin ToSet(level.tagged)
        /\ IsInjective(level.stairs) /\ ToSet(level.stairs) \cap ToSet(level.tagged) = {}
        /\ (\E l \in level.lines : l.op = "donut") =>
             Len(level.tagged) = 1 /\ level.ring \in 1 .. n /\ level.ring # level.tagged[1]
  BY MoversAssumption
<1>2. Ids = 1 .. Cardinality(Ids) /\ Cardinality(Ids) \in Nat  BY IdsFinite
<1>3. n \in Nat /\ n >= 1 /\ n <= Cardinality(Ids)  BY <1>2
<1>4. Sectors = 0 .. n  BY <1>1 DEF Sectors
<1>5. Cardinality(0 .. n) = n + 1
  <2>1. 0 \in Int /\ n \in Int /\ ~ (0 > n)  BY <1>3
  <2>2. Cardinality(0 .. n) = n - 0 + 1  BY <2>1, FS_Interval
  <2> QED  BY <1>3, <2>2
<1>6. Last0 = n  BY <1>3, <1>4, <1>5 DEF Last0
<1>7. TaggedSectors \subseteq 1 .. n /\ \A i \in DOMAIN level.tagged : level.tagged[i] \in TaggedSectors
  <2>1. \A i \in DOMAIN level.tagged : level.tagged[i] \in 1 .. n
    <3>1. level.tagged \in Seq(1 .. n)  BY <1>1
    <3> QED  BY <3>1, ElementOfSeq, LenProperties
  <2>2. TaggedSectors = {level.tagged[i] : i \in DOMAIN level.tagged}
    BY DEF TaggedSectors, ToSet
  <2> QED  BY <2>1, <2>2, Zenon
<1>8. Sectors \ {0} = 1 .. n  BY <1>3, <1>4
<1> QED  BY <1>1, <1>3, <1>4, <1>6, <1>7, <1>8 DEF TaggedSectors

\* The values a StartEach goes through.
EachTrace(h, v, ms) ==
  /\ h \in [0 .. Len(ms) -> Loose(None)] /\ h[0] = v /\ h[Len(ms)] = StartEach(v, ms)
  /\ \A k \in 1 .. Len(ms) : h[k] = IF ms[k] = Gone THEN h[k - 1] ELSE Start(h[k - 1], ms[k])

\* StartEach, one mover after another.
LEMMA EachTraced ==
  ASSUME NEW v \in Loose(None), NEW ms \in Seq(Body \cup {Gone})
  PROVE  \E h : EachTrace(h, v, ms)
<1> DEFINE n == Len(ms)
           V == Loose(None)
           Op(u, m) == IF m = Gone THEN u ELSE Start(u, m)
           F == [p \in (1 .. n) \X V |-> Op(p[2], ms[p[1]])]
           it[s \in SUBSET (DOMAIN ms)] ==
             IF s = {} THEN v ELSE LET x == Max(s) IN Op(it[s \ {x}], ms[x])
<1>1. n \in Nat /\ DOMAIN ms = 1 .. n /\ \A k \in 1 .. n : ms[k] \in Body \cup {Gone}
  BY LenProperties
<1>2. \A k \in 1 .. n, u \in V : Op(u, ms[k]) \in V
  <2> TAKE k \in 1 .. n, u \in V
  <2>1. CASE ms[k] = Gone  BY <2>1
  <2>2. CASE ms[k] \in Body  BY <2>2, StartFields, BodyIsThere
  <2> QED  BY <1>1, <2>1, <2>2
<1>3. StartEach(v, ms) = it[DOMAIN ms]
  BY DEF StartEach, FoldLeft, MapThenFoldSet
<1>4. F \in [(1 .. n) \X V -> V]
  <2> HIDE DEF Op, n, V
  <2> QED  BY <1>2
<1>5. \A k \in 1 .. n, u \in V : F[<<k, u>>] = Op(u, ms[k])
  <2> HIDE DEF Op, n, V
  <2> QED  OBVIOUS
<1> HIDE DEF F
<1>6. PICK f \in [SUBSET (1 .. n) -> V] :
        \A s \in SUBSET (1 .. n) : f[s] = IF s = {} THEN v ELSE F[<<Max(s), f[s \ {Max(s)}]>>]
  <2>1. \E f \in [SUBSET (1 .. n) -> V] : FoldsBy(f, n, v, F)
    <3>1. v \in V /\ n \in Nat  BY <1>1 DEF V
    <3> HIDE DEF V, n, Op
    <3> QED  BY <1>4, <3>1, FoldExists
  <2> QED  BY <2>1 DEF FoldsBy
<1> DEFINE Val(g, s) == IF s = {} THEN v ELSE LET x == Max(s) IN Op(g[s \ {x}], ms[x])
           P(g) == g = [s \in SUBSET (DOMAIN ms) |-> Val(g, s)]
<1>7. \A s \in SUBSET (1 .. n) : s # {} => Max(s) \in 1 .. n /\ s \ {Max(s)} \in SUBSET (1 .. n)
  BY <1>1, MaxIn
<1>8. P(f)
  <2>1. \A s \in SUBSET (1 .. n) : f[s] = Val(f, s)
    <3> TAKE s \in SUBSET (1 .. n)
    <3>1. CASE s = {}  BY <1>6, <3>1
    <3>2. CASE s # {}
      <4>1. Max(s) \in 1 .. n /\ f[s \ {Max(s)}] \in V  BY <1>6, <1>7, <3>2
      <4> HIDE DEF Op, V, n
      <4> QED  BY <1>5, <1>6, <3>2, <4>1
    <3> QED  BY <3>1, <3>2
  <2> HIDE DEF Val, V, n
  <2> QED  BY <1>1, <1>6, <2>1
<1>9. P(CHOOSE g : P(g))
  <2> HIDE DEF P
  <2> QED  BY <1>8, Zenon
<1>10. P(it)  BY <1>9, Zenon
<1>11. \A s \in SUBSET (1 .. n) : it[s] = Val(it, s)
  <2> HIDE DEF it, Val, n
  <2> QED  BY <1>1, <1>10
<1> HIDE DEF it
<1>12. it[{}] = v
  <2>1. {} \in SUBSET (1 .. n)  OBVIOUS
  <2> QED  BY <1>11, <2>1
<1>13. \A s \in SUBSET (1 .. n) :
         s # {} /\ it[s \ {Max(s)}] \in V => it[s] = F[<<Max(s), it[s \ {Max(s)}]>>]
  <2> HIDE DEF Op, n, V
  <2> QED  BY <1>5, <1>7, <1>11
<1>14. PICK h \in [0 .. n -> V] : h[n] = it[1 .. n] /\ StepsBy(h, n, v, F)
  <2>1. v \in V /\ n \in Nat  BY <1>1 DEF V
  <2> HIDE DEF V, n, Op
  <2>2. FoldsWithin(it, n, V, v, F)  BY <1>12, <1>13 DEF FoldsWithin
  <2> QED  BY <1>4, <2>1, <2>2, FoldSteps
<1>15. \A k \in 1 .. n : h[k] = Op(h[k - 1], ms[k])
  <2> TAKE k \in 1 .. n
  <2>1. h[k - 1] \in V  BY <1>1, <1>14
  <2> HIDE DEF Op, n, V
  <2> QED  BY <1>5, <1>14, <2>1 DEF StepsBy
<1> QED  BY <1>1, <1>3, <1>14, <1>15 DEF EachTrace, StepsBy

\* The values a StartTagged goes through.
TaggedTrace(h, v, made) ==
  /\ h \in [0 .. Len(level.tagged) -> Loose(None)] /\ h[0] = v /\ h[Len(level.tagged)] = StartTagged(v, made)
  /\ \A k \in 1 .. Len(level.tagged) : h[k] = LET s == level.tagged[k]
                                            IN  IF h[k - 1].error = "no" /\ h[k - 1].data[s] = NoMover
                                                THEN Start(h[k - 1], made[s]) ELSE h[k - 1]

\* StartTagged, one tagged sector after another.
LEMMA TaggedTraced ==
  ASSUME NEW v \in Loose(None), NEW made,
         level \in Levels, \A s \in TaggedSectors : made[s] \in Body
  PROVE  \E h : TaggedTrace(h, v, made)
<1> DEFINE n == Len(level.tagged)
           V == Loose(None)
           Op(u, s) == IF u.error = "no" /\ u.data[s] = NoMover THEN Start(u, made[s]) ELSE u
           F == [p \in (1 .. n) \X V |-> Op(p[2], level.tagged[p[1]])]
           it[s \in SUBSET (DOMAIN level.tagged)] ==
             IF s = {} THEN v ELSE LET x == Max(s) IN Op(it[s \ {x}], level.tagged[x])
<1>1. n \in Nat /\ DOMAIN level.tagged = 1 .. n /\ \A k \in 1 .. n : level.tagged[k] \in TaggedSectors
  BY LevelIs, LenProperties
<1>2. \A k \in 1 .. n, u \in V : Op(u, level.tagged[k]) \in V
  <2> TAKE k \in 1 .. n, u \in V
  <2>1. made[level.tagged[k]] \in Body  BY <1>1
  <2> QED  BY <2>1, StartFields
<1>3. StartTagged(v, made) = it[DOMAIN level.tagged]
  BY DEF StartTagged, FoldLeft, MapThenFoldSet
<1>4. F \in [(1 .. n) \X V -> V]
  <2> HIDE DEF Op, n, V
  <2> QED  BY <1>2
<1>5. \A k \in 1 .. n, u \in V : F[<<k, u>>] = Op(u, level.tagged[k])
  <2> HIDE DEF Op, n, V
  <2> QED  OBVIOUS
<1> HIDE DEF F
<1>6. PICK f \in [SUBSET (1 .. n) -> V] :
        \A s \in SUBSET (1 .. n) : f[s] = IF s = {} THEN v ELSE F[<<Max(s), f[s \ {Max(s)}]>>]
  <2>1. \E f \in [SUBSET (1 .. n) -> V] : FoldsBy(f, n, v, F)
    <3>1. v \in V /\ n \in Nat  BY <1>1 DEF V
    <3> HIDE DEF V, n, Op
    <3> QED  BY <1>4, <3>1, FoldExists
  <2> QED  BY <2>1 DEF FoldsBy
<1> DEFINE Val(g, s) == IF s = {} THEN v ELSE LET x == Max(s) IN Op(g[s \ {x}], level.tagged[x])
           P(g) == g = [s \in SUBSET (DOMAIN level.tagged) |-> Val(g, s)]
<1>7. \A s \in SUBSET (1 .. n) : s # {} => Max(s) \in 1 .. n /\ s \ {Max(s)} \in SUBSET (1 .. n)
  BY <1>1, MaxIn
<1>8. P(f)
  <2>1. \A s \in SUBSET (1 .. n) : f[s] = Val(f, s)
    <3> TAKE s \in SUBSET (1 .. n)
    <3>1. CASE s = {}  BY <1>6, <3>1
    <3>2. CASE s # {}
      <4>1. Max(s) \in 1 .. n /\ f[s \ {Max(s)}] \in V  BY <1>6, <1>7, <3>2
      <4> HIDE DEF Op, V, n
      <4> QED  BY <1>5, <1>6, <3>2, <4>1
    <3> QED  BY <3>1, <3>2
  <2> HIDE DEF Val, V, n
  <2> QED  BY <1>1, <1>6, <2>1
<1>9. P(CHOOSE g : P(g))
  <2> HIDE DEF P
  <2> QED  BY <1>8, Zenon
<1>10. P(it)  BY <1>9, Zenon
<1>11. \A s \in SUBSET (1 .. n) : it[s] = Val(it, s)
  <2> HIDE DEF it, Val, n
  <2> QED  BY <1>1, <1>10
<1> HIDE DEF it
<1>12. it[{}] = v
  <2>1. {} \in SUBSET (1 .. n)  OBVIOUS
  <2> QED  BY <1>11, <2>1
<1>13. \A s \in SUBSET (1 .. n) :
         s # {} /\ it[s \ {Max(s)}] \in V => it[s] = F[<<Max(s), it[s \ {Max(s)}]>>]
  <2> HIDE DEF Op, n, V
  <2> QED  BY <1>5, <1>7, <1>11
<1>14. PICK h \in [0 .. n -> V] : h[n] = it[1 .. n] /\ StepsBy(h, n, v, F)
  <2>1. v \in V /\ n \in Nat  BY <1>1 DEF V
  <2> HIDE DEF V, n, Op
  <2>2. FoldsWithin(it, n, V, v, F)  BY <1>12, <1>13 DEF FoldsWithin
  <2> QED  BY <1>4, <2>1, <2>2, FoldSteps
<1>15. \A k \in 1 .. n : h[k] = Op(h[k - 1], level.tagged[k])
  <2> TAKE k \in 1 .. n
  <2>1. h[k - 1] \in V  BY <1>1, <1>14
  <2> HIDE DEF Op, n, V
  <2> QED  BY <1>5, <1>14, <2>1 DEF StepsBy
<1> QED  BY <1>1, <1>3, <1>14, <1>15 DEF TaggedTrace, StepsBy
-----------------------------------------------------------------------------
(* What holds between the handlers.                                        *)

Listed(v) ==
  /\ \A i \in 1 .. Len(v.list) : v.list[i] \in Alive(v)
  /\ \A id \in Alive(v) : \E i \in 1 .. Len(v.list) : v.list[i] = id
  /\ \A i, j \in 1 .. Len(v.list) : v.list[i] = v.list[j] => i = j
  /\ Len(v.list) = Cardinality(Alive(v))

Points(v) ==
  \A s \in Sectors : v.data[s] # NoMover =>
    v.data[s] \in Alive(v) /\ v.mover[v.data[s]].sec = s

Owned(v) ==
  \A id \in Alive(v) : v.mover[id].sec \notin Overwritten => v.data[v.mover[id].sec] = id

PlatsTrue(v) ==
  v.error = "no" => \A id \in Ids : id \in v.plats <=> id \in Alive(v) /\ v.mover[id].kind = "plat"

\* Ceilings stand in tagged sectors alone, one in each: this bounds their number.
CeilingsTrue(v) ==
  /\ \A id \in v.ceilings : id \in Alive(v) /\ v.mover[id].kind = "ceiling"
  /\ ~ Crowded => \A id \in Alive(v) : v.mover[id].kind = "ceiling" => id \in v.ceilings
  /\ \A id \in Alive(v) : v.mover[id].kind = "ceiling" =>
       v.mover[id].sec \in TaggedSectors \ Overwritten

Wakes(v) ==
  \A id \in Alive(v) : v.mover[id].dir = "stasis" =>
    /\ id \in v.plats \/ id \in v.ceilings \/ (Crowded /\ v.mover[id].kind = "ceiling")
    /\ v.mover[id].old # "stasis"

Good(v) ==
  /\ v \in State
  /\ Listed(v) /\ Points(v) /\ Owned(v)
  /\ PlatsTrue(v) /\ CeilingsTrue(v) /\ Wakes(v) /\ v.error # "lost"

\* A mover that may be started.
MayStart(v, m) ==
  /\ m \in Body
  /\ m.sec \in Overwritten \/ v.data[m.sec] = NoMover
  /\ m.dir = "stasis" => m.kind = "ceiling" /\ m.old # "stasis"
  /\ m.kind = "ceiling" => m.sec \in TaggedSectors \ Overwritten

\* The thinkers that exist are finitely many.
LEMMA AliveFinite ==
  ASSUME NEW v
  PROVE  Alive(v) \in SUBSET Ids /\ IsFiniteSet(Alive(v)) /\ Cardinality(Alive(v)) \in Nat
<1>1. Alive(v) \in SUBSET Ids  BY DEF Alive
<1> QED  BY <1>1, IdsFinite

\* A state is a loose one.
LEMMA StateIsLoose == State \subseteq Loose(None)
<1> SUFFICES ASSUME NEW v \in State  PROVE v \in Loose(None)  OBVIOUS
<1>1. v.list \in Seq(Ids \cup {None})
  <2>1. v.list \in Seq(Ids)  BY DEF State
  <2> QED  BY <2>1, SeqMonotonic
<1>2. v.data \in [Sectors -> Ids \cup {NoMover, None}]
  <2>1. v.data \in [Sectors -> Ids \cup {NoMover}]  BY DEF State
  <2> QED  BY <2>1
<1>3. v.plats \in SUBSET (Ids \cup {None}) /\ v.ceilings \in SUBSET (Ids \cup {None})  BY DEF State
<1> QED  BY <1>1, <1>2, <1>3 DEF State, Loose

\* Where every ceiling has a slot, there is one for the next.
LEMMA CeilingFits ==
  ASSUME level \in Levels, NEW v, Good(v), ~ Crowded,
         NEW s \in TaggedSectors \ Overwritten, v.data[s] = NoMover
  PROVE  Cardinality(v.ceilings) < MAXCEILINGS
<1> DEFINE R == TaggedSectors \ {s}
           f == [id \in v.ceilings |-> v.mover[id].sec]
<1>1. IsFiniteSet(TaggedSectors) /\ Cardinality(TaggedSectors) \in Nat
  <2>1. IsFiniteSet(1 .. Last0)  BY LevelIs, FS_Interval
  <2>2. TaggedSectors \in SUBSET (1 .. Last0)  BY LevelIs
  <2>3. IsFiniteSet(TaggedSectors)  BY <2>1, <2>2, FS_Subset
  <2> QED  BY <2>3, FS_CardinalityType
<1>2. IsFiniteSet(R) /\ Cardinality(R) = Cardinality(TaggedSectors) - 1  BY <1>1, FS_RemoveElement
<1>3. Cardinality(TaggedSectors) <= MAXCEILINGS /\ MAXCEILINGS \in Nat
  BY <1>1, MoversAssumption DEF Crowded
<1>4. \A id \in v.ceilings : v.mover[id].sec \in R /\ v.data[v.mover[id].sec] = id
  <2> TAKE id \in v.ceilings
  <2>1. id \in Alive(v) /\ v.mover[id].sec \in TaggedSectors \ Overwritten
    BY DEF Good, CeilingsTrue
  <2>2. v.data[v.mover[id].sec] = id  BY <2>1 DEF Good, Owned
  <2>3. id # NoMover  BY <2>1, IdsFinite DEF Alive, NoMover
  <2> QED  BY <2>1, <2>2, <2>3
<1>5. f \in Injection(v.ceilings, R)
  <2>1. f \in [v.ceilings -> R]  BY <1>4
  <2>2. \A a, b \in v.ceilings : f[a] = f[b] => a = b  BY <1>4
  <2> HIDE DEF f
  <2> QED  BY <2>1, <2>2 DEF Injection, IsInjective
<1>6. IsFiniteSet(v.ceilings) /\ Cardinality(v.ceilings) <= Cardinality(R)
  <2> HIDE DEF f, R
  <2> QED  BY <1>2, <1>5, FS_Injection
<1>7. Cardinality(v.ceilings) \in Nat  BY <1>6, FS_CardinalityType
<1> QED  BY <1>1, <1>2, <1>3, <1>6, <1>7
\* Starting a mover where none is keeps all of it.
LEMMA StartGood ==
  ASSUME level \in Levels, NEW v, Good(v), Alive(v) # Ids, NEW m, MayStart(v, m)
  PROVE  LET f == Fresh(v)
             r == Start(v, m)
         IN  /\ Good(r)
             /\ f \in Ids \ Alive(v) /\ Alive(r) = Alive(v) \cup {f}
             /\ r.mover = [v.mover EXCEPT ![f] = m] /\ r.data = [v.data EXCEPT ![m.sec] = f]
             /\ r.floor = v.floor /\ r.ceil = v.ceil
<1> DEFINE f == Fresh(v)
           r == Start(v, m)
<1>1. v \in State /\ v \in Loose(None) /\ m \in Body  BY StateIsLoose DEF Good, MayStart
<1>2. f \in Ids \ Alive(v) /\ f # NoMover
  BY FreshIs, IdsFinite DEF NoMover
<1>3. /\ r \in Loose(None)
      /\ r.floor = v.floor /\ r.ceil = v.ceil
      /\ r.mover = [v.mover EXCEPT ![f] = m]
      /\ r.list = Append(v.list, f)
      /\ r.data = [v.data EXCEPT ![m.sec] = f]
      /\ r.plats = IF m.kind = "plat" /\ Cardinality(v.plats) < MAXPLATS
                   THEN v.plats \cup {f} ELSE v.plats
      /\ r.ceilings = IF m.kind = "ceiling" /\ Cardinality(v.ceilings) < MAXCEILINGS
                      THEN v.ceilings \cup {f} ELSE v.ceilings
      /\ r.error = IF m.kind = "plat" /\ ~ (Cardinality(v.plats) < MAXPLATS)
                   THEN "full" ELSE v.error
  BY <1>1, StartFields
<1>4. /\ v.floor \in [Sectors -> Int] /\ v.ceil \in [Sectors -> Int]
      /\ v.data \in [Sectors -> Ids \cup {NoMover}] /\ v.mover \in [Ids -> Body \cup {Gone}]
      /\ v.list \in Seq(Ids) /\ v.plats \in SUBSET Ids /\ v.ceilings \in SUBSET Ids
      /\ v.error \in {"no", "full", "lost"} /\ m.sec \in Sectors /\ m.kind \in Kinds /\ m # Gone
  BY <1>1, BodyIsThere DEF State, Body
<1> HIDE DEF f, r
<1>5. \A id \in Ids : r.mover[id] = IF id = f THEN m ELSE v.mover[id]  BY <1>2, <1>3, <1>4
<1>6. \A s \in Sectors : r.data[s] = IF s = m.sec THEN f ELSE v.data[s]  BY <1>3, <1>4
<1>7. Alive(r) = Alive(v) \cup {f}  BY <1>2, <1>4, <1>5 DEF Alive
<1>8. r \in State
  <2>1. r = [floor |-> r.floor, ceil |-> r.ceil, data |-> r.data, mover |-> r.mover,
             list |-> r.list, plats |-> r.plats, ceilings |-> r.ceilings, error |-> r.error]
    BY <1>3 DEF Loose
  <2>2. r.mover \in [Ids -> Body \cup {Gone}]  BY <1>1, <1>3, <1>4
  <2>3. r.data \in [Sectors -> Ids \cup {NoMover}]  BY <1>2, <1>3, <1>4
  <2>4. r.list \in Seq(Ids)  BY <1>2, <1>3, <1>4, AppendProperties
  <2>5. r.plats \in SUBSET Ids /\ r.ceilings \in SUBSET Ids  BY <1>2, <1>3, <1>4
  <2>6. r.error \in {"no", "full", "lost"}  BY <1>3, <1>4
  <2> QED  BY <1>3, <1>4, <2>1, <2>2, <2>3, <2>4, <2>5, <2>6 DEF State
<1>9. Listed(r)
  <2>1. Listed(v)  BY DEF Good
  <2>2. Len(r.list) = Len(v.list) + 1 /\ Len(v.list) \in Nat /\ r.list[Len(v.list) + 1] = f
        /\ \A i \in 1 .. Len(v.list) : r.list[i] = v.list[i]
    BY <1>2, <1>3, <1>4, AppendProperties, LenProperties
  <2>3. Cardinality(Alive(r)) = Cardinality(Alive(v)) + 1
    BY <1>2, <1>7, AliveFinite, FS_AddElement
  <2>4. \A i \in 1 .. Len(r.list) : r.list[i] \in Alive(r)
    BY <1>7, <2>1, <2>2 DEF Listed
  <2>5. \A id \in Alive(r) : \E i \in 1 .. Len(r.list) : r.list[i] = id
    <3> TAKE id \in Alive(r)
    <3>1. CASE id = f
      <4>1. Len(v.list) + 1 \in 1 .. Len(r.list)  BY <2>2
      <4> QED  BY <2>2, <3>1, <4>1
    <3>2. CASE id \in Alive(v)
      <4>1. PICK i \in 1 .. Len(v.list) : v.list[i] = id  BY <2>1, <3>2 DEF Listed
      <4>2. i \in 1 .. Len(r.list)  BY <2>2
      <4> QED  BY <2>2, <4>1, <4>2
    <3> QED  BY <1>7, <3>1, <3>2
  <2>6. \A i, j \in 1 .. Len(r.list) : r.list[i] = r.list[j] => i = j
    <3> TAKE i, j \in 1 .. Len(r.list)
    <3> HAVE r.list[i] = r.list[j]
    <3>1. i \in 1 .. Len(v.list) \/ i = Len(v.list) + 1  BY <2>2
    <3>2. j \in 1 .. Len(v.list) \/ j = Len(v.list) + 1  BY <2>2
    <3>3. \A k \in 1 .. Len(v.list) : r.list[k] # f  BY <1>2, <2>1, <2>2 DEF Listed
    <3>4. CASE i \in 1 .. Len(v.list) /\ j \in 1 .. Len(v.list)
      BY <2>1, <2>2, <3>4 DEF Listed
    <3> QED  BY <2>2, <3>1, <3>2, <3>3, <3>4
  <2>7. Len(r.list) = Cardinality(Alive(r))  BY <2>1, <2>2, <2>3 DEF Listed
  <2> QED  BY <2>4, <2>5, <2>6, <2>7 DEF Listed
<1>10. Points(r)
  <2> SUFFICES ASSUME NEW s \in Sectors, r.data[s] # NoMover
               PROVE  r.data[s] \in Alive(r) /\ r.mover[r.data[s]].sec = s
    BY DEF Points
  <2>1. CASE s = m.sec  BY <1>2, <1>5, <1>6, <1>7, <2>1
  <2>2. CASE s # m.sec
    <3>1. v.data[s] \in Alive(v) /\ v.mover[v.data[s]].sec = s
      BY <1>6, <2>2 DEF Good, Points
    <3> QED  BY <1>2, <1>5, <1>6, <1>7, <2>2, <3>1 DEF Alive
  <2> QED  BY <2>1, <2>2
<1>11. Owned(r)
  <2> SUFFICES ASSUME NEW id \in Alive(r), r.mover[id].sec \notin Overwritten
               PROVE  r.data[r.mover[id].sec] = id
    BY DEF Owned
  <2>1. CASE id = f  BY <1>2, <1>4, <1>5, <1>6, <2>1
  <2>2. CASE id # f
    <3>1. id \in Alive(v) /\ id \in Ids /\ r.mover[id] = v.mover[id]
      BY <1>5, <1>7, <2>2 DEF Alive
    <3>2. v.data[v.mover[id].sec] = id /\ v.mover[id].sec \in Sectors
      <4>1. v.data[v.mover[id].sec] = id  BY <3>1 DEF Good, Owned
      <4>2. v.mover[id] \in Body  BY <1>4, <3>1 DEF Alive
      <4> QED  BY <4>1, <4>2 DEF Body
    <3>3. id # NoMover  BY <3>1, IdsFinite DEF NoMover
    <3>4. v.mover[id].sec # m.sec  BY <3>1, <3>2, <3>3 DEF MayStart
    <3> QED  BY <1>6, <3>1, <3>2, <3>4
  <2> QED  BY <2>1, <2>2
<1>12. PlatsTrue(r)
  <2> SUFFICES ASSUME r.error = "no", NEW id \in Ids
               PROVE  id \in r.plats <=> id \in Alive(r) /\ r.mover[id].kind = "plat"
    BY DEF PlatsTrue
  <2>1. v.error = "no" /\ (m.kind = "plat" => Cardinality(v.plats) < MAXPLATS)  BY <1>3
  <2>2. \A k \in Ids : k \in v.plats <=> k \in Alive(v) /\ v.mover[k].kind = "plat"
    BY <2>1 DEF Good, PlatsTrue
  <2>3. r.plats = IF m.kind = "plat" THEN v.plats \cup {f} ELSE v.plats  BY <1>3, <2>1
  <2> QED  BY <1>2, <1>5, <1>7, <2>2, <2>3
<1>13. CeilingsTrue(r)
  <2>1. CeilingsTrue(v)  BY DEF Good
  <2>2. \A id \in r.ceilings : id \in Alive(r) /\ r.mover[id].kind = "ceiling"
    <3> TAKE id \in r.ceilings
    <3>1. CASE id = f
      <4>1. f \notin v.ceilings  BY <1>2, <2>1 DEF CeilingsTrue
      <4>2. m.kind = "ceiling"  BY <1>3, <3>1, <4>1
      <4> QED  BY <1>2, <1>5, <1>7, <3>1, <4>2
    <3>2. CASE id # f
      <4>1. id \in v.ceilings  BY <1>3, <3>2
      <4>2. id \in Alive(v) /\ v.mover[id].kind = "ceiling"  BY <2>1, <4>1 DEF CeilingsTrue
      <4> QED  BY <1>4, <1>5, <1>7, <3>2, <4>1, <4>2
    <3> QED  BY <3>1, <3>2
  <2>3. ASSUME ~ Crowded, NEW id \in Alive(r), r.mover[id].kind = "ceiling"
        PROVE  id \in r.ceilings
    <3>1. CASE id = f
      <4>1. m.kind = "ceiling"  BY <1>2, <1>5, <2>3, <3>1
      <4>2. m.sec \in TaggedSectors \ Overwritten /\ v.data[m.sec] = NoMover
        BY <4>1 DEF MayStart
      <4>3. Cardinality(v.ceilings) < MAXCEILINGS  BY <2>3, <4>2, CeilingFits
      <4> QED  BY <1>3, <3>1, <4>1, <4>3
    <3>2. CASE id # f
      <4>1. id \in Alive(v) /\ v.mover[id].kind = "ceiling"
        BY <1>5, <1>7, <2>3, <3>2 DEF Alive
      <4>2. id \in v.ceilings  BY <2>1, <2>3, <4>1 DEF CeilingsTrue
      <4> QED  BY <1>3, <4>2
    <3> QED  BY <3>1, <3>2
  <2>4. \A id \in Alive(r) : r.mover[id].kind = "ceiling" =>
          r.mover[id].sec \in TaggedSectors \ Overwritten
    <3> TAKE id \in Alive(r)
    <3>1. CASE id = f  BY <1>2, <1>5, <3>1 DEF MayStart
    <3>2. CASE id # f
      <4>1. id \in Alive(v) /\ r.mover[id] = v.mover[id]  BY <1>5, <1>7, <3>2 DEF Alive
      <4> QED  BY <2>1, <4>1 DEF CeilingsTrue
    <3> QED  BY <3>1, <3>2
  <2> QED  BY <2>2, <2>3, <2>4 DEF CeilingsTrue
<1>14. Wakes(r)
  <2> SUFFICES ASSUME NEW id \in Alive(r), r.mover[id].dir = "stasis"
               PROVE  /\ id \in r.plats \/ id \in r.ceilings \/ (Crowded /\ r.mover[id].kind = "ceiling")
                      /\ r.mover[id].old # "stasis"
    BY DEF Wakes
  <2>1. CASE id = f
    <3>1. r.mover[id] = m  BY <1>2, <1>5, <2>1
    <3>2. m.kind = "ceiling" /\ m.old # "stasis"  BY <3>1 DEF MayStart
    <3> QED  BY <1>13, <3>1, <3>2 DEF CeilingsTrue
  <2>2. CASE id # f
    <3>1. id \in Alive(v) /\ r.mover[id] = v.mover[id]  BY <1>5, <1>7, <2>2 DEF Alive
    <3>2. /\ id \in v.plats \/ id \in v.ceilings \/ (Crowded /\ v.mover[id].kind = "ceiling")
          /\ v.mover[id].old # "stasis"
      BY <3>1 DEF Good, Wakes
    <3>3. v.plats \subseteq r.plats /\ v.ceilings \subseteq r.ceilings  BY <1>3
    <3> QED  BY <3>1, <3>2, <3>3
  <2> QED  BY <2>1, <2>2
<1>15. r.error # "lost"  BY <1>3 DEF Good
<1>16. Good(r)  BY <1>8, <1>9, <1>10, <1>11, <1>12, <1>13, <1>14, <1>15 DEF Good
<1> QED  BY <1>2, <1>3, <1>7, <1>16 DEF f, r
-----------------------------------------------------------------------------
(* Room for every sector that has no mover.                                *)

Free(v) == {s \in 1 .. Last0 : v.data[s] = NoMover}

Roomy(v) == Cardinality(Alive(v)) + Cardinality(Free(v)) <= Cardinality(Ids)

\* At most every sector is free.
LEMMA FreeFinite ==
  ASSUME level \in Levels, NEW v
  PROVE  /\ IsFiniteSet(Free(v)) /\ Cardinality(Free(v)) \in Nat
         /\ Cardinality(Free(v)) <= Last0
<1>1. Last0 \in Nat /\ IsFiniteSet(1 .. Last0) /\ Cardinality(1 .. Last0) = Last0
  <2>1. 1 \in Int /\ Last0 \in Int /\ ~ (1 > Last0) /\ Last0 \in Nat  BY LevelIs
  <2>2. IsFiniteSet(1 .. Last0) /\ Cardinality(1 .. Last0) = Last0 - 1 + 1  BY <2>1, FS_Interval
  <2> QED  BY <2>1, <2>2
<1>2. Free(v) \in SUBSET (1 .. Last0)  BY DEF Free
<1>3. IsFiniteSet(Free(v)) /\ Cardinality(Free(v)) <= Cardinality(1 .. Last0)
  BY <1>1, <1>2, FS_Subset, Zenon
<1> QED  BY <1>1, <1>3, FS_CardinalityType

\* A mover for a sector that has none leaves room for the others.
LEMMA StartFree ==
  ASSUME level \in Levels, NEW v, Good(v), Roomy(v),
         NEW m, MayStart(v, m), v.data[m.sec] = NoMover
  PROVE  LET r == Start(v, m)
         IN  /\ Good(r) /\ Roomy(r)
             /\ r.floor = v.floor /\ r.ceil = v.ceil
             /\ \A s \in Sectors : s # m.sec => r.data[s] = v.data[s]
             /\ r.data[m.sec] # NoMover
<1> DEFINE r == Start(v, m)
           f == Fresh(v)
<1>1. m.sec \in 1 .. Last0 /\ m.sec \in Sectors  BY LevelIs DEF MayStart, Body
<1>2. m.sec \in Free(v)  BY <1>1 DEF Free
<1>3. IsFiniteSet(Free(v)) /\ Cardinality(Free(v)) \in Nat /\ Cardinality(Free(v)) # 0
  BY <1>2, FreeFinite, FS_EmptySet
<1>4. Cardinality(Alive(v)) \in Nat /\ Cardinality(Ids) \in Nat /\ IsFiniteSet(Alive(v))
  BY AliveFinite, IdsFinite
<1>5. Alive(v) # Ids
  <2>1. Cardinality(Alive(v)) < Cardinality(Ids)  BY <1>3, <1>4 DEF Roomy
  <2> QED  BY <1>4, <2>1
<1>6. /\ Good(r)
      /\ f \in Ids \ Alive(v) /\ Alive(r) = Alive(v) \cup {f}
      /\ r.data = [v.data EXCEPT ![m.sec] = f]
      /\ r.floor = v.floor /\ r.ceil = v.ceil
  BY <1>5, StartGood
<1> HIDE DEF r, f
<1>7. v.data \in [Sectors -> Ids \cup {NoMover}]  BY DEF Good, State
<1>8. f # NoMover  BY <1>6, IdsFinite DEF NoMover
<1>9. \A s \in Sectors : r.data[s] = IF s = m.sec THEN f ELSE v.data[s]  BY <1>6, <1>7
<1>10. Free(r) = Free(v) \ {m.sec}
  <2>1. 1 .. Last0 \subseteq Sectors  BY LevelIs
  <2> QED  BY <1>1, <1>8, <1>9, <2>1 DEF Free
<1>11. Cardinality(Free(r)) = Cardinality(Free(v)) - 1  BY <1>2, <1>3, <1>10, FS_RemoveElement
<1>12. Cardinality(Alive(r)) = Cardinality(Alive(v)) + 1  BY <1>4, <1>6, FS_AddElement
<1>13. Roomy(r)  BY <1>3, <1>4, <1>11, <1>12 DEF Roomy
<1> QED  BY <1>1, <1>6, <1>8, <1>9, <1>13 DEF r

\* Movers for sectors that have none and are different start one after another.
LEMMA EachFree ==
  ASSUME level \in Levels, NEW v, Good(v), Roomy(v), NEW ms \in Seq(Body \cup {Gone}),
         \A i \in 1 .. Len(ms) : ms[i] # Gone => MayStart(v, ms[i]) /\ v.data[ms[i].sec] = NoMover,
         \A i, j \in 1 .. Len(ms) :
           ms[i] # Gone /\ ms[j] # Gone /\ ms[i].sec = ms[j].sec => i = j
  PROVE  LET r == StartEach(v, ms)
         IN  Good(r) /\ Roomy(r) /\ r.floor = v.floor /\ r.ceil = v.ceil
<1>1. v \in Loose(None) /\ Len(ms) \in Nat  BY StateIsLoose, LenProperties DEF Good
<1>2. PICK h : EachTrace(h, v, ms)  BY <1>1, EachTraced
<1> DEFINE n == Len(ms)
           T == {k \in 0 .. n :
                  /\ Good(h[k]) /\ Roomy(h[k]) /\ h[k].floor = v.floor /\ h[k].ceil = v.ceil
                  /\ \A i \in k + 1 .. n : ms[i] # Gone =>
                       MayStart(h[k], ms[i]) /\ h[k].data[ms[i].sec] = NoMover}
<1>3. 0 \in T  BY <1>1, <1>2 DEF EachTrace
<1>4. ASSUME NEW k \in 0 .. n - 1, k \in T  PROVE k + 1 \in T
  <2>1. k + 1 \in 1 .. n /\ (k + 1) - 1 = k /\ k + 1 \in 0 .. n  BY <1>1
  <2>2. h[k + 1] = IF ms[k + 1] = Gone THEN h[k] ELSE Start(h[k], ms[k + 1])
    BY <1>2, <2>1 DEF EachTrace
  <2>3. /\ Good(h[k]) /\ Roomy(h[k]) /\ h[k].floor = v.floor /\ h[k].ceil = v.ceil
        /\ \A i \in k + 1 .. n : ms[i] # Gone =>
             MayStart(h[k], ms[i]) /\ h[k].data[ms[i].sec] = NoMover
    BY <1>4
  <2>4. \A i \in (k + 1) + 1 .. n : i \in k + 1 .. n /\ i # k + 1 /\ i \in 1 .. n  BY <1>1
  <2>5. CASE ms[k + 1] = Gone  BY <2>1, <2>2, <2>3, <2>4, <2>5
  <2>6. CASE ms[k + 1] # Gone
    <3> DEFINE m == ms[k + 1]
               u == h[k]
               r == h[k + 1]
    <3>1. k + 1 \in k + 1 .. n  BY <1>1
    <3>2. MayStart(u, m) /\ u.data[m.sec] = NoMover  BY <2>3, <2>6, <3>1
    <3>3. /\ Good(r) /\ Roomy(r) /\ r.floor = u.floor /\ r.ceil = u.ceil
          /\ \A s \in Sectors : s # m.sec => r.data[s] = u.data[s]
      <4> HIDE DEF u, m, T
      <4>1. r = Start(u, m)  BY <2>2, <2>6 DEF u, m
      <4>2. Good(u) /\ Roomy(u)  BY <2>3 DEF u
      <4> QED  BY <3>2, <4>1, <4>2, StartFree
    <3>4. ASSUME NEW i \in (k + 1) + 1 .. n, ms[i] # Gone
          PROVE  MayStart(r, ms[i]) /\ r.data[ms[i].sec] = NoMover
      <4>1. MayStart(u, ms[i]) /\ u.data[ms[i].sec] = NoMover  BY <2>3, <2>4, <3>4
      <4>2. ms[i].sec # m.sec  BY <2>1, <2>4, <2>6, <3>4
      <4>3. ms[i].sec \in Sectors  BY <4>1 DEF MayStart, Body
      <4>4. r.data[ms[i].sec] = NoMover  BY <3>3, <4>1, <4>2, <4>3
      <4> QED  BY <4>1, <4>4 DEF MayStart
    <3> HIDE DEF r, u, m
    <3>5. r.floor = v.floor /\ r.ceil = v.ceil  BY <2>3, <3>3 DEF u
    <3> QED  BY <2>1, <3>3, <3>4, <3>5 DEF r
  <2> QED  BY <2>5, <2>6
<1>5. n \in T
  <2>1. \A k \in 0 .. n : k \in T
    <3> HIDE DEF T, n
    <3>1. n \in Nat  BY <1>1 DEF n
    <3> QED  BY <1>3, <1>4, <3>1, UpTo
  <2> QED  BY <1>1, <2>1
<1> QED  BY <1>2, <1>5 DEF EachTrace

\* So do the movers of a savegame, two for one sector where that may be.
LEMMA EachBackSteps ==
  ASSUME level \in Levels, NEW v, Good(v), NEW ms \in Seq(Body \cup {Gone}),
         Cardinality(Alive(v)) + Len(ms) <= Cardinality(Ids),
         \A i \in 1 .. Len(ms) : ms[i] # Gone => MayStart(v, ms[i]),
         \A i, j \in 1 .. Len(ms) :
           ms[i] # Gone /\ ms[j] # Gone /\ ms[i].sec = ms[j].sec /\ ms[i].sec \notin Overwritten =>
             i = j
  PROVE  \E h : /\ EachTrace(h, v, ms)
                /\ \A k \in 0 .. Len(ms) : Good(h[k])
                /\ \A k \in 0 .. Len(ms) - 1 : ms[k + 1] # Gone =>
                     Alive(h[k]) # Ids /\ MayStart(h[k], ms[k + 1])
<1>1. v \in Loose(None) /\ Len(ms) \in Nat  BY StateIsLoose, LenProperties DEF Good
<1>2. PICK h : EachTrace(h, v, ms)  BY <1>1, EachTraced
<1>3. Cardinality(Alive(v)) \in Nat /\ Cardinality(Ids) \in Nat  BY AliveFinite, IdsFinite
<1> DEFINE n == Len(ms)
           T == {k \in 0 .. n :
                  /\ Good(h[k]) /\ Cardinality(Alive(h[k])) <= Cardinality(Alive(v)) + k
                  /\ \A i \in k + 1 .. n : ms[i] # Gone => MayStart(h[k], ms[i])}
<1>4. 0 \in T  BY <1>1, <1>2, <1>3 DEF EachTrace
<1>5. ASSUME NEW k \in 0 .. n - 1, k \in T  PROVE k + 1 \in T
  <2>1. k + 1 \in 1 .. n /\ (k + 1) - 1 = k /\ k + 1 \in 0 .. n  BY <1>1
  <2>2. h[k + 1] = IF ms[k + 1] = Gone THEN h[k] ELSE Start(h[k], ms[k + 1])
    BY <1>2, <2>1 DEF EachTrace
  <2>3. /\ Good(h[k]) /\ Cardinality(Alive(h[k])) <= Cardinality(Alive(v)) + k
        /\ \A i \in k + 1 .. n : ms[i] # Gone => MayStart(h[k], ms[i])
    BY <1>5
  <2>4. \A i \in (k + 1) + 1 .. n : i \in k + 1 .. n /\ i # k + 1 /\ i \in 1 .. n  BY <1>1
  <2>5. Cardinality(Alive(h[k])) \in Nat /\ IsFiniteSet(Alive(h[k]))  BY AliveFinite
  <2>6. CASE ms[k + 1] = Gone
    <3>1. Cardinality(Alive(h[k])) <= Cardinality(Alive(v)) + (k + 1)  BY <1>3, <2>3, <2>5
    <3> QED  BY <2>1, <2>2, <2>3, <2>4, <2>6, <3>1
  <2>7. CASE ms[k + 1] # Gone
    <3> DEFINE m == ms[k + 1]
               u == h[k]
               r == h[k + 1]
               f == Fresh(u)
    <3>1. k + 1 \in k + 1 .. n  BY <1>1
    <3>2. MayStart(u, m) /\ Good(u)  BY <2>3, <2>7, <3>1
    <3>3. Alive(u) # Ids
      <4>1. Cardinality(Alive(u)) < Cardinality(Ids)  BY <1>1, <1>3, <2>3, <2>5
      <4> QED  BY <2>5, <4>1
    <3>4. /\ Good(r)
          /\ f \in Ids \ Alive(u) /\ Alive(r) = Alive(u) \cup {f}
          /\ r.data = [u.data EXCEPT ![m.sec] = f]
      <4> HIDE DEF u, m, T
      <4>1. r = Start(u, m)  BY <2>2, <2>7 DEF u, m
      <4>2. /\ Good(Start(u, m))
            /\ Fresh(u) \in Ids \ Alive(u) /\ Alive(Start(u, m)) = Alive(u) \cup {Fresh(u)}
            /\ Start(u, m).data = [u.data EXCEPT ![m.sec] = Fresh(u)]
        BY <3>2, <3>3, StartGood
      <4> QED  BY <4>1, <4>2
    <3>5. Cardinality(Alive(r)) = Cardinality(Alive(u)) + 1
      <4>1. IsFiniteSet(Alive(u))  BY <2>5
      <4> HIDE DEF u, r, f
      <4> QED  BY <3>4, <4>1, FS_AddElement
    <3>6. ASSUME NEW i \in (k + 1) + 1 .. n, ms[i] # Gone
          PROVE  MayStart(r, ms[i])
      <4>1. MayStart(u, ms[i])  BY <2>3, <2>4, <3>6
      <4>2. ms[i].sec # m.sec \/ ms[i].sec \in Overwritten  BY <2>1, <2>4, <2>7, <3>6
      <4>3. ms[i].sec \in Sectors  BY <4>1 DEF MayStart, Body
      <4>4. u.data \in [Sectors -> Ids \cup {NoMover}]  BY <3>2 DEF Good, State
      <4>5. ms[i].sec # m.sec => r.data[ms[i].sec] = u.data[ms[i].sec]  BY <3>4, <4>3, <4>4
      <4> QED  BY <4>1, <4>2, <4>5 DEF MayStart
    <3> HIDE DEF r, u, m
    <3>7. Cardinality(Alive(r)) <= Cardinality(Alive(v)) + (k + 1)
      BY <1>3, <2>3, <2>5, <3>5 DEF u
    <3> QED  BY <2>1, <3>4, <3>6, <3>7 DEF r
  <2> QED  BY <2>6, <2>7
<1>6. \A k \in 0 .. n : k \in T
  <2> HIDE DEF T, n
  <2>1. n \in Nat  BY <1>1 DEF n
  <2> QED  BY <1>4, <1>5, <2>1, UpTo
<1>7. ASSUME NEW k \in 0 .. n - 1, ms[k + 1] # Gone
      PROVE  Alive(h[k]) # Ids /\ MayStart(h[k], ms[k + 1])
  <2>1. k \in 0 .. n /\ k + 1 \in k + 1 .. n  BY <1>1
  <2>2. /\ Cardinality(Alive(h[k])) <= Cardinality(Alive(v)) + k
        /\ MayStart(h[k], ms[k + 1])
    BY <1>6, <1>7, <2>1
  <2>3. Cardinality(Alive(h[k])) \in Nat  BY AliveFinite
  <2>4. Cardinality(Alive(h[k])) < Cardinality(Ids)  BY <1>1, <1>3, <2>2, <2>3
  <2> QED  BY <2>2, <2>3, <2>4
<1> QED  BY <1>2, <1>6, <1>7

\* All of it stays right.
LEMMA EachBack ==
  ASSUME level \in Levels, NEW v, Good(v), NEW ms \in Seq(Body \cup {Gone}),
         Cardinality(Alive(v)) + Len(ms) <= Cardinality(Ids),
         \A i \in 1 .. Len(ms) : ms[i] # Gone => MayStart(v, ms[i]),
         \A i, j \in 1 .. Len(ms) :
           ms[i] # Gone /\ ms[j] # Gone /\ ms[i].sec = ms[j].sec /\ ms[i].sec \notin Overwritten =>
             i = j
  PROVE  Good(StartEach(v, ms))
<1>1. PICK h : EachTrace(h, v, ms) /\ \A k \in 0 .. Len(ms) : Good(h[k])  BY EachBackSteps
<1>2. Len(ms) \in 0 .. Len(ms)  BY LenProperties
<1> QED  BY <1>1, <1>2 DEF EachTrace

\* In r's list the movers of ms, at the places K, have come in their order, and a
\* sector that is not to be overwritten points to its own.
InPlace(r, K, ms) ==
  /\ Len(r.list) = Cardinality(K)
  /\ \A i \in K :
       /\ Cardinality({k \in K : k <= i}) \in 1 .. Len(r.list)
       /\ r.mover[r.list[Cardinality({k \in K : k <= i})]] = ms[i]
       /\ ms[i].sec \notin Overwritten =>
            r.data[ms[i].sec] = r.list[Cardinality({k \in K : k <= i})]

\* That is how StartEach leaves them.
LEMMA EachPlaced ==
  ASSUME level \in Levels, NEW v, Good(v), v.list = <<>>, NEW ms \in Seq(Body \cup {Gone}),
         Cardinality(Alive(v)) + Len(ms) <= Cardinality(Ids),
         \A i \in 1 .. Len(ms) : ms[i] # Gone => MayStart(v, ms[i]),
         \A i, j \in 1 .. Len(ms) :
           ms[i] # Gone /\ ms[j] # Gone /\ ms[i].sec = ms[j].sec /\ ms[i].sec \notin Overwritten =>
             i = j
  PROVE  InPlace(StartEach(v, ms), {i \in 1 .. Len(ms) : ms[i] # Gone}, ms)
<1> DEFINE n == Len(ms)
           K == {i \in 1 .. n : ms[i] # Gone}
           Up(k) == {j \in K : j <= k}
           P(k) == Cardinality(Up(k))
<1>1. n \in Nat  BY LenProperties
<1>2. PICK h : /\ EachTrace(h, v, ms)
               /\ \A k \in 0 .. n : Good(h[k])
               /\ \A k \in 0 .. n - 1 : ms[k + 1] # Gone =>
                    Alive(h[k]) # Ids /\ MayStart(h[k], ms[k + 1])
  BY EachBackSteps
<1> DEFINE Placed(k, i) ==
             /\ P(i) \in 1 .. Len(h[k].list)
             /\ h[k].mover[h[k].list[P(i)]] = ms[i]
             /\ ms[i].sec \notin Overwritten => h[k].data[ms[i].sec] = h[k].list[P(i)]
           T == {k \in 0 .. n : Len(h[k].list) = P(k) /\ \A i \in Up(k) : Placed(k, i)}
<1>3. \A k \in 0 .. n : IsFiniteSet(Up(k)) /\ P(k) \in Nat
  <2> TAKE k \in 0 .. n
  <2>1. IsFiniteSet(1 .. n) /\ Up(k) \in SUBSET (1 .. n)  BY <1>1, FS_Interval
  <2>2. IsFiniteSet(Up(k))  BY <2>1, FS_Subset
  <2> HIDE DEF Up
  <2> QED  BY <2>2, FS_CardinalityType
<1>4. 0 \in T
  <2>1. Up(0) = {}  OBVIOUS
  <2>2. P(0) = 0
    <3> HIDE DEF Up
    <3> QED  BY <2>1, FS_EmptySet
  <2>3. h[0].list = <<>>  BY <1>2 DEF EachTrace
  <2>4. 0 \in 0 .. n  BY <1>1
  <2> HIDE DEF Up, P, Placed
  <2> QED  BY <2>1, <2>2, <2>3, <2>4
<1>5. ASSUME NEW k \in 0 .. n - 1, k \in T  PROVE k + 1 \in T
  <2>1. k + 1 \in 1 .. n /\ (k + 1) - 1 = k /\ k + 1 \in 0 .. n /\ k \in 0 .. n  BY <1>1
  <2>2. h[k + 1] = IF ms[k + 1] = Gone THEN h[k] ELSE Start(h[k], ms[k + 1])
    BY <1>2, <2>1 DEF EachTrace
  <2>3. Len(h[k].list) = P(k) /\ \A i \in Up(k) : Placed(k, i)  BY <1>5
  <2>4. CASE ms[k + 1] = Gone
    <3>1. Up(k + 1) = Up(k)  BY <2>1, <2>4
    <3>2. h[k + 1] = h[k]  BY <2>2, <2>4
    <3> HIDE DEF Up
    <3>3. P(k + 1) = P(k)  BY <3>1
    <3> HIDE DEF P
    <3> QED  BY <2>1, <2>3, <3>1, <3>2, <3>3
  <2>5. CASE ms[k + 1] # Gone
    <3> DEFINE m == ms[k + 1]
               u == h[k]
               r == h[k + 1]
               f == Fresh(u)
    <3>1. Up(k + 1) = Up(k) \cup {k + 1} /\ k + 1 \notin Up(k)  BY <2>1, <2>5
    <3>2. P(k + 1) = P(k) + 1
      <4>1. IsFiniteSet(Up(k))  BY <1>3, <2>1
      <4> HIDE DEF Up
      <4> QED  BY <3>1, <4>1, FS_AddElement
    <3>3. Good(u) /\ Alive(u) # Ids /\ MayStart(u, m)  BY <1>2, <2>1, <2>5
    <3>4. u \in State /\ m \in Body  BY <3>3 DEF Good, MayStart
    <3>5. /\ f \in Ids \ Alive(u) /\ r.mover = [u.mover EXCEPT ![f] = m]
          /\ r.data = [u.data EXCEPT ![m.sec] = f] /\ r.list = Append(u.list, f)
      <4>1. r = Start(u, m)  BY <2>2, <2>5
      <4>2. u \in Loose(None)  BY <3>4, StateIsLoose
      <4> HIDE DEF r, u, m
      <4>3. /\ f \in Ids \ Alive(u) /\ Start(u, m).mover = [u.mover EXCEPT ![f] = m]
            /\ Start(u, m).data = [u.data EXCEPT ![m.sec] = f]
        BY <3>3, StartGood
      <4>4. Start(u, m).list = Append(u.list, f)  BY <3>4, <4>2, StartFields
      <4> QED  BY <4>1, <4>3, <4>4
    <3>6. /\ u.mover \in [Ids -> Body \cup {Gone}] /\ u.data \in [Sectors -> Ids \cup {NoMover}]
          /\ u.list \in Seq(Ids) /\ Len(u.list) \in Nat /\ m.sec \in Sectors
      <4> HIDE DEF u, m
      <4>1. m.sec \in Sectors  BY <3>4 DEF Body
      <4>2. /\ u.mover \in [Ids -> Body \cup {Gone}] /\ u.data \in [Sectors -> Ids \cup {NoMover}]
            /\ u.list \in Seq(Ids)
        BY <3>4 DEF State
      <4> QED  BY <4>1, <4>2, LenProperties
    <3>7. \A a \in 1 .. Len(u.list) : u.list[a] \in Alive(u)  BY <3>3 DEF Good, Listed
    <3>8. /\ Len(r.list) = Len(u.list) + 1 /\ r.list[Len(u.list) + 1] = f
          /\ \A a \in 1 .. Len(u.list) : r.list[a] = u.list[a]
      <4>1. f \in Ids  BY <3>5
      <4> HIDE DEF r, u, f
      <4> QED  BY <3>5, <3>6, <4>1, AppendProperties
    <3>9. Len(u.list) = P(k)  BY <2>3
    <3>10. ASSUME NEW i \in Up(k)  PROVE Placed(k + 1, i)
      <4>1. /\ P(i) \in 1 .. Len(u.list) /\ u.mover[u.list[P(i)]] = ms[i]
            /\ ms[i].sec \notin Overwritten => u.data[ms[i].sec] = u.list[P(i)]
        BY <2>3
      <4>2. i \in 1 .. n /\ ms[i] # Gone /\ i # k + 1  BY <2>1
      <4>3. ms[i] \in Body /\ ms[i].sec \in Sectors
        <5>1. ms[i] \in Body \cup {Gone}  BY <4>2, ElementOfSeq
        <5> QED  BY <4>2, <5>1 DEF Body
      <4>4. ms[i].sec \notin Overwritten => ms[i].sec # m.sec  BY <2>1, <2>5, <4>2
      <4> DEFINE q == P(i)
                 e == ms[i]
      <4>5. /\ q \in 1 .. Len(u.list) /\ u.mover[u.list[q]] = e /\ e.sec \in Sectors
            /\ e.sec \notin Overwritten => u.data[e.sec] = u.list[q] /\ e.sec # m.sec
        BY <4>1, <4>3, <4>4
      <4> HIDE DEF r, u, m, f, q, e
      <4>6. q \in 1 .. Len(r.list) /\ r.list[q] = u.list[q]  BY <3>6, <3>8, <4>5
      <4>7. u.list[q] \in Alive(u) /\ u.list[q] \in Ids /\ u.list[q] # f
        BY <3>5, <3>7, <4>5 DEF Alive
      <4>8. r.mover[r.list[q]] = e  BY <3>5, <3>6, <4>5, <4>6, <4>7
      <4>9. e.sec \notin Overwritten => r.data[e.sec] = r.list[q]
        BY <3>5, <3>6, <4>5, <4>6
      <4> QED  BY <4>6, <4>8, <4>9 DEF q, e, r
    <3>11. Placed(k + 1, k + 1)
      <4> DEFINE q == P(k + 1)
      <4>1. q = Len(u.list) + 1  BY <3>2, <3>9
      <4> HIDE DEF r, u, m, f, q
      <4>2. q \in 1 .. Len(r.list) /\ r.list[q] = f  BY <3>6, <3>8, <4>1
      <4>3. r.mover[r.list[q]] = m  BY <3>5, <3>6, <4>2
      <4>4. r.data[m.sec] = r.list[q]  BY <3>5, <3>6, <4>2
      <4> QED  BY <4>2, <4>3, <4>4 DEF q, m, r
    <3>12. Len(r.list) = P(k + 1)  BY <3>2, <3>8, <3>9
    <3> HIDE DEF u, m, f, P, Placed
    <3>13. \A i \in Up(k + 1) : Placed(k + 1, i)
      <4> HIDE DEF Up
      <4> QED  BY <3>1, <3>10, <3>11
    <3> QED  BY <2>1, <3>12, <3>13
  <2> QED  BY <2>4, <2>5
<1>6. n \in T
  <2>1. \A k \in 0 .. n : k \in T
    <3> HIDE DEF T, n
    <3>1. n \in Nat  BY <1>1 DEF n
    <3> QED  BY <1>4, <1>5, <3>1, UpTo
  <2>2. n \in 0 .. n  BY <1>1
  <2> HIDE DEF T, n
  <2> QED  BY <2>1, <2>2
<1>7. Up(n) = K  BY <1>1
<1>8. h[n] = StartEach(v, ms)  BY <1>2 DEF EachTrace
<1>9. Len(h[n].list) = P(n) /\ \A i \in K : Placed(n, i)
  <2> HIDE DEF Up, P, Placed
  <2> QED  BY <1>6, <1>7
<1>10. P(n) = Cardinality(K)  BY <1>7
<1>11. InPlace(h[n], K, ms)
  <2> HIDE DEF K
  <2> QED  BY <1>9, <1>10 DEF InPlace
<1> QED  BY <1>8, <1>11
-----------------------------------------------------------------------------
(* EV_Do... for every tag.                                                 *)

\* What the tagged sectors are given to start.
Makes(made) ==
  \A s \in TaggedSectors :
    /\ made[s] \in Body /\ made[s].sec = s /\ made[s].dir # "stasis"
    /\ made[s].kind = "ceiling" => s \notin Overwritten

\* Every EV_Do... keeps the tables right: a sector it starts a mover in is free.
LEMMA TaggedFree ==
  ASSUME level \in Levels, NEW v, Good(v), Roomy(v), NEW made, Makes(made)
  PROVE  Good(StartTagged(v, made))
<1>1. v \in Loose(None) /\ Len(level.tagged) \in Nat
  BY StateIsLoose, LevelIs, LenProperties DEF Good
<1>2. PICK h : TaggedTrace(h, v, made)
  <2>1. \A s \in TaggedSectors : made[s] \in Body  BY DEF Makes
  <2> QED  BY <1>1, <2>1, TaggedTraced
<1> DEFINE n == Len(level.tagged)
           T == {k \in 0 .. n : Good(h[k]) /\ Roomy(h[k])}
<1>3. 0 \in T  BY <1>1, <1>2 DEF TaggedTrace
<1>4. ASSUME NEW k \in 0 .. n - 1, k \in T  PROVE k + 1 \in T
  <2> DEFINE u == h[k]
             s == level.tagged[k + 1]
  <2>1. k + 1 \in 1 .. n /\ (k + 1) - 1 = k /\ k + 1 \in 0 .. n  BY <1>1
  <2>2. h[k + 1] = IF u.error = "no" /\ u.data[s] = NoMover THEN Start(u, made[s]) ELSE u
    BY <1>2, <2>1 DEF TaggedTrace
  <2>3. Good(u) /\ Roomy(u)  BY <1>4
  <2>4. s \in TaggedSectors
    <3>1. DOMAIN level.tagged = 1 .. n  BY LevelIs, LenProperties
    <3> QED  BY <2>1, <3>1, LevelIs
  <2> HIDE DEF s, u
  <2>5. CASE u.error = "no" /\ u.data[s] = NoMover
    <3>1. MayStart(u, made[s])  BY <2>4, <2>5 DEF Makes, MayStart
    <3>2. u.data[made[s].sec] = NoMover  BY <2>4, <2>5 DEF Makes
    <3>3. Good(Start(u, made[s])) /\ Roomy(Start(u, made[s]))  BY <2>3, <3>1, <3>2, StartFree
    <3> QED  BY <2>1, <2>2, <2>5, <3>3
  <2>6. CASE ~ (u.error = "no" /\ u.data[s] = NoMover)  BY <2>1, <2>2, <2>3, <2>6
  <2> QED  BY <2>5, <2>6
<1>5. n \in T
  <2>1. \A k \in 0 .. n : k \in T
    <3> HIDE DEF T, n
    <3>1. n \in Nat  BY <1>1 DEF n
    <3> QED  BY <1>3, <1>4, <3>1, UpTo
  <2> QED  BY <1>1, <2>1
<1> QED  BY <1>2, <1>5 DEF TaggedTrace

\* The heights around a sector have a least and a greatest.
LEMMA LeastOf ==
  ASSUME NEW n \in Nat, NEW f \in [0 .. n -> Int], NEW S \in SUBSET (0 .. n), S # {}
  PROVE  \E m \in S : \A j \in S : f[m] <= f[j]
<1> DEFINE T == {k \in 0 .. n :
                  (\E i \in S : i <= k) => \E m \in S : \A j \in S : j <= k => f[m] <= f[j]}
<1>1. 0 \in T
  <2>1. \A j \in S : j <= 0 => j = 0  OBVIOUS
  <2>2. \A j \in S : f[j] \in Int  OBVIOUS
  <2>3. (\E i \in S : i <= 0) => \E m \in S : \A j \in S : j <= 0 => f[m] <= f[j]
    <3> HAVE \E i \in S : i <= 0
    <3>1. 0 \in S  BY <2>1
    <3>2. \A j \in S : j <= 0 => f[0] <= f[j]  BY <2>1, <2>2, <3>1
    <3> QED  BY <3>1, <3>2
  <2> QED  BY <2>3
<1>2. ASSUME NEW k \in 0 .. n - 1, k \in T  PROVE k + 1 \in T
  <2>1. k + 1 \in 0 .. n /\ k \in Nat  OBVIOUS
  <2>2. \A j \in S : j \in Nat /\ f[j] \in Int  OBVIOUS
  <2>3. \A j \in S : j <= k + 1 => j <= k \/ j = k + 1  BY <2>1, <2>2
  <2>4. ASSUME \E i \in S : i <= k + 1
        PROVE  \E m \in S : \A j \in S : j <= k + 1 => f[m] <= f[j]
    <3>1. CASE \E i \in S : i <= k
      <4>1. PICK m \in S : \A j \in S : j <= k => f[m] <= f[j]  BY <1>2, <3>1
      <4>2. CASE k + 1 \in S /\ f[k + 1] < f[m]
        <5>1. \A j \in S : j <= k => f[k + 1] <= f[j]  BY <2>2, <4>1, <4>2
        <5>2. \A j \in S : j <= k + 1 => f[k + 1] <= f[j]  BY <2>2, <2>3, <4>2, <5>1
        <5> QED  BY <4>2, <5>2
      <4>3. CASE ~ (k + 1 \in S /\ f[k + 1] < f[m])
        <5>1. \A j \in S : j <= k + 1 => f[m] <= f[j]  BY <2>2, <2>3, <4>1, <4>3
        <5> QED  BY <5>1
      <4> QED  BY <4>2, <4>3
    <3>2. CASE ~ \E i \in S : i <= k
      <4>1. k + 1 \in S /\ \A j \in S : j <= k + 1 => j = k + 1  BY <2>3, <2>4, <3>2
      <4>2. \A j \in S : j <= k + 1 => f[k + 1] <= f[j]  BY <2>2, <4>1
      <4> QED  BY <4>1, <4>2
    <3> QED  BY <3>1, <3>2
  <2> QED  BY <2>1, <2>4
<1>3. n \in T
  <2>1. \A k \in 0 .. n : k \in T
    <3> HIDE DEF T
    <3> QED  BY <1>1, <1>2, UpTo
  <2> HIDE DEF T
  <2> QED  BY <2>1
<1>4. \E m \in S : \A j \in S : j <= n => f[m] <= f[j]
  <2>1. \E i \in S : i <= n
    <3>1. PICK i \in S : TRUE  OBVIOUS
    <3>2. i \in 0 .. n  OBVIOUS
    <3> QED  BY <3>1, <3>2
  <2> QED  BY <1>3, <2>1
<1> QED  BY <1>4

\* The heights around a sector are finitely many, and there are some.
LEMMA HeightsAround ==
  ASSUME NEW n \in Nat, NEW f \in [0 .. n -> Int], NEW S \in SUBSET (0 .. n), S # {}
  PROVE  /\ Min({f[o] : o \in S}) \in Int /\ Max({f[o] : o \in S}) \in Int
         /\ Max({0} \cup {f[o] : o \in S}) \in Int
<1> DEFINE A == {f[o] : o \in S}
           g == [o \in 0 .. n |-> 0 - f[o]]
<1>1. \A o \in S : f[o] \in Int /\ g[o] = 0 - f[o]  OBVIOUS
<1>2. PICK m \in S : \A j \in S : f[m] <= f[j]  BY LeastOf
<1>3. PICK t \in S : \A j \in S : g[t] <= g[j]
  <2>1. g \in [0 .. n -> Int]  OBVIOUS
  <2> HIDE DEF g
  <2> QED  BY <2>1, LeastOf
<1>4. \A j \in S : f[j] <= f[t]
  <2> TAKE j \in S
  <2>1. g[t] <= g[j]  BY <1>3
  <2>2. 0 - f[t] <= 0 - f[j] /\ f[t] \in Int /\ f[j] \in Int
    <3> HIDE DEF g
    <3> QED  BY <1>1, <2>1
  <2> QED  BY <2>2
<1>5. A \subseteq Int /\ f[m] \in A /\ f[t] \in A /\ \A a \in A : f[m] <= a /\ f[t] >= a
  BY <1>1, <1>2, <1>4
<1> HIDE DEF A
<1>6. Min(A) \in A
  <2>1. \E x \in A : \A y \in A : x <= y  BY <1>5
  <2> QED  BY <2>1 DEF Min
<1>7. Max(A) \in A
  <2>1. \E x \in A : \A y \in A : x >= y  BY <1>5
  <2> QED  BY <2>1 DEF Max
<1>8. Max({0} \cup A) \in {0} \cup A
  <2>1. \E x \in {0} \cup A : \A y \in {0} \cup A : x >= y
    <3>1. CASE f[t] >= 0  BY <1>5, <3>1
    <3>2. CASE ~ (f[t] >= 0)
      <4>1. \A y \in {0} \cup A : 0 >= y  BY <1>5, <3>2
      <4> QED  BY <4>1
    <3> QED  BY <3>1, <3>2
  <2> QED  BY <2>1 DEF Max
<1>9. A \subseteq Int /\ {0} \cup A \subseteq Int  BY <1>5
<1>10. Min(A) \in Int /\ Max(A) \in Int  BY <1>6, <1>7, <1>9
<1>11. Max({0} \cup A) \in Int  BY <1>8, <1>9
<1> QED  BY <1>10, <1>11 DEF A

\* The larger and the smaller of two heights are heights.
LEMMA OfTwo ==
  ASSUME NEW a \in Int, NEW b \in Int
  PROVE  Min({a, b}) \in Int /\ Max({a, b}) \in Int
<1>1. \E x \in {a, b} : \A y \in {a, b} : x <= y
  <2>1. CASE a <= b  BY <2>1
  <2>2. CASE ~ (a <= b)  BY <2>2
  <2> QED  BY <2>1, <2>2
<1>2. \E x \in {a, b} : \A y \in {a, b} : x >= y
  <2>1. CASE a >= b  BY <2>1
  <2>2. CASE ~ (a >= b)  BY <2>2
  <2> QED  BY <2>1, <2>2
<1>3. Min({a, b}) \in {a, b}  BY <1>1 DEF Min
<1>4. Max({a, b}) \in {a, b}  BY <1>2 DEF Max
<1> QED  BY <1>3, <1>4

\* What the P_Find... functions return is a height.
LEMMA FindsHeights ==
  ASSUME level \in Levels, NEW v \in State, NEW s \in Sectors \ {0}
  PROVE  /\ P_FindLowestFloorSurrounding(v, s) \in Int
         /\ P_FindHighestFloorSurrounding(v, s) \in Int
         /\ P_FindLowestCeilingSurrounding(v, s) \in Int
         /\ P_FindHighestCeilingSurrounding(v, s) \in Int
         /\ v.floor[s] \in Int /\ v.ceil[s] \in Int /\ v.floor[0] \in Int /\ v.ceil[0] \in Int
<1>1. Last0 \in Nat /\ Sectors = 0 .. Last0  BY LevelIs
<1>2. v.floor \in [0 .. Last0 -> Int] /\ v.ceil \in [0 .. Last0 -> Int]  BY <1>1 DEF State
<1>3. 0 \in Sectors /\ Sectors \in SUBSET (0 .. Last0) /\ Sectors # {}  BY <1>1
<1>4. Surrounding(s) \in SUBSET (0 .. Last0) /\ Surrounding(s) # {}
  BY <1>1, <1>3 DEF Surrounding
<1>5. P_FindLowestFloorSurrounding(v, s) \in Int
  BY <1>1, <1>2, <1>3, HeightsAround DEF P_FindLowestFloorSurrounding
<1>6. P_FindHighestFloorSurrounding(v, s) \in Int
  BY <1>1, <1>2, <1>4, HeightsAround DEF P_FindHighestFloorSurrounding
<1>7. P_FindLowestCeilingSurrounding(v, s) \in Int
  BY <1>1, <1>2, <1>4, HeightsAround DEF P_FindLowestCeilingSurrounding
<1>8. P_FindHighestCeilingSurrounding(v, s) \in Int
  BY <1>1, <1>2, <1>4, HeightsAround DEF P_FindHighestCeilingSurrounding
<1> QED  BY <1>1, <1>2, <1>3, <1>5, <1>6, <1>7, <1>8
\* The fields that Mover sets.
LEMMA MoverBody ==
  ASSUME NEW kind \in Kinds, NEW type \in Types, NEW s \in Sectors \ {0},
         NEW dir \in Dirs, NEW low \in Int, NEW high \in Int, NEW wait \in Int,
         NEW m, m = Mover(kind, type, s, dir, low, high, wait)
  PROVE  m \in Body /\ m.kind = kind /\ m.sec = s /\ m.dir = dir
  BY DEF Mover, Body

\* A mover that crushes is still a mover.
LEMMA CrushBody ==
  ASSUME NEW m \in Body, NEW b \in BOOLEAN, NEW c, c = [m EXCEPT !.crush = b]
  PROVE  c \in Body /\ c.kind = m.kind /\ c.sec = m.sec /\ c.dir = m.dir
  BY DEF Body

\* The movers each kind of line starts.
LEMMA PlatMakes ==
  ASSUME level \in Levels, NEW v \in State, NEW pick \in Picks, NEW type \in LineTypes["plat"]
  PROVE  Makes([s \in TaggedSectors |-> Plat(type, pick, v, s)])
<1> SUFFICES ASSUME NEW s \in TaggedSectors
             PROVE  LET m == Plat(type, pick, v, s)
                    IN  m \in Body /\ m.sec = s /\ m.dir # "stasis" /\ m.kind = "plat"
  BY DEF Makes
<1>1. s \in Sectors \ {0} /\ s \in Sectors  BY LevelIs
<1> DEFINE lowest == P_FindLowestFloorSurrounding(v, s)
           highest == P_FindHighestFloorSurrounding(v, s)
           here == v.floor[s]
           top == Max({here, highest})
<1>2. lowest \in Int /\ highest \in Int /\ here \in Int  BY <1>1, FindsHeights
<1>3. top \in Int
  <2> HIDE DEF here, highest
  <2> QED  BY <1>2, OfTwo
<1>4. pick[s] \in Int /\ Wait \in Int /\ Rise \in Int
  <2>1. Garbage \subseteq Int  BY MoversAssumption
  <2>2. pick[s] \in Garbage  BY <1>1 DEF Picks
  <2>3. Wait \in Int /\ Rise \in Int  BY MoversAssumption
  <2> QED  BY <2>1, <2>2, <2>3
<1>5. "plat" \in Kinds /\ {"up", "down"} \subseteq Dirs  BY DEF Kinds, Dirs
<1>6. CASE type = "perpetualRaise"
  <2> DEFINE dir == IF pick[s] > 0 THEN "up" ELSE "down"
  <2>1. Plat(type, pick, v, s) = Mover("plat", type, s, dir, lowest, top, Wait)
    BY <1>6 DEF Plat
  <2>2. dir \in Dirs /\ dir # "stasis"  BY <1>5
  <2> HIDE DEF lowest, top, dir
  <2> QED  BY <1>1, <1>2, <1>3, <1>4, <1>5, <1>6, <2>1, <2>2, MoverBody DEF Types
<1>7. CASE type = "downWaitUpStay"
  <2>1. Plat(type, pick, v, s) = Mover("plat", type, s, "down", lowest, here, Wait)
    BY <1>7 DEF Plat
  <2> HIDE DEF lowest, here
  <2> QED  BY <1>1, <1>2, <1>4, <1>5, <1>7, <2>1, MoverBody DEF Types
<1>8. CASE type = "raiseAndChange"
  <2>1. Plat(type, pick, v, s) = Mover("plat", type, s, "up", pick[s], here + Rise, 0)
    BY <1>8 DEF Plat
  <2>2. here + Rise \in Int  BY <1>2, <1>4
  <2> HIDE DEF here
  <2> QED  BY <1>1, <1>2, <1>4, <1>5, <1>8, <2>1, <2>2, MoverBody DEF Types
<1> QED  BY <1>6, <1>7, <1>8 DEF LineTypes

\* EV_DoCeiling starts ceilings, each in its tagged sector.
LEMMA CeilingMakes ==
  ASSUME level \in Levels, NEW v \in State, NEW type \in LineTypes["ceiling"],
         TaggedSectors \cap Overwritten = {}
  PROVE  Makes([s \in TaggedSectors |-> Ceiling(type, v, s)])
<1> SUFFICES ASSUME NEW s \in TaggedSectors
             PROVE  LET m == Ceiling(type, v, s)
                    IN  m \in Body /\ m.sec = s /\ m.dir # "stasis"
  BY DEF Makes
<1>1. s \in Sectors \ {0} /\ s \in Sectors  BY LevelIs
<1> DEFINE highest == P_FindHighestCeilingSurrounding(v, s)
           floor == v.floor[s]
           here == v.ceil[s]
<1>2. highest \in Int /\ floor \in Int /\ here \in Int  BY <1>1, FindsHeights
<1>3. Wait \in Int /\ Clear \in Int /\ floor + Clear \in Int  BY <1>2, MoversAssumption
<1>4. "ceiling" \in Kinds /\ {"up", "down"} \subseteq Dirs  BY DEF Kinds, Dirs
<1>5. CASE type = "lowerToFloor"
  <2>1. Ceiling(type, v, s) = Mover("ceiling", type, s, "down", floor, 0, Wait)
    BY <1>5 DEF Ceiling
  <2> DEFINE m == Mover("ceiling", type, s, "down", floor, 0, Wait)
  <2> HIDE DEF floor
  <2>2. m \in Body /\ m.sec = s /\ m.dir = "down"
    BY <1>1, <1>2, <1>3, <1>4, <1>5, MoverBody DEF Types
  <2> HIDE DEF m
  <2> QED  BY <2>1, <2>2 DEF m
<1>6. CASE type = "raiseToHighest"
  <2>1. Ceiling(type, v, s) = Mover("ceiling", type, s, "up", 0, highest, Wait)
    BY <1>6 DEF Ceiling
  <2> HIDE DEF highest
  <2> QED  BY <1>1, <1>2, <1>3, <1>4, <1>6, <2>1, MoverBody DEF Types
<1>7. CASE type = "crushAndRaise"
  <2>1. Ceiling(type, v, s) =
          [Mover("ceiling", type, s, "down", floor + Clear, here, Wait) EXCEPT !.crush = TRUE]
    BY <1>7 DEF Ceiling
  <2> DEFINE m == Mover("ceiling", type, s, "down", floor + Clear, here, Wait)
  <2> HIDE DEF floor, here
  <2>2. m \in Body /\ m.sec = s /\ m.dir = "down"
    BY <1>1, <1>2, <1>3, <1>4, <1>7, MoverBody DEF Types
  <2> HIDE DEF m
  <2> QED  BY <2>1, <2>2, CrushBody DEF m
<1> QED  BY <1>5, <1>6, <1>7 DEF LineTypes

\* A door that starts, whichever its type.
LEMMA DoorIs ==
  ASSUME level \in Levels, NEW v \in State, NEW type \in LineTypes["door"], NEW s \in Sectors \ {0}
  PROVE  LET m == Door(type, v, s)
         IN  m \in Body /\ m.sec = s /\ m.dir # "stasis" /\ m.kind = "door"
<1>1. s \in Sectors  OBVIOUS
<1> DEFINE lowest == P_FindLowestCeilingSurrounding(v, s)
           here == v.ceil[s]
<1>2. lowest \in Int /\ here \in Int /\ 0 \in Int  BY <1>1, FindsHeights
<1>3. Wait \in Int  BY MoversAssumption
<1>4. "door" \in Kinds /\ {"up", "down"} \subseteq Dirs  BY DEF Kinds, Dirs
<1>5. CASE type = "close"
  <2>1. Door(type, v, s) = Mover("door", type, s, "down", 0, 0, Wait)  BY <1>5 DEF Door
  <2> QED  BY <1>1, <1>2, <1>3, <1>4, <1>5, <2>1, MoverBody DEF Types
<1>6. CASE type = "close30ThenOpen"
  <2>1. Door(type, v, s) = Mover("door", type, s, "down", 0, here, Wait)  BY <1>6 DEF Door
  <2> HIDE DEF here
  <2> QED  BY <1>1, <1>2, <1>3, <1>4, <1>6, <2>1, MoverBody DEF Types
<1>7. CASE type \in {"normal", "open"}
  <2>1. Door(type, v, s) = Mover("door", type, s, "up", 0, lowest, Wait)  BY <1>7 DEF Door
  <2> HIDE DEF lowest
  <2> QED  BY <1>1, <1>2, <1>3, <1>4, <1>7, <2>1, MoverBody DEF Types
<1> QED  BY <1>5, <1>6, <1>7 DEF LineTypes

\* EV_DoDoor starts doors, each in its tagged sector.
LEMMA DoorMakes ==
  ASSUME level \in Levels, NEW v \in State, NEW type \in LineTypes["door"]
  PROVE  Makes([s \in TaggedSectors |-> Door(type, v, s)])
<1> SUFFICES ASSUME NEW s \in TaggedSectors
             PROVE  LET m == Door(type, v, s)
                    IN  m \in Body /\ m.sec = s /\ m.dir # "stasis" /\ m.kind = "door"
  BY DEF Makes
<1>1. s \in Sectors \ {0}  BY LevelIs
<1> QED  BY <1>1, DoorIs

\* EV_DoFloor starts floors, each in its tagged sector.
LEMMA FloorMakes ==
  ASSUME level \in Levels, NEW v \in State, NEW type \in LineTypes["floor"]
  PROVE  Makes([s \in TaggedSectors |-> Floor(type, v, s)])
<1> SUFFICES ASSUME NEW s \in TaggedSectors
             PROVE  LET m == Floor(type, v, s)
                    IN  m \in Body /\ m.sec = s /\ m.dir # "stasis" /\ m.kind = "floor"
  BY DEF Makes
<1>1. s \in Sectors \ {0} /\ s \in Sectors  BY LevelIs
<1> DEFINE highest == P_FindHighestFloorSurrounding(v, s)
           lowest == P_FindLowestCeilingSurrounding(v, s)
           here == v.ceil[s]
           low == Min({here, lowest})
<1>2. highest \in Int /\ lowest \in Int /\ here \in Int /\ 0 \in Int  BY <1>1, FindsHeights
<1>3. low \in Int
  <2> HIDE DEF here, lowest
  <2> QED  BY <1>2, OfTwo
<1>4. Wait \in Int /\ Clear \in Int /\ low - Clear \in Int
  <2> HIDE DEF low
  <2> QED  BY <1>3, MoversAssumption
<1>5. "floor" \in Kinds /\ {"up", "down"} \subseteq Dirs  BY DEF Kinds, Dirs
<1>6. CASE type = "lowerFloor"
  <2>1. Floor(type, v, s) = Mover("floor", type, s, "down", 0, highest, Wait)  BY <1>6 DEF Floor
  <2> HIDE DEF highest
  <2> QED  BY <1>1, <1>2, <1>4, <1>5, <1>6, <2>1, MoverBody DEF Types
<1>7. CASE type = "raiseFloor"
  <2>1. Floor(type, v, s) = Mover("floor", type, s, "up", 0, low, Wait)  BY <1>7 DEF Floor
  <2> HIDE DEF low
  <2> QED  BY <1>1, <1>2, <1>3, <1>4, <1>5, <1>7, <2>1, MoverBody DEF Types
<1>8. CASE type = "raiseFloorCrush"
  <2>1. Floor(type, v, s) =
          [Mover("floor", type, s, "up", 0, low - Clear, Wait) EXCEPT !.crush = TRUE]
    BY <1>8 DEF Floor
  <2> DEFINE m == Mover("floor", type, s, "up", 0, low - Clear, Wait)
  <2> HIDE DEF low
  <2>2. m \in Body /\ m.sec = s /\ m.dir = "up" /\ m.kind = "floor"
    BY <1>1, <1>2, <1>4, <1>5, <1>8, MoverBody DEF Types
  <2> HIDE DEF m
  <2> QED  BY <2>1, <2>2, CrushBody DEF m
<1> QED  BY <1>6, <1>7, <1>8 DEF LineTypes
-----------------------------------------------------------------------------
(* What a thinker changes of itself and of its sector's planes.            *)

Fields(v) ==
  [floor |-> v.floor, ceil |-> v.ceil, data |-> v.data, mover |-> v.mover,
   list |-> v.list, plats |-> v.plats, ceilings |-> v.ceilings, error |-> v.error]

\* r is v but for the heights and the mover id, which keeps what it is and where.
Tuned(v, r, id) ==
  /\ r \in State /\ r.list = v.list /\ r.data = v.data
  /\ r.plats = v.plats /\ r.ceilings = v.ceilings /\ r.error = v.error
  /\ \A k \in Ids \ {id} : r.mover[k] = v.mover[k]
  /\ r.mover[id] \in Body
  /\ r.mover[id].kind = v.mover[id].kind /\ r.mover[id].sec = v.mover[id].sec
  /\ r.mover[id].old = v.mover[id].old
  /\ r.mover[id].dir = "stasis" => v.mover[id].dir = "stasis"

\* Two such changes are one.
LEMMA TunedTwice ==
  ASSUME NEW v, NEW u, NEW r, NEW id, Tuned(v, u, id), Tuned(u, r, id)
  PROVE  Tuned(v, r, id)
  BY DEF Tuned

\* The fields of a state.
LEMMA StateIs ==
  ASSUME NEW v \in State
  PROVE  /\ v = Fields(v)
         /\ v.floor \in [Sectors -> Int] /\ v.ceil \in [Sectors -> Int]
         /\ v.data \in [Sectors -> Ids \cup {NoMover}] /\ v.mover \in [Ids -> Body \cup {Gone}]
         /\ v.list \in Seq(Ids) /\ v.plats \in SUBSET Ids /\ v.ceilings \in SUBSET Ids
         /\ v.error \in {"no", "full", "lost"}
         /\ \A id \in Alive(v) : id \in Ids /\ v.mover[id] \in Body
  BY DEF State, Fields, Alive

\* A record with such fields is a state.
LEMMA StateOf ==
  ASSUME NEW fl \in [Sectors -> Int], NEW ce \in [Sectors -> Int],
         NEW da \in [Sectors -> Ids \cup {NoMover}], NEW mo \in [Ids -> Body \cup {Gone}],
         NEW li \in Seq(Ids), NEW pl \in SUBSET Ids, NEW ci \in SUBSET Ids,
         NEW er \in {"no", "full", "lost"}
  PROVE  [floor |-> fl, ceil |-> ce, data |-> da, mover |-> mo,
          list |-> li, plats |-> pl, ceilings |-> ci, error |-> er] \in State
  BY DEF State

\* The floor of any sector takes a height.
LEMMA TuneFloor ==
  ASSUME NEW v \in State, NEW id \in Alive(v), NEW s, NEW h \in Int
  PROVE  Tuned(v, [v EXCEPT !.floor[s] = h], id)
<1> DEFINE fl == [v.floor EXCEPT ![s] = h]
           r == [v EXCEPT !.floor[s] = h]
<1>1. fl \in [Sectors -> Int]  BY StateIs
<1>2. r = [Fields(v) EXCEPT !.floor = fl]  BY StateIs
<1> HIDE DEF fl, r
<1>3. r = [floor |-> fl, ceil |-> v.ceil, data |-> v.data, mover |-> v.mover,
           list |-> v.list, plats |-> v.plats, ceilings |-> v.ceilings, error |-> v.error]
  BY <1>2 DEF Fields
<1>4. r \in State  BY <1>1, <1>3, StateIs, StateOf
<1>5. v.mover[id] \in Body  BY StateIs
<1>6. Tuned(v, r, id)  BY <1>3, <1>4, <1>5 DEF Tuned
<1> QED  BY <1>6 DEF r

\* The ceiling of any sector takes a height.
LEMMA TuneCeil ==
  ASSUME NEW v \in State, NEW id \in Alive(v), NEW s, NEW h \in Int
  PROVE  Tuned(v, [v EXCEPT !.ceil[s] = h], id)
<1> DEFINE ce == [v.ceil EXCEPT ![s] = h]
           r == [v EXCEPT !.ceil[s] = h]
<1>1. ce \in [Sectors -> Int]  BY StateIs
<1>2. r = [Fields(v) EXCEPT !.ceil = ce]  BY StateIs
<1> HIDE DEF ce, r
<1>3. r = [floor |-> v.floor, ceil |-> ce, data |-> v.data, mover |-> v.mover,
           list |-> v.list, plats |-> v.plats, ceilings |-> v.ceilings, error |-> v.error]
  BY <1>2 DEF Fields
<1>4. r \in State  BY <1>1, <1>3, StateIs, StateOf
<1>5. v.mover[id] \in Body  BY StateIs
<1>6. Tuned(v, r, id)  BY <1>3, <1>4, <1>5 DEF Tuned
<1> QED  BY <1>6 DEF r

\* The mover takes m's fields.
LEMMA TuneMover ==
  ASSUME NEW v \in State, NEW id \in Alive(v), NEW m \in Body,
         m.kind = v.mover[id].kind, m.sec = v.mover[id].sec, m.old = v.mover[id].old,
         m.dir = "stasis" => v.mover[id].dir = "stasis"
  PROVE  Tuned(v, [v EXCEPT !.mover = [v.mover EXCEPT ![id] = m]], id)
<1> DEFINE mo == [v.mover EXCEPT ![id] = m]
           r == [v EXCEPT !.mover = mo]
<1>0. id \in Ids  BY DEF Alive
<1>1. mo \in [Ids -> Body \cup {Gone}] /\ mo[id] = m /\ \A k \in Ids \ {id} : mo[k] = v.mover[k]
  BY <1>0, StateIs
<1>2. r = [Fields(v) EXCEPT !.mover = mo]  BY StateIs
<1> HIDE DEF mo, r
<1>3. r = [floor |-> v.floor, ceil |-> v.ceil, data |-> v.data, mover |-> mo,
           list |-> v.list, plats |-> v.plats, ceilings |-> v.ceilings, error |-> v.error]
  BY <1>2 DEF Fields
<1>4. r \in State  BY <1>1, <1>3, StateIs, StateOf
<1>6. Tuned(v, r, id)  BY <1>1, <1>3, <1>4 DEF Tuned
<1> QED  BY <1>6 DEF r, mo

\* One field of the mover changes.
LEMMA TuneField ==
  ASSUME NEW v \in State, NEW id \in Alive(v)
  PROVE  /\ \A d \in Dirs \ {"stasis"} : Tuned(v, [v EXCEPT !.mover[id].dir = d], id)
         /\ \A c \in Int : Tuned(v, [v EXCEPT !.mover[id].count = c], id)
         /\ \A c \in Int : Tuned(v, [v EXCEPT !.mover[id].wait = c], id)
         /\ \A t \in Types : Tuned(v, [v EXCEPT !.mover[id].type = t], id)
<1> DEFINE m == v.mover[id]
<1>1. m \in Body  BY StateIs
<1>2. ASSUME NEW d \in Dirs \ {"stasis"}  PROVE Tuned(v, [v EXCEPT !.mover[id].dir = d], id)
  <2> DEFINE n == [m EXCEPT !.dir = d]
  <2>1. [v EXCEPT !.mover[id].dir = d] = [v EXCEPT !.mover = [v.mover EXCEPT ![id] = n]]
    OBVIOUS
  <2>2. n \in Body /\ n.kind = m.kind /\ n.sec = m.sec /\ n.old = m.old /\ n.dir # "stasis"
    <3> HIDE DEF m
    <3> QED  BY <1>1 DEF Body
  <2> HIDE DEF n
  <2> QED  BY <2>1, <2>2, TuneMover
<1>3. ASSUME NEW c \in Int  PROVE Tuned(v, [v EXCEPT !.mover[id].count = c], id)
  <2> DEFINE n == [m EXCEPT !.count = c]
  <2>1. [v EXCEPT !.mover[id].count = c] = [v EXCEPT !.mover = [v.mover EXCEPT ![id] = n]]
    OBVIOUS
  <2>2. n \in Body /\ n.kind = m.kind /\ n.sec = m.sec /\ n.old = m.old /\ n.dir = m.dir
    <3> HIDE DEF m
    <3> QED  BY <1>1 DEF Body
  <2> HIDE DEF n
  <2> QED  BY <2>1, <2>2, TuneMover
<1>4. ASSUME NEW c \in Int  PROVE Tuned(v, [v EXCEPT !.mover[id].wait = c], id)
  <2> DEFINE n == [m EXCEPT !.wait = c]
  <2>1. [v EXCEPT !.mover[id].wait = c] = [v EXCEPT !.mover = [v.mover EXCEPT ![id] = n]]
    OBVIOUS
  <2>2. n \in Body /\ n.kind = m.kind /\ n.sec = m.sec /\ n.old = m.old /\ n.dir = m.dir
    <3> HIDE DEF m
    <3> QED  BY <1>1 DEF Body
  <2> HIDE DEF n
  <2> QED  BY <2>1, <2>2, TuneMover
<1>5. ASSUME NEW t \in Types  PROVE Tuned(v, [v EXCEPT !.mover[id].type = t], id)
  <2> DEFINE n == [m EXCEPT !.type = t]
  <2>1. [v EXCEPT !.mover[id].type = t] = [v EXCEPT !.mover = [v.mover EXCEPT ![id] = n]]
    OBVIOUS
  <2>2. n \in Body /\ n.kind = m.kind /\ n.sec = m.sec /\ n.old = m.old /\ n.dir = m.dir
    <3> HIDE DEF m
    <3> QED  BY <1>1 DEF Body
  <2> HIDE DEF n
  <2> QED  BY <2>1, <2>2, TuneMover
<1> QED  BY <1>2, <1>3, <1>4, <1>5

\* The same thinkers exist after it.
LEMMA TunedAlive ==
  ASSUME NEW v \in State, NEW id \in Alive(v), NEW r, Tuned(v, r, id)
  PROVE  r \in State /\ id \in Alive(r) /\ Alive(r) = Alive(v)
<1>1. r.mover[id] # Gone  BY BodyIsThere DEF Tuned
<1>2. \A k \in Ids : r.mover[k] = Gone <=> v.mover[k] = Gone  BY <1>1 DEF Tuned, Alive
<1> QED  BY <1>2 DEF Tuned, Alive

\* A state that differs in what the movers do, and in no table, stays right.
LEMMA SameTables ==
  ASSUME NEW v, Good(v), NEW r \in State,
         r.list = v.list, r.data = v.data, r.plats = v.plats, r.ceilings = v.ceilings,
         r.error = v.error, Alive(r) = Alive(v),
         \A k \in Alive(v) :
           /\ r.mover[k].kind = v.mover[k].kind /\ r.mover[k].sec = v.mover[k].sec
           /\ r.mover[k].dir = "stasis" =>
                \/ v.mover[k].dir = "stasis" /\ r.mover[k].old = v.mover[k].old
                \/ (k \in v.plats \/ k \in v.ceilings) /\ r.mover[k].old # "stasis"
  PROVE  Good(r)
<1>1. Listed(r)  BY DEF Good, Listed
<1>2. Points(r)  BY DEF Good, Points
<1>3. Owned(r)  BY DEF Good, Owned
<1>4. PlatsTrue(r)
  <2> SUFFICES ASSUME v.error = "no", NEW k \in Ids
               PROVE  k \in v.plats <=> k \in Alive(v) /\ r.mover[k].kind = "plat"
    BY DEF PlatsTrue
  <2>1. k \in v.plats <=> k \in Alive(v) /\ v.mover[k].kind = "plat"  BY DEF Good, PlatsTrue
  <2> QED  BY <2>1
<1>5. CeilingsTrue(r)  BY DEF Good, CeilingsTrue
<1>6. Wakes(r)
  <2> SUFFICES ASSUME NEW k \in Alive(v), r.mover[k].dir = "stasis"
               PROVE  /\ k \in v.plats \/ k \in v.ceilings \/ (Crowded /\ r.mover[k].kind = "ceiling")
                      /\ r.mover[k].old # "stasis"
    BY DEF Wakes
  <2>1. CASE v.mover[k].dir = "stasis" /\ r.mover[k].old = v.mover[k].old
    BY <2>1 DEF Good, Wakes
  <2>2. CASE (k \in v.plats \/ k \in v.ceilings) /\ r.mover[k].old # "stasis"  BY <2>2
  <2> QED  BY <2>1, <2>2
<1> QED  BY <1>1, <1>2, <1>3, <1>4, <1>5, <1>6 DEF Good

\* The tables stay right after it.
LEMMA TunedGood ==
  ASSUME NEW v, Good(v), NEW id \in Alive(v), NEW r, Tuned(v, r, id)
  PROVE  Good(r)
<1>1. v \in State  BY DEF Good
<1>2. r \in State /\ Alive(r) = Alive(v)  BY <1>1, TunedAlive
<1>3. \A k \in Alive(v) :
        /\ r.mover[k].kind = v.mover[k].kind /\ r.mover[k].sec = v.mover[k].sec
        /\ r.mover[k].dir = "stasis" => v.mover[k].dir = "stasis" /\ r.mover[k].old = v.mover[k].old
  BY DEF Tuned, Alive
<1> QED  BY <1>2, <1>3, SameTables DEF Tuned

-----------------------------------------------------------------------------
(* Stopping in stasis and going on.                                        *)

\* The movers take the fields of mo.
LEMMA ManyGood ==
  ASSUME NEW v, Good(v), NEW mo \in [Ids -> Body \cup {Gone}],
         \A k \in Ids \ Alive(v) : mo[k] = Gone,
         \A k \in Alive(v) :
           /\ mo[k] \in Body /\ mo[k].kind = v.mover[k].kind /\ mo[k].sec = v.mover[k].sec
           /\ mo[k].dir = "stasis" =>
                \/ v.mover[k].dir = "stasis" /\ mo[k].old = v.mover[k].old
                \/ (k \in v.plats \/ k \in v.ceilings) /\ mo[k].old # "stasis"
  PROVE  LET r == [v EXCEPT !.mover = mo]
         IN  Good(r) /\ Alive(r) = Alive(v) /\ r.floor = v.floor /\ r.ceil = v.ceil /\ r.data = v.data
<1> DEFINE r == [v EXCEPT !.mover = mo]
<1>1. v \in State /\ Alive(v) \subseteq Ids  BY DEF Good, Alive
<1>3. r = [Fields(v) EXCEPT !.mover = mo]  BY <1>1, StateIs
<1> HIDE DEF r
<1>4. r = [floor |-> v.floor, ceil |-> v.ceil, data |-> v.data, mover |-> mo,
           list |-> v.list, plats |-> v.plats, ceilings |-> v.ceilings, error |-> v.error]
  BY <1>3 DEF Fields
<1>5. r \in State  BY <1>1, <1>4, StateIs, StateOf
<1>7. Alive(r) = Alive(v)
  <2>1. \A k \in Ids : mo[k] = Gone <=> v.mover[k] = Gone  BY BodyIsThere DEF Alive
  <2> QED  BY <1>4, <2>1 DEF Alive
<1>8. Good(r)
  <2>1. \A k \in Alive(v) :
          /\ r.mover[k].kind = v.mover[k].kind /\ r.mover[k].sec = v.mover[k].sec
          /\ r.mover[k].dir = "stasis" =>
               \/ v.mover[k].dir = "stasis" /\ r.mover[k].old = v.mover[k].old
               \/ (k \in v.plats \/ k \in v.ceilings) /\ r.mover[k].old # "stasis"
    BY <1>4
  <2> QED  BY <1>4, <1>5, <1>7, <2>1, SameTables
<1> QED  BY <1>4, <1>7, <1>8 DEF r

\* A mover of a table is there.
LEMMA InTables ==
  ASSUME NEW v, Good(v), v.error = "no"
  PROVE  /\ \A k \in v.plats : k \in Alive(v) /\ v.mover[k] \in Body /\ k \in Ids
         /\ \A k \in v.ceilings : k \in Alive(v) /\ v.mover[k] \in Body /\ k \in Ids
<1>1. v \in State  BY DEF Good
<1>2. \A k \in v.plats : k \in Ids /\ k \in Alive(v)
  <2>1. v.plats \in SUBSET Ids  BY <1>1, StateIs
  <2> QED  BY <2>1 DEF Good, PlatsTrue
<1>3. \A k \in v.ceilings : k \in Ids /\ k \in Alive(v)
  <2>1. v.ceilings \in SUBSET Ids  BY <1>1, StateIs
  <2> QED  BY <2>1 DEF Good, CeilingsTrue
<1> QED  BY <1>1, <1>2, <1>3, StateIs

\* What a restart and a stop do to the movers of one table.
LEMMA WakeGood ==
  ASSUME NEW v, Good(v), v.error = "no", NEW P, P = v.plats \/ P = v.ceilings
  PROVE  LET r == [v EXCEPT !.mover = [id \in Ids |->
                     IF id \in P /\ v.mover[id].dir = "stasis"
                     THEN [v.mover[id] EXCEPT !.dir = v.mover[id].old] ELSE v.mover[id]]]
         IN  Good(r) /\ Alive(r) = Alive(v) /\ r.floor = v.floor /\ r.ceil = v.ceil /\ r.data = v.data
<1> DEFINE mo == [id \in Ids |->
                     IF id \in P /\ v.mover[id].dir = "stasis"
                     THEN [v.mover[id] EXCEPT !.dir = v.mover[id].old] ELSE v.mover[id]]
<1>1. \A k \in P : k \in Alive(v)  BY InTables
<1>2. v \in State /\ Alive(v) \subseteq Ids  BY DEF Good, Alive
<1>3. ASSUME NEW k \in Alive(v)
      PROVE  /\ mo[k] \in Body /\ mo[k].kind = v.mover[k].kind /\ mo[k].sec = v.mover[k].sec
             /\ mo[k].dir = "stasis" => v.mover[k].dir = "stasis" /\ mo[k].old = v.mover[k].old
  <2> DEFINE b == v.mover[k]
  <2>1. b \in Body /\ k \in Ids  BY <1>2, StateIs
  <2>2. b.dir = "stasis" => b.old # "stasis"  BY DEF Good, Wakes
  <2>3. mo[k] = IF k \in P /\ b.dir = "stasis" THEN [b EXCEPT !.dir = b.old] ELSE b  BY <2>1
  <2> HIDE DEF mo, b
  <2>4. CASE k \in P /\ b.dir = "stasis"
    <3>1. mo[k] = [b EXCEPT !.dir = b.old]  BY <2>3, <2>4
    <3> QED  BY <2>1, <2>2, <2>4, <3>1 DEF Body, b
  <2>5. CASE ~ (k \in P /\ b.dir = "stasis")  BY <2>1, <2>3, <2>5 DEF b
  <2> QED  BY <2>4, <2>5
<1>4. ASSUME NEW k \in Ids \ Alive(v)  PROVE mo[k] = Gone
  <2>1. v.mover[k] = Gone /\ k \notin P  BY <1>1 DEF Alive
  <2> QED  BY <2>1
<1>5. mo \in [Ids -> Body \cup {Gone}]
  <2>1. \A k \in Ids : mo[k] \in Body \cup {Gone}
    <3> HIDE DEF mo
    <3> QED  BY <1>3, <1>4
  <2> QED  BY <2>1
<1> HIDE DEF mo
<1> DEFINE r == [v EXCEPT !.mover = mo]
<1>6. Good(r) /\ Alive(r) = Alive(v) /\ r.floor = v.floor /\ r.ceil = v.ceil /\ r.data = v.data
  BY <1>3, <1>4, <1>5, ManyGood
<1> QED  BY <1>6 DEF mo

\* EV_StopPlat and EV_CeilingCrushStop.
LEMMA StopGood ==
  ASSUME NEW v, Good(v), v.error = "no", NEW P, P = v.plats \/ P = v.ceilings
  PROVE  Good([v EXCEPT !.mover = [id \in Ids |->
                 IF id \in P /\ v.mover[id].dir # "stasis"
                 THEN [v.mover[id] EXCEPT !.old = v.mover[id].dir, !.dir = "stasis"]
                 ELSE v.mover[id]]])
<1> DEFINE mo == [id \in Ids |->
                    IF id \in P /\ v.mover[id].dir # "stasis"
                    THEN [v.mover[id] EXCEPT !.old = v.mover[id].dir, !.dir = "stasis"]
                    ELSE v.mover[id]]
<1>1. \A k \in P : k \in Alive(v)  BY InTables
<1>2. v \in State /\ Alive(v) \subseteq Ids  BY DEF Good, Alive
<1>3. ASSUME NEW k \in Alive(v)
      PROVE  /\ mo[k] \in Body /\ mo[k].kind = v.mover[k].kind /\ mo[k].sec = v.mover[k].sec
             /\ mo[k].dir = "stasis" =>
                  \/ v.mover[k].dir = "stasis" /\ mo[k].old = v.mover[k].old
                  \/ (k \in v.plats \/ k \in v.ceilings) /\ mo[k].old # "stasis"
  <2> DEFINE b == v.mover[k]
  <2>1. b \in Body /\ k \in Ids  BY <1>2, StateIs
  <2>2. mo[k] = IF k \in P /\ b.dir # "stasis" THEN [b EXCEPT !.old = b.dir, !.dir = "stasis"] ELSE b
    BY <2>1
  <2> HIDE DEF mo, b
  <2>3. CASE k \in P /\ b.dir # "stasis"
    <3>1. mo[k] = [b EXCEPT !.old = b.dir, !.dir = "stasis"]  BY <2>2, <2>3
    <3>2. "stasis" \in Dirs /\ b.dir \in Dirs  BY <2>1 DEF Body, Dirs
    <3> QED  BY <2>1, <2>3, <3>1, <3>2 DEF Body, b
  <2>4. CASE ~ (k \in P /\ b.dir # "stasis")  BY <2>1, <2>2, <2>4 DEF b
  <2> QED  BY <2>3, <2>4
<1>4. ASSUME NEW k \in Ids \ Alive(v)  PROVE mo[k] = Gone
  <2>1. v.mover[k] = Gone /\ k \notin P  BY <1>1 DEF Alive
  <2> QED  BY <2>1
<1>5. mo \in [Ids -> Body \cup {Gone}]
  <2>1. \A k \in Ids : mo[k] \in Body \cup {Gone}
    <3> HIDE DEF mo
    <3> QED  BY <1>3, <1>4
  <2> QED  BY <2>1
<1> HIDE DEF mo
<1>6. Good([v EXCEPT !.mover = mo])  BY <1>3, <1>4, <1>5, ManyGood
<1> QED  BY <1>6 DEF mo

-----------------------------------------------------------------------------
(* The lines.                                                              *)

\* Where a ceiling's line is, no tag is in the way of another thinker.
LEMMA CeilingsAlone ==
  ASSUME level \in Levels, NEW l \in level.lines, l.op = "ceiling"
  PROVE  TaggedSectors \cap Overwritten = {}
<1> SUFFICES ASSUME NEW s \in TaggedSectors, s \in Overwritten  PROVE FALSE  OBVIOUS
<1>1. CASE \E k \in level.lines : k.op = "own" /\ k.type = "open" /\ s = k.face[1]
  BY <1>1, LevelIs
<1>2. CASE \E k \in level.lines : k.op = "donut" /\ s = level.ring
  <2>1. Len(level.tagged) = 1 /\ level.ring # level.tagged[1]  BY <1>2, LevelIs
  <2>2. DOMAIN level.tagged = 1 .. 1
    <3>1. level.tagged \in Seq(1 .. Last0)  BY LevelIs
    <3> QED  BY <2>1, <3>1, LenProperties
  <2>3. TaggedSectors = {level.tagged[i] : i \in DOMAIN level.tagged}
    BY DEF TaggedSectors, ToSet
  <2>4. s = level.tagged[1]  BY <2>2, <2>3
  <2> QED  BY <1>2, <2>1, <2>4
<1>3. \/ \E k \in level.lines : k.op = "own" /\ k.type = "open" /\ s = k.face[1]
      \/ \E k \in level.lines : k.op = "donut" /\ s = level.ring
  BY DEF Overwritten
<1> QED  BY <1>1, <1>2, <1>3

\* The ids that no thinker has, counted.
LEMMA Unused ==
  ASSUME NEW v
  PROVE  /\ Cardinality(Ids \ Alive(v)) = Cardinality(Ids) - Cardinality(Alive(v))
         /\ Cardinality(Ids) \in Nat /\ Cardinality(Alive(v)) \in Nat
<1>1. IsFiniteSet(Ids) /\ Cardinality(Ids) \in Nat /\ Alive(v) \in SUBSET Ids
      /\ Cardinality(Alive(v)) \in Nat
  BY IdsFinite, AliveFinite
<1>2. Cardinality(Ids \ Alive(v)) = Cardinality(Ids) - Cardinality(Ids \cap Alive(v))
  BY <1>1, FS_Difference
<1>3. Ids \cap Alive(v) = Alive(v)  BY <1>1
<1> QED  BY <1>1, <1>2, <1>3

\* With a thinker for every sector to spare there is room for those without.
LEMMA RoomIsEnough ==
  ASSUME level \in Levels, NEW v, Cardinality(Ids \ Alive(v)) >= Last0
  PROVE  Roomy(v)
<1>1. Last0 \in Nat  BY LevelIs
<1>2. Cardinality(Free(v)) \in Nat /\ Cardinality(Free(v)) <= Last0  BY FreeFinite
<1> QED  BY <1>1, <1>2, Unused DEF Roomy

\* Room depends on the thinkers and on specialdata alone.
LEMMA RoomyAsWas ==
  ASSUME NEW v, NEW r, Roomy(v), Alive(r) = Alive(v), r.data = v.data
  PROVE  Roomy(r)
  BY DEF Roomy, Free

\* A platform line.
LEMMA DoPlatGood ==
  ASSUME level \in Levels, NEW v, Good(v), v.error = "no", Roomy(v),
         NEW type \in LineTypes["plat"], NEW pick \in Picks
  PROVE  Good(EV_DoPlat(v, type, pick))
<1> DEFINE u == IF type = "perpetualRaise" THEN P_ActivateInStasis(v) ELSE v
           made == [s \in TaggedSectors |-> Plat(type, pick, v, s)]
<1>1. Good(P_ActivateInStasis(v)) /\ Roomy(P_ActivateInStasis(v))
  <2>1. /\ Good(P_ActivateInStasis(v)) /\ Alive(P_ActivateInStasis(v)) = Alive(v)
        /\ P_ActivateInStasis(v).data = v.data
    BY WakeGood DEF P_ActivateInStasis
  <2> QED  BY <2>1, RoomyAsWas
<1>2. Good(u) /\ Roomy(u)  BY <1>1
<1>3. Makes(made)
  <2>1. v \in State  BY DEF Good
  <2> QED  BY <2>1, PlatMakes
<1>4. EV_DoPlat(v, type, pick) = StartTagged(u, made)  BY DEF EV_DoPlat
<1> HIDE DEF u, made
<1> QED  BY <1>2, <1>3, <1>4, TaggedFree

\* A ceiling line.
LEMMA DoCeilingGood ==
  ASSUME level \in Levels, NEW v, Good(v), v.error = "no", Roomy(v),
         NEW type \in LineTypes["ceiling"], TaggedSectors \cap Overwritten = {}
  PROVE  Good(EV_DoCeiling(v, type))
<1> DEFINE u == IF type = "crushAndRaise" THEN P_ActivateInStasisCeiling(v) ELSE v
           made == [s \in TaggedSectors |-> Ceiling(type, v, s)]
<1>1. Good(P_ActivateInStasisCeiling(v)) /\ Roomy(P_ActivateInStasisCeiling(v))
  <2>1. /\ Good(P_ActivateInStasisCeiling(v)) /\ Alive(P_ActivateInStasisCeiling(v)) = Alive(v)
        /\ P_ActivateInStasisCeiling(v).data = v.data
    BY WakeGood DEF P_ActivateInStasisCeiling
  <2> QED  BY <2>1, RoomyAsWas
<1>2. Good(u) /\ Roomy(u)  BY <1>1
<1>3. Makes(made)
  <2>1. v \in State  BY DEF Good
  <2> QED  BY <2>1, CeilingMakes
<1>4. EV_DoCeiling(v, type) = StartTagged(u, made)  BY DEF EV_DoCeiling
<1> HIDE DEF u, made
<1> QED  BY <1>2, <1>3, <1>4, TaggedFree

\* A door line.
LEMMA DoDoorGood ==
  ASSUME level \in Levels, NEW v, Good(v), Roomy(v), NEW type \in LineTypes["door"]
  PROVE  Good(EV_DoDoor(v, type))
<1> DEFINE made == [s \in TaggedSectors |-> Door(type, v, s)]
<1>1. Makes(made)
  <2>1. v \in State  BY DEF Good
  <2> QED  BY <2>1, DoorMakes
<1>2. EV_DoDoor(v, type) = StartTagged(v, made)  BY DEF EV_DoDoor
<1> HIDE DEF made
<1> QED  BY <1>1, <1>2, TaggedFree

\* A floor line.
LEMMA DoFloorGood ==
  ASSUME level \in Levels, NEW v, Good(v), Roomy(v), NEW type \in LineTypes["floor"]
  PROVE  Good(EV_DoFloor(v, type))
<1> DEFINE made == [s \in TaggedSectors |-> Floor(type, v, s)]
<1>1. Makes(made)
  <2>1. v \in State  BY DEF Good
  <2> QED  BY <2>1, FloorMakes
<1>2. EV_DoFloor(v, type) = StartTagged(v, made)  BY DEF EV_DoFloor
<1> HIDE DEF made
<1> QED  BY <1>1, <1>2, TaggedFree

\* The use of a door's own line.
LEMMA OwnDoorGood ==
  ASSUME level \in Levels, NEW v, Good(v), Alive(v) # Ids, NEW player \in BOOLEAN,
         NEW l \in level.lines, l.op = "own"
  PROVE  Good(EV_VerticalDoor(v, l.type, l.face[1], player))
<1> DEFINE s == l.face[1]
           id == v.data[s]
           m == v.mover[id]
           r == EV_VerticalDoor(v, l.type, s, player)
<1>1. s \in 1 .. Last0 /\ s \in Sectors \ {0} /\ s \in Sectors /\ l.type \in {"normal", "open"}
  <2>1. s \in 1 .. Last0 /\ l.type \in LineTypes["own"]
    <3>1. l.type \in LineTypes[l.op] /\ (l.op = "own" => l.face[1] \in 1 .. Last0)  BY LevelIs
    <3> QED  BY <3>1
  <2>2. LineTypes["own"] = {"normal", "open"}  BY DEF LineTypes
  <2>3. Sectors \ {0} = 1 .. Last0  BY LevelIs
  <2> HIDE DEF s
  <2> QED  BY <2>1, <2>2, <2>3
<1>2. v \in State  BY DEF Good
<1>3. CASE l.type = "open" \/ id = NoMover
  <2> DEFINE d == Door(l.type, v, s)
  <2>1. d \in Body /\ d.sec = s /\ d.dir # "stasis" /\ d.kind = "door"
    <3>1. l.type \in LineTypes["door"]  BY <1>1 DEF LineTypes
    <3> HIDE DEF s
    <3> QED  BY <1>1, <1>2, <3>1, DoorIs
  <2>2. l.type = "open" => s \in Overwritten  BY DEF Overwritten
  <2>3. MayStart(v, d)
    <3> HIDE DEF d, s
    <3> QED  BY <1>3, <2>1, <2>2 DEF MayStart
  <2>4. r = Start(v, d)  BY <1>3 DEF EV_VerticalDoor
  <2> HIDE DEF d
  <2>5. Good(Start(v, d))  BY <2>3, StartGood
  <2> QED  BY <2>4, <2>5
<1>4. CASE ~ (l.type = "open" \/ id = NoMover)
  <2>1. id \in Alive(v)  BY <1>1, <1>4 DEF Good, Points
  <2>2. {"up", "down"} \subseteq Dirs \ {"stasis"}  BY DEF Dirs
  <2>3. \/ r = v
        \/ r = [v EXCEPT !.mover[id].wait = 1] \/ r = [v EXCEPT !.mover[id].wait = -1]
        \/ r = [v EXCEPT !.mover[id].dir = "up"] \/ r = [v EXCEPT !.mover[id].dir = "down"]
    BY <1>4 DEF EV_VerticalDoor, Turn
  <2> HIDE DEF r, id
  <2>4. CASE r = [v EXCEPT !.mover[id].wait = 1] \/ r = [v EXCEPT !.mover[id].wait = -1]
    <3>1. Tuned(v, r, id)  BY <1>2, <2>1, <2>4, TuneField
    <3> QED  BY <2>1, <3>1, TunedGood DEF r
  <2>5. CASE r = [v EXCEPT !.mover[id].dir = "up"] \/ r = [v EXCEPT !.mover[id].dir = "down"]
    <3>1. Tuned(v, r, id)  BY <1>2, <2>1, <2>2, <2>5, TuneField
    <3> QED  BY <2>1, <3>1, TunedGood DEF r
  <2>6. CASE r = v  BY <2>6 DEF r
  <2> QED  BY <2>3, <2>4, <2>5, <2>6
<1> QED  BY <1>3, <1>4
\* A donut's fold is one step: a hole, and the ring around it.
LEMMA DonutIs ==
  ASSUME NEW v, DOMAIN level.tagged = {1}
  PROVE  EV_DoDonut(v) =
           IF v.data[level.tagged[1]] # NoMover THEN v
           ELSE Start(Start(v, Mover("floor", "donutRaise", level.ring, "up", 0, v.floor[0], Wait)),
                      Mover("floor", "lowerFloor", level.tagged[1], "down", 0, v.floor[0], Wait))
<1> DEFINE Op(u, s) ==
             IF u.data[s] # NoMover THEN u
             ELSE Start(Start(u, Mover("floor", "donutRaise", level.ring, "up", 0, u.floor[0], Wait)),
                        Mover("floor", "lowerFloor", s, "down", 0, u.floor[0], Wait))
           D == SUBSET (DOMAIN level.tagged)
           it[s \in D] == IF s = {} THEN v ELSE LET x == Max(s) IN Op(it[s \ {x}], level.tagged[x])
           Val(g, s) == IF s = {} THEN v ELSE LET x == Max(s) IN Op(g[s \ {x}], level.tagged[x])
           P(g) == g = [s \in D |-> Val(g, s)]
           f == [s \in D |-> IF s = {} THEN v ELSE Op(v, level.tagged[1])]
<1>1. EV_DoDonut(v) = it[DOMAIN level.tagged]
  BY DEF EV_DoDonut, FoldLeft, MapThenFoldSet
<1>2. D = {{}, {1}} /\ {1} # {} /\ {1} \ {1} = {}  OBVIOUS
<1>3. Max({1}) = 1
  <2>1. \E x \in {1} : \A y \in {1} : x >= y  OBVIOUS
  <2>2. Max({1}) \in {1}  BY <2>1 DEF Max
  <2> QED  BY <2>2
<1>4. P(f)
  <2>1. \A s \in D : f[s] = Val(f, s)
    <3> TAKE s \in D
    <3>1. f[{}] = v /\ f[{1}] = Op(v, level.tagged[1])
      <4> HIDE DEF Op
      <4> QED  BY <1>2
    <3>2. CASE s = {}  BY <3>1, <3>2
    <3>3. CASE s = {1}
      <4> HIDE DEF Op, f
      <4> QED  BY <1>2, <1>3, <3>1, <3>3
    <3> QED  BY <1>2, <3>2, <3>3
  <2> HIDE DEF Val, Op, D
  <2> QED  BY <2>1
<1>5. P(CHOOSE g : P(g))
  <2> HIDE DEF P
  <2> QED  BY <1>4, Zenon
<1>6. P(it)  BY <1>5, Zenon
<1>7. \A s \in D : it[s] = Val(it, s)
  <2> HIDE DEF it, Val, D
  <2> QED  BY <1>6
<1> HIDE DEF it, Op, D
<1>8. it[{}] = v  BY <1>2, <1>7
<1>9. it[{1}] = Op(v, level.tagged[1])  BY <1>2, <1>3, <1>7, <1>8
<1>10. EV_DoDonut(v) = Op(v, level.tagged[1])  BY <1>1, <1>9
<1> QED  BY <1>10 DEF Op

\* A donut line: two movers, the ring whatever it is doing.
LEMMA DonutGood ==
  ASSUME level \in Levels, NEW v, Good(v), Cardinality(Ids \ Alive(v)) >= Last0,
         NEW l \in level.lines, l.op = "donut"
  PROVE  Good(EV_DoDonut(v))
<1> DEFINE s == level.tagged[1]
           ring == Mover("floor", "donutRaise", level.ring, "up", 0, v.floor[0], Wait)
           hole == Mover("floor", "lowerFloor", s, "down", 0, v.floor[0], Wait)
           u == Start(v, ring)
<1>1. Len(level.tagged) = 1 /\ level.ring \in 1 .. Last0 /\ level.ring # s  BY LevelIs
<1>2. DOMAIN level.tagged = {1}
  <2>1. DOMAIN level.tagged = 1 .. 1
    <3>1. level.tagged \in Seq(1 .. Last0)  BY LevelIs
    <3> QED  BY <1>1, <3>1, LenProperties
  <2> QED  BY <2>1
<1>3. s \in 1 .. Last0 /\ s \in Sectors /\ level.ring \in Sectors
      /\ s \in Sectors \ {0} /\ level.ring \in Sectors \ {0}
  <2>1. s \in TaggedSectors  BY <1>2, LevelIs
  <2>2. s \in 1 .. Last0  BY <2>1, LevelIs
  <2> HIDE DEF s
  <2> QED  BY <1>1, <2>2, LevelIs
<1>4. EV_DoDonut(v) = IF v.data[s] # NoMover THEN v ELSE Start(u, hole)  BY <1>2, DonutIs
<1>5. CASE v.data[s] # NoMover  BY <1>4, <1>5
<1>6. CASE v.data[s] = NoMover
  <2>1. v \in State  BY DEF Good
  <2>2. v.floor[0] \in Int /\ Wait \in Int /\ 0 \in Int
    <3>1. v.floor[0] \in Int  BY <1>3, <2>1, FindsHeights
    <3> QED  BY <3>1, MoversAssumption
  <2>3. "floor" \in Kinds /\ {"up", "down"} \subseteq Dirs /\ {"donutRaise", "lowerFloor"} \subseteq Types
    BY DEF Kinds, Dirs, Types
  <2>4. ring \in Body /\ ring.sec = level.ring /\ ring.dir = "up" /\ ring.kind = "floor"
    BY <1>3, <2>2, <2>3, MoverBody
  <2>5. hole \in Body /\ hole.sec = s /\ hole.dir = "down" /\ hole.kind = "floor"
    <3> HIDE DEF s
    <3> QED  BY <1>3, <2>2, <2>3, MoverBody
  <2> HIDE DEF ring, hole
  <2>6. MayStart(v, ring)
    <3>1. level.ring \in Overwritten  BY DEF Overwritten
    <3> QED  BY <2>4, <3>1 DEF MayStart
  <2>7. Last0 >= 2 /\ Last0 \in Nat
    <3>1. Last0 \in Nat  BY LevelIs
    <3> HIDE DEF s
    <3> QED  BY <1>1, <1>3, <3>1
  <2>8. Cardinality(Alive(v)) + 2 <= Cardinality(Ids) /\ Cardinality(Alive(v)) \in Nat
        /\ IsFiniteSet(Alive(v)) /\ Cardinality(Ids) \in Nat
    <3>1. Cardinality(Alive(v)) + 2 <= Cardinality(Ids)  BY <2>7, Unused
    <3> QED  BY <3>1, Unused, AliveFinite
  <2>9. Alive(v) # Ids  BY <2>8
  <2>10. /\ Good(u)
         /\ Fresh(v) \in Ids \ Alive(v) /\ Alive(u) = Alive(v) \cup {Fresh(v)}
         /\ u.data = [v.data EXCEPT ![ring.sec] = Fresh(v)]
    BY <2>6, <2>9, StartGood
  <2> HIDE DEF u
  <2>11. Alive(u) # Ids
    <3>1. Cardinality(Alive(u)) = Cardinality(Alive(v)) + 1  BY <2>8, <2>10, FS_AddElement
    <3> QED  BY <2>8, <3>1
  <2>12. u.data[s] = NoMover
    <3>1. v.data \in [Sectors -> Ids \cup {NoMover}]  BY <2>1, StateIs
    <3> QED  BY <1>1, <1>3, <1>6, <2>4, <2>10, <3>1
  <2>13. MayStart(u, hole)  BY <2>5, <2>12 DEF MayStart
  <2>14. Good(Start(u, hole))  BY <2>10, <2>11, <2>13, StartGood
  <2> QED  BY <1>4, <1>6, <2>14
<1> QED  BY <1>5, <1>6
-----------------------------------------------------------------------------
(* Staircases.                                                             *)

\* A function on 1..n is a sequence.
LEMMA TypedSeq ==
  ASSUME NEW S, NEW n \in Nat, NEW e \in [1 .. n -> S]
  PROVE  e \in Seq(S) /\ Len(e) = n
<1>1. e \in Seq(S)  BY SeqDef
<1>2. Len(e) \in Nat /\ DOMAIN e = 1 .. Len(e)  BY <1>1, LenProperties
<1>3. DOMAIN e = 1 .. n  OBVIOUS
<1> QED  BY <1>1, <1>2, <1>3

\* Sectors one after another, each once, and none with a mover.
Run(v, run) ==
  /\ run \in Seq(1 .. Last0) /\ Len(run) >= 1
  /\ \A i \in 1 .. Len(run) : v.data[run[i]] = NoMover
  /\ \A i, j \in 1 .. Len(run) : run[i] = run[j] => i = j

\* The steps that a flight has: the first, and of the stairs those before a busy one.
LEMMA FlightIs ==
  ASSUME level \in Levels, NEW v, NEW s \in TaggedSectors, v.data[s] = NoMover
  PROVE  Run(v, Flight(v, s))
<1> DEFINE steps == <<s>> \o level.stairs
           I == {i \in 1 .. Len(steps) : v.data[steps[i]] # NoMover}
           busy == IF I # {} THEN Min(I) ELSE 0
           n == Len(steps)
<1>1. s \in 1 .. Last0 /\ <<s>> \in Seq(1 .. Last0) /\ Len(<<s>>) = 1 /\ <<s>>[1] = s
      /\ level.stairs \in Seq(1 .. Last0)
  <2>1. s \in 1 .. Last0 /\ level.stairs \in Seq(1 .. Last0)  BY LevelIs
  <2> QED  BY <2>1
<1>2. /\ steps \in Seq(1 .. Last0) /\ n = 1 + Len(level.stairs) /\ Len(level.stairs) \in Nat
      /\ steps[1] = s /\ \A i \in 2 .. n : steps[i] = level.stairs[i - 1]
  <2>1. Len(level.stairs) \in Nat  BY <1>1, LenProperties
  <2>2. /\ steps \in Seq(1 .. Last0) /\ n = 1 + Len(level.stairs)
        /\ \A i \in 1 .. 1 + Len(level.stairs) :
             steps[i] = IF i <= 1 THEN <<s>>[i] ELSE level.stairs[i - 1]
    BY <1>1, ConcatProperties
  <2> HIDE DEF steps, n
  <2>3. steps[1] = s  BY <1>1, <2>1, <2>2
  <2>4. \A i \in 2 .. n : steps[i] = level.stairs[i - 1]  BY <2>1, <2>2
  <2> QED  BY <2>1, <2>2, <2>3, <2>4
<1>3. \A i, j \in 1 .. n : steps[i] = steps[j] => i = j
  <2>1. DOMAIN level.stairs = 1 .. Len(level.stairs)  BY <1>1, LenProperties
  <2>2. \A i, j \in DOMAIN level.stairs : level.stairs[i] = level.stairs[j] => i = j
    BY LevelIs DEF IsInjective
  <2>3. \A i \in DOMAIN level.stairs : level.stairs[i] # s
    <3>1. ToSet(level.stairs) \cap TaggedSectors = {}  BY LevelIs
    <3>2. \A i \in DOMAIN level.stairs : level.stairs[i] \in ToSet(level.stairs)  BY DEF ToSet
    <3> QED  BY <3>1, <3>2
  <2> TAKE i, j \in 1 .. n
  <2> HAVE steps[i] = steps[j]
  <2> HIDE DEF steps, n
  <2>4. i = 1 \/ (i \in 2 .. n /\ i - 1 \in DOMAIN level.stairs)  BY <1>2, <2>1
  <2>5. j = 1 \/ (j \in 2 .. n /\ j - 1 \in DOMAIN level.stairs)  BY <1>2, <2>1
  <2>6. CASE i = 1 /\ j = 1  BY <2>6
  <2>7. CASE i = 1 /\ j # 1
    <3>1. level.stairs[j - 1] = s  BY <1>2, <2>5, <2>7
    <3> QED  BY <2>3, <2>5, <2>7, <3>1
  <2>8. CASE i # 1 /\ j = 1
    <3>1. level.stairs[i - 1] = s  BY <1>2, <2>4, <2>8
    <3> QED  BY <2>3, <2>4, <2>8, <3>1
  <2>9. CASE i # 1 /\ j # 1
    <3>1. level.stairs[i - 1] = level.stairs[j - 1]  BY <1>2, <2>4, <2>5, <2>9
    <3>2. i - 1 = j - 1  BY <2>2, <2>4, <2>5, <2>9, <3>1
    <3> QED  BY <3>2
  <2> QED  BY <2>6, <2>7, <2>8, <2>9
<1>4. Flight(v, s) = IF busy = 0 THEN steps ELSE SubSeq(steps, 1, busy - 1)
  BY DEF Flight, SelectInSeq
<1>5. n \in Nat /\ n >= 1 /\ DOMAIN steps = 1 .. n /\ \A i \in 1 .. n : steps[i] \in 1 .. Last0
  <2>1. n \in Nat /\ DOMAIN steps = 1 .. n /\ steps \in [1 .. n -> 1 .. Last0]
    BY <1>2, LenProperties
  <2>2. n >= 1
    <3> HIDE DEF n
    <3> QED  BY <1>2
  <2> HIDE DEF steps, n
  <2> QED  BY <2>1, <2>2
<1>6. I \in SUBSET (1 .. n) /\ 1 \notin I
  <2>1. v.data[steps[1]] = NoMover
    <3> HIDE DEF steps
    <3> QED  BY <1>2
  <2> HIDE DEF steps
  <2> QED  BY <2>1
<1>7. CASE I = {}
  <2>1. Flight(v, s) = steps
    <3> HIDE DEF I, steps
    <3> QED  BY <1>4, <1>7
  <2>2. \A i \in 1 .. n : v.data[steps[i]] = NoMover
    <3> HIDE DEF steps
    <3> QED  BY <1>7
  <2> HIDE DEF steps
  <2> QED  BY <1>2, <1>3, <1>5, <2>1, <2>2 DEF Run
<1>8. CASE I # {}
  <2> DEFINE b == Min(I)
  <2>1. b \in I /\ \A i \in I : b <= i
    <3> HIDE DEF I, n
    <3> QED  BY <1>5, <1>6, <1>8, MinIn
  <2>2. b \in 2 .. n
    <3> HIDE DEF I, n, b
    <3> QED  BY <1>5, <1>6, <2>1
  <2>3. \A i \in 1 .. b - 1 : i \in 1 .. n /\ i \notin I
    <3> HIDE DEF I, n, b
    <3> QED  BY <1>5, <2>1, <2>2
  <2>4. \A i \in 1 .. b - 1 : v.data[steps[i]] = NoMover
    <3> HIDE DEF b, steps
    <3> QED  BY <2>3
  <2>5. Flight(v, s) = SubSeq(steps, 1, b - 1)
    <3> HIDE DEF I, steps
    <3> QED  BY <1>4, <1>8, <2>2
  <2> HIDE DEF b, steps, n, I
  <2> DEFINE run == SubSeq(steps, 1, b - 1)
  <2>6. b \in Int /\ b - 1 \in Int /\ 1 <= b - 1  BY <1>5, <2>2
  <2>7. /\ run \in Seq(1 .. Last0) /\ Len(run) = b - 1
        /\ \A i \in 1 .. b - 1 : run[i] = steps[i]
    <3>1. \A i \in 1 .. b - 1 : steps[i] \in 1 .. Last0  BY <1>5, <2>3
    <3>2. /\ run \in Seq(1 .. Last0)
          /\ Len(run) = IF 1 <= b - 1 THEN (b - 1) - 1 + 1 ELSE 0
          /\ \A i \in 1 .. (b - 1) - 1 + 1 : run[i] = steps[1 + i - 1]
      BY <2>6, <3>1, SubSeqProperties
    <3> HIDE DEF run
    <3>3. (b - 1) - 1 + 1 = b - 1 /\ \A i \in 1 .. b - 1 : 1 + i - 1 = i  BY <2>6
    <3> QED  BY <2>6, <3>2, <3>3
  <2> HIDE DEF run
  <2>8. Run(v, run)  BY <1>3, <2>3, <2>4, <2>6, <2>7 DEF Run
  <2> QED  BY <2>5, <2>8 DEF run
<1> QED  BY <1>7, <1>8

\* The movers of one flight.
LEMMA ClimbMakes ==
  ASSUME level \in Levels, NEW v \in Loose(None), NEW run, Run(v, run), NEW pick \in Picks
  PROVE  \E ms \in Seq(Body \cup {Gone}) :
           /\ Climb(v, run, pick) = StartEach(v, ms) /\ Len(ms) = Len(run)
           /\ \A i \in 1 .. Len(run) :
                ms[i] \in Body /\ ms[i].sec = run[i] /\ ms[i].dir = "up" /\ ms[i].kind = "floor"
<1> DEFINE first == v.floor[run[1]]
           ms == [i \in DOMAIN run |-> Step(run[i], first + i * Rise, pick)]
           n == Len(run)
<1>1. n \in Nat /\ DOMAIN run = 1 .. n /\ n >= 1 /\ \A i \in 1 .. n : run[i] \in 1 .. Last0
  BY LenProperties DEF Run
<1>2. \A i \in 1 .. n : run[i] \in Sectors /\ run[i] \in Sectors \ {0}  BY <1>1, LevelIs
<1>3. first \in Int
  <2>1. v.floor \in [Sectors -> Int]  BY DEF Loose
  <2> QED  BY <1>1, <1>2, <2>1
<1>4. Rise \in Int /\ Wait \in Int  BY MoversAssumption
<1>5. Climb(v, run, pick) = StartEach(v, ms)  BY DEF Climb
<1> HIDE DEF first
<1>6. \A i \in 1 .. n : /\ ms[i] \in Body /\ ms[i].sec = run[i]
                        /\ ms[i].dir = "up" /\ ms[i].kind = "floor"
  <2> TAKE i \in 1 .. n
  <2> DEFINE m == Mover("floor", "step", run[i], "up", 0, first + i * Rise, Wait)
             b == pick[run[i]] > 0
  <2>1. ms[i] = [m EXCEPT !.crush = b]  BY <1>1 DEF Step
  <2>2. first + i * Rise \in Int /\ i \in Int
    <3>1. i \in Int  BY <1>1
    <3> QED  BY <1>3, <1>4, <3>1
  <2>3. "floor" \in Kinds /\ "step" \in Types /\ "up" \in Dirs /\ 0 \in Int
    BY DEF Kinds, Types, Dirs
  <2>4. m \in Body /\ m.kind = "floor" /\ m.sec = run[i] /\ m.dir = "up"
    BY <1>2, <1>4, <2>2, <2>3, MoverBody
  <2>5. b \in BOOLEAN  OBVIOUS
  <2> HIDE DEF m, b, ms
  <2> QED  BY <2>1, <2>4, <2>5, CrushBody
<1>7. ms \in [1 .. n -> Body \cup {Gone}]
  <2>1. ms = [i \in 1 .. n |-> ms[i]]
    <3>1. ms = [i \in DOMAIN run |-> ms[i]]  OBVIOUS
    <3> HIDE DEF ms
    <3> QED  BY <1>1, <3>1
  <2> HIDE DEF ms
  <2> QED  BY <1>6, <2>1
<1> HIDE DEF ms
<1>8. ms \in Seq(Body \cup {Gone}) /\ Len(ms) = n  BY <1>1, <1>7, TypedSeq
<1> QED  BY <1>5, <1>6, <1>8

\* A flight leaves a loose state, room or not.
LEMMA ClimbLoose ==
  ASSUME level \in Levels, NEW v \in Loose(None), NEW run, Run(v, run), NEW pick \in Picks
  PROVE  Climb(v, run, pick) \in Loose(None)
<1>1. PICK ms \in Seq(Body \cup {Gone}) : Climb(v, run, pick) = StartEach(v, ms)  BY ClimbMakes
<1>2. PICK h : EachTrace(h, v, ms)  BY EachTraced
<1>3. Len(ms) \in 0 .. Len(ms)  BY LenProperties
<1>4. h[Len(ms)] \in Loose(None)  BY <1>2, <1>3 DEF EachTrace
<1> QED  BY <1>1, <1>2, <1>4 DEF EachTrace

\* A flight keeps the tables right.
LEMMA ClimbGood ==
  ASSUME level \in Levels, NEW v, Good(v), Roomy(v), NEW run, Run(v, run), NEW pick \in Picks
  PROVE  Good(Climb(v, run, pick)) /\ Roomy(Climb(v, run, pick))
<1>1. v \in Loose(None)  BY StateIsLoose DEF Good
<1>2. PICK ms \in Seq(Body \cup {Gone}) :
        /\ Climb(v, run, pick) = StartEach(v, ms) /\ Len(ms) = Len(run)
        /\ \A i \in 1 .. Len(run) :
             ms[i] \in Body /\ ms[i].sec = run[i] /\ ms[i].dir = "up" /\ ms[i].kind = "floor"
  BY <1>1, ClimbMakes
<1>3. \A i \in 1 .. Len(ms) : ms[i] # Gone => MayStart(v, ms[i]) /\ v.data[ms[i].sec] = NoMover
  BY <1>2 DEF Run, MayStart
<1>4. \A i, j \in 1 .. Len(ms) :
        ms[i] # Gone /\ ms[j] # Gone /\ ms[i].sec = ms[j].sec => i = j
  BY <1>2 DEF Run
<1>5. Good(StartEach(v, ms)) /\ Roomy(StartEach(v, ms))  BY <1>3, <1>4, EachFree
<1> QED  BY <1>2, <1>5
\* What one tagged sector adds to a staircase.
StairsFrom(acc, s, pick) ==
  IF s > acc.at /\ acc.v.data[s] = NoMover
  THEN [v |-> Climb(acc.v, Flight(acc.v, s), pick), at |-> Last(Flight(acc.v, s))]
  ELSE acc

Stairway == [v : Loose(None), at : Int]

\* One step of the search for tagged sectors.
LEMMA StairsLoose ==
  ASSUME level \in Levels, NEW acc \in Stairway, NEW s \in TaggedSectors, NEW pick \in Picks
  PROVE  StairsFrom(acc, s, pick) \in Stairway
<1>1. CASE s > acc.at /\ acc.v.data[s] = NoMover
  <2> DEFINE u == acc.v
             run == Flight(u, s)
  <2>1. u \in Loose(None)  BY DEF Stairway
  <2>2. Run(u, run)
    <3>1. u.data[s] = NoMover  BY <1>1
    <3> HIDE DEF u
    <3> QED  BY <3>1, FlightIs
  <2>3. Climb(u, run, pick) \in Loose(None)
    <3> HIDE DEF u, run
    <3> QED  BY <2>1, <2>2, ClimbLoose
  <2>4. Last(run) \in Int
    <3> HIDE DEF run
    <3>1. run \in Seq(1 .. Last0) /\ Len(run) >= 1  BY <2>2 DEF Run
    <3>2. Len(run) \in 1 .. Len(run)  BY <3>1, LenProperties
    <3>3. run[Len(run)] \in 1 .. Last0  BY <3>1, <3>2, ElementOfSeq
    <3> QED  BY <3>3 DEF Last
  <2>5. StairsFrom(acc, s, pick) = [v |-> Climb(u, run, pick), at |-> Last(run)]
    BY <1>1 DEF StairsFrom
  <2> HIDE DEF u, run
  <2> QED  BY <2>3, <2>4, <2>5 DEF Stairway
<1>2. CASE ~ (s > acc.at /\ acc.v.data[s] = NoMover)  BY <1>2 DEF StairsFrom
<1> QED  BY <1>1, <1>2

\* The values EV_BuildStairs goes through.
StairsTrace(h, v, pick) ==
  /\ h \in [0 .. Len(level.tagged) -> Stairway] /\ h[0] = [v |-> v, at |-> 0]
  /\ h[Len(level.tagged)].v = EV_BuildStairs(v, pick)
  /\ \A k \in 1 .. Len(level.tagged) : h[k] = StairsFrom(h[k - 1], level.tagged[k], pick)

\* EV_BuildStairs, one tagged sector after another.
LEMMA StairsTraced ==
  ASSUME level \in Levels, NEW v \in Loose(None), NEW pick \in Picks
  PROVE  \E h : StairsTrace(h, v, pick)
<1> DEFINE n == Len(level.tagged)
           V == Stairway
           base == [v |-> v, at |-> 0]
           Op(acc, s) == IF s > acc.at /\ acc.v.data[s] = NoMover
                         THEN [v |-> Climb(acc.v, Flight(acc.v, s), pick),
                               at |-> Last(Flight(acc.v, s))]
                         ELSE acc
           F == [p \in (1 .. n) \X V |-> Op(p[2], level.tagged[p[1]])]
           it[s \in SUBSET (DOMAIN level.tagged)] ==
             IF s = {} THEN base ELSE LET x == Max(s) IN Op(it[s \ {x}], level.tagged[x])
<1>1. n \in Nat /\ DOMAIN level.tagged = 1 .. n /\ \A k \in 1 .. n : level.tagged[k] \in TaggedSectors
  BY LevelIs, LenProperties
<1>2. \A k \in 1 .. n, u \in V : Op(u, level.tagged[k]) \in V
  <2> TAKE k \in 1 .. n, u \in V
  <2>1. level.tagged[k] \in TaggedSectors  BY <1>1
  <2>2. StairsFrom(u, level.tagged[k], pick) \in V  BY <2>1, StairsLoose
  <2>3. StairsFrom(u, level.tagged[k], pick) = Op(u, level.tagged[k])  BY DEF StairsFrom
  <2> HIDE DEF Op
  <2> QED  BY <2>2, <2>3
<1>3. EV_BuildStairs(v, pick) = it[DOMAIN level.tagged].v
  BY DEF EV_BuildStairs, FoldLeft, MapThenFoldSet
<1>4. F \in [(1 .. n) \X V -> V]
  <2> HIDE DEF Op, n, V
  <2> QED  BY <1>2
<1>5. \A k \in 1 .. n, u \in V : F[<<k, u>>] = Op(u, level.tagged[k])
  <2> HIDE DEF Op, n, V
  <2> QED  OBVIOUS
<1>0. base \in V  BY DEF Stairway
<1> HIDE DEF F, base
<1>6. PICK f \in [SUBSET (1 .. n) -> V] :
        \A s \in SUBSET (1 .. n) : f[s] = IF s = {} THEN base ELSE F[<<Max(s), f[s \ {Max(s)}]>>]
  <2>1. \E f \in [SUBSET (1 .. n) -> V] : FoldsBy(f, n, base, F)
    <3>1. n \in Nat  BY <1>1
    <3> HIDE DEF V, n, Op
    <3> QED  BY <1>0, <1>4, <3>1, FoldExists
  <2> QED  BY <2>1 DEF FoldsBy
<1> DEFINE Val(g, s) == IF s = {} THEN base ELSE LET x == Max(s) IN Op(g[s \ {x}], level.tagged[x])
           P(g) == g = [s \in SUBSET (DOMAIN level.tagged) |-> Val(g, s)]
<1>7. \A s \in SUBSET (1 .. n) : s # {} => Max(s) \in 1 .. n /\ s \ {Max(s)} \in SUBSET (1 .. n)
  BY <1>1, MaxIn
<1>8. P(f)
  <2>1. \A s \in SUBSET (1 .. n) : f[s] = Val(f, s)
    <3> TAKE s \in SUBSET (1 .. n)
    <3>1. CASE s = {}  BY <1>6, <3>1
    <3>2. CASE s # {}
      <4>1. Max(s) \in 1 .. n /\ f[s \ {Max(s)}] \in V  BY <1>6, <1>7, <3>2
      <4> HIDE DEF Op, V, n
      <4> QED  BY <1>5, <1>6, <3>2, <4>1
    <3> QED  BY <3>1, <3>2
  <2> HIDE DEF Val, V, n
  <2> QED  BY <1>1, <1>6, <2>1
<1>9. P(CHOOSE g : P(g))
  <2> HIDE DEF P
  <2> QED  BY <1>8, Zenon
<1>10. P(it)  BY <1>9, Zenon
<1>11. \A s \in SUBSET (1 .. n) : it[s] = Val(it, s)
  <2> HIDE DEF it, Val, n
  <2> QED  BY <1>1, <1>10
<1> HIDE DEF it
<1>12. it[{}] = base
  <2>1. {} \in SUBSET (1 .. n)  OBVIOUS
  <2> QED  BY <1>11, <2>1
<1>13. \A s \in SUBSET (1 .. n) :
         s # {} /\ it[s \ {Max(s)}] \in V => it[s] = F[<<Max(s), it[s \ {Max(s)}]>>]
  <2> HIDE DEF Op, n, V
  <2> QED  BY <1>5, <1>7, <1>11
<1>14. PICK h \in [0 .. n -> V] : h[n] = it[1 .. n] /\ StepsBy(h, n, base, F)
  <2>1. n \in Nat  BY <1>1
  <2> HIDE DEF V, n, Op
  <2>2. FoldsWithin(it, n, V, base, F)  BY <1>12, <1>13 DEF FoldsWithin
  <2> QED  BY <1>0, <1>4, <2>1, <2>2, FoldSteps
<1>15. \A k \in 1 .. n : h[k] = StairsFrom(h[k - 1], level.tagged[k], pick)
  <2> TAKE k \in 1 .. n
  <2>1. h[k - 1] \in V  BY <1>1, <1>14
  <2>2. h[k] = Op(h[k - 1], level.tagged[k])
    <3> HIDE DEF Op, n, V
    <3> QED  BY <1>5, <1>14, <2>1 DEF StepsBy
  <2> QED  BY <2>2 DEF StairsFrom
<1>16. h[0] = base /\ h[n].v = EV_BuildStairs(v, pick)
  <2>1. h[0] = base  BY <1>14 DEF StepsBy
  <2>2. h[n].v = EV_BuildStairs(v, pick)
    <3> HIDE DEF n
    <3> QED  BY <1>1, <1>3, <1>14
  <2> QED  BY <2>1, <2>2
<1> QED  BY <1>14, <1>15, <1>16 DEF StairsTrace, base

\* A staircase line.
LEMMA StairsGood ==
  ASSUME level \in Levels, NEW v, Good(v), Roomy(v), NEW pick \in Picks
  PROVE  Good(EV_BuildStairs(v, pick))
<1>1. v \in Loose(None) /\ Len(level.tagged) \in Nat
  BY StateIsLoose, LevelIs, LenProperties DEF Good
<1>2. PICK h : StairsTrace(h, v, pick)  BY <1>1, StairsTraced
<1> DEFINE n == Len(level.tagged)
           T == {k \in 0 .. n : Good(h[k].v) /\ Roomy(h[k].v)}
<1>3. 0 \in T  BY <1>1, <1>2 DEF StairsTrace
<1>4. ASSUME NEW k \in 0 .. n - 1, k \in T  PROVE k + 1 \in T
  <2> DEFINE acc == h[k]
             u == acc.v
             s == level.tagged[k + 1]
             run == Flight(u, s)
  <2>1. k + 1 \in 1 .. n /\ (k + 1) - 1 = k /\ k + 1 \in 0 .. n  BY <1>1
  <2>2. h[k + 1] = StairsFrom(acc, s, pick)  BY <1>2, <2>1 DEF StairsTrace
  <2>3. Good(u) /\ Roomy(u)  BY <1>4
  <2>4. s \in TaggedSectors
    <3>1. DOMAIN level.tagged = 1 .. n  BY LevelIs, LenProperties
    <3> QED  BY <2>1, <3>1, LevelIs
  <2> HIDE DEF s, acc
  <2>5. CASE s > acc.at /\ u.data[s] = NoMover
    <3>1. Run(u, run)
      <4> HIDE DEF u
      <4> QED  BY <2>4, <2>5, FlightIs
    <3>2. h[k + 1] = [v |-> Climb(u, run, pick), at |-> Last(run)]
      BY <2>2, <2>5 DEF StairsFrom
    <3> HIDE DEF u, run
    <3>3. Good(Climb(u, run, pick)) /\ Roomy(Climb(u, run, pick))  BY <2>3, <3>1, ClimbGood
    <3>4. h[k + 1].v = Climb(u, run, pick)  BY <3>2
    <3> QED  BY <2>1, <3>3, <3>4
  <2>6. CASE ~ (s > acc.at /\ u.data[s] = NoMover)
    <3>1. h[k + 1] = acc  BY <2>2, <2>6 DEF StairsFrom
    <3> QED  BY <2>1, <2>3, <3>1
  <2> QED  BY <2>5, <2>6
<1>5. n \in T
  <2>1. \A k \in 0 .. n : k \in T
    <3> HIDE DEF T, n
    <3>1. n \in Nat  BY <1>1 DEF n
    <3> QED  BY <1>3, <1>4, <3>1, UpTo
  <2> QED  BY <1>1, <2>1
<1> QED  BY <1>2, <1>5 DEF StairsTrace
-----------------------------------------------------------------------------
(* A level's start, and a savegame.                                        *)

\* A level with no movers in it.
LEMMA NoMoversGood ==
  ASSUME level \in Levels, NEW fl \in [Sectors -> Int], NEW ce \in [Sectors -> Int]
  PROVE  LET v == NoMovers(fl, ce)
         IN  /\ Good(v) /\ Alive(v) = {} /\ Roomy(v)
             /\ \A s \in Sectors : v.data[s] = NoMover
<1> DEFINE v == NoMovers(fl, ce)
           da == [s \in Sectors |-> NoMover]
           mo == [id \in Ids |-> Gone]
<1>1. v = [floor |-> fl, ceil |-> ce, data |-> da, mover |-> mo,
           list |-> <<>>, plats |-> {}, ceilings |-> {}, error |-> "no"]
  BY DEF NoMovers
<1>2. /\ da \in [Sectors -> Ids \cup {NoMover}] /\ mo \in [Ids -> Body \cup {Gone}]
      /\ \A s \in Sectors : da[s] = NoMover
      /\ \A id \in Ids : mo[id] = Gone
  OBVIOUS
<1>3. <<>> \in Seq(Ids) /\ Len(<<>>) = 0  BY EmptySeq
<1> HIDE DEF v, da, mo
<1>4. v \in State  BY <1>1, <1>2, <1>3, StateOf
<1>5. Alive(v) = {}  BY <1>1, <1>2 DEF Alive
<1>6. Listed(v)
  <2>1. Cardinality({}) = 0  BY FS_EmptySet
  <2>2. v.list = <<>> /\ 1 .. Len(v.list) = {}  BY <1>1, <1>3
  <2> QED  BY <1>3, <1>5, <2>1, <2>2 DEF Listed
<1>7. Points(v) /\ Owned(v) /\ PlatsTrue(v) /\ CeilingsTrue(v) /\ Wakes(v)
  BY <1>1, <1>2, <1>5 DEF Points, Owned, PlatsTrue, CeilingsTrue, Wakes
<1>8. Good(v)  BY <1>1, <1>4, <1>6, <1>7 DEF Good
<1>9. Roomy(v)
  <2>1. Cardinality(Alive(v)) = 0  BY <1>5, FS_EmptySet
  <2>2. Cardinality(Free(v)) \in Nat /\ Cardinality(Free(v)) <= Last0 /\ Last0 <= Cardinality(Ids)
        /\ Last0 \in Nat /\ Cardinality(Ids) \in Nat
    BY FreeFinite, LevelIs, IdsFinite
  <2> QED  BY <2>1, <2>2 DEF Roomy
<1>10. \A s \in Sectors : v.data[s] = NoMover  BY <1>1, <1>2
<1> QED  BY <1>5, <1>8, <1>9, <1>10 DEF v

\* The doors of a level's start.
LEMMA FirstDoors ==
  ASSUME level \in Levels, NEW v \in State, NEW pick \in Picks, NEW s \in Sectors \ {0}
  PROVE  /\ LET m == P_SpawnDoorCloseIn30(s, pick)
            IN  m \in Body /\ m.sec = s /\ m.dir # "stasis" /\ m.kind = "door"
         /\ LET m == P_SpawnDoorRaiseIn5Mins(v, s)
            IN  m \in Body /\ m.sec = s /\ m.dir # "stasis" /\ m.kind = "door"
<1>1. pick[s] \in Int /\ Wait \in Int /\ 0 \in Int
  <2>1. Garbage \subseteq Int  BY MoversAssumption
  <2>2. pick[s] \in Garbage  BY DEF Picks
  <2>3. Wait \in Int  BY MoversAssumption
  <2>4. pick[s] \in Int  BY <2>1, <2>2
  <2> QED  BY <2>3, <2>4
<1>2. "door" \in Kinds /\ {"normal", "raiseIn5Mins"} \subseteq Types
      /\ {"waiting", "initial"} \subseteq Dirs
  BY DEF Kinds, Types, Dirs
<1>3. LET m == P_SpawnDoorCloseIn30(s, pick)
      IN  m \in Body /\ m.sec = s /\ m.dir # "stasis" /\ m.kind = "door"
  <2> DEFINE d == Mover("door", "normal", s, "waiting", 0, pick[s], pick[s])
  <2>1. d \in Body /\ d.kind = "door" /\ d.sec = s /\ d.dir = "waiting"
    BY <1>1, <1>2, MoverBody
  <2>2. P_SpawnDoorCloseIn30(s, pick) = [d EXCEPT !.count = Wait]  BY DEF P_SpawnDoorCloseIn30
  <2> HIDE DEF d
  <2> QED  BY <1>1, <2>1, <2>2 DEF Body
<1>4. LET m == P_SpawnDoorRaiseIn5Mins(v, s)
      IN  m \in Body /\ m.sec = s /\ m.dir # "stasis" /\ m.kind = "door"
  <2> DEFINE d == Door("normal", v, s)
  <2>1. d \in Body /\ d.kind = "door" /\ d.sec = s
    <3>1. "normal" \in LineTypes["door"]  BY DEF LineTypes
    <3> QED  BY <3>1, DoorIs
  <2>2. P_SpawnDoorRaiseIn5Mins(v, s) = [d EXCEPT !.type = "raiseIn5Mins", !.dir = "initial"]
    BY DEF P_SpawnDoorRaiseIn5Mins
  <2> HIDE DEF d
  <2> QED  BY <1>2, <2>1, <2>2 DEF Body
<1> QED  BY <1>3, <1>4

\* P_SpawnSpecials: a level with the doors it starts with.
LEMMA SpawnGood ==
  ASSUME level \in Levels, NEW pick \in Picks
  PROVE  Good(P_SpawnSpecials(NoMovers(level.floor, level.ceil), pick))
<1> DEFINE v == NoMovers(level.floor, level.ceil)
           At(s) == CASE level.special[s] = 10 -> P_SpawnDoorCloseIn30(s, pick)
                      [] level.special[s] = 14 -> P_SpawnDoorRaiseIn5Mins(v, s)
                      [] OTHER -> Gone
           ms == [s \in 1 .. Last0 |-> At(s)]
<1>1. Last0 \in Nat /\ Sectors \ {0} = 1 .. Last0  BY LevelIs
<1>2. level.floor \in [Sectors -> Int] /\ level.ceil \in [Sectors -> Int]  BY LevelIs
<1>3. Good(v) /\ Roomy(v) /\ \A s \in Sectors : v.data[s] = NoMover  BY <1>2, NoMoversGood
<1>4. P_SpawnSpecials(v, pick) = StartEach(v, ms)  BY DEF P_SpawnSpecials, Last0
<1> HIDE DEF v
<1>5. v \in State  BY <1>3 DEF Good
<1>6. \A s \in 1 .. Last0 :
        \/ At(s) = Gone
        \/ At(s) \in Body /\ At(s).sec = s /\ At(s).dir # "stasis" /\ At(s).kind = "door"
  <2> TAKE s \in 1 .. Last0
  <2>1. s \in Sectors \ {0}  BY <1>1
  <2>2. CASE level.special[s] = 10
    <3>1. At(s) = P_SpawnDoorCloseIn30(s, pick)  BY <2>2
    <3> HIDE DEF At
    <3> QED  BY <1>5, <2>1, <3>1, FirstDoors
  <2>3. CASE level.special[s] = 14
    <3>1. At(s) = P_SpawnDoorRaiseIn5Mins(v, s)  BY <2>3
    <3> HIDE DEF At
    <3> QED  BY <1>5, <2>1, <3>1, FirstDoors
  <2>4. CASE level.special[s] \notin {10, 14}  BY <2>4
  <2> QED  BY <2>2, <2>3, <2>4
<1>7. \A s \in 1 .. Last0 : ms[s] = At(s)  OBVIOUS
<1> HIDE DEF At
<1>8. ms \in [1 .. Last0 -> Body \cup {Gone}]  BY <1>6
<1> HIDE DEF ms
<1>9. ms \in Seq(Body \cup {Gone}) /\ Len(ms) = Last0  BY <1>1, <1>8, TypedSeq
<1>10. \A i \in 1 .. Len(ms) : ms[i] # Gone =>
         MayStart(v, ms[i]) /\ v.data[ms[i].sec] = NoMover /\ ms[i].sec = i
  <2> TAKE i \in 1 .. Len(ms)
  <2> HAVE ms[i] # Gone
  <2>1. i \in 1 .. Last0 /\ i \in Sectors  BY <1>1, <1>9
  <2>2. ms[i] \in Body /\ ms[i].sec = i /\ ms[i].dir # "stasis" /\ ms[i].kind = "door"
    BY <1>6, <1>7, <2>1
  <2>3. v.data[i] = NoMover  BY <1>3, <2>1
  <2> QED  BY <2>2, <2>3 DEF MayStart
<1>11. \A i, j \in 1 .. Len(ms) :
         ms[i] # Gone /\ ms[j] # Gone /\ ms[i].sec = ms[j].sec => i = j
  BY <1>10
<1>12. Good(StartEach(v, ms))  BY <1>3, <1>9, <1>10, <1>11, EachFree
<1> QED  BY <1>4, <1>12 DEF v

\* A load starts, in a level b without movers, those that were saved, in the order
\* of the list: ms, with Gone for the others.
LoadStarts(v, b, ms) ==
  /\ P_UnArchive(v) = StartEach(b, ms)
  /\ Good(b) /\ b.list = <<>> /\ ms \in Seq(Body \cup {Gone}) /\ Len(ms) = Len(v.list)
  /\ \A i \in 1 .. Len(v.list) :
       ms[i] = IF Archived(v, v.list[i]) THEN v.mover[v.list[i]] ELSE Gone
  /\ Cardinality(Alive(b)) + Len(ms) <= Cardinality(Ids)
  /\ \A i \in 1 .. Len(ms) : ms[i] # Gone => MayStart(b, ms[i])
  /\ \A i, j \in 1 .. Len(ms) :
       ms[i] # Gone /\ ms[j] # Gone /\ ms[i].sec = ms[j].sec
         /\ ms[i].sec \notin Overwritten => i = j

\* Which is what P_UnArchive does.
LEMMA UnArchiveIs ==
  ASSUME level \in Levels, NEW v, Good(v)
  PROVE  \E b, ms : LoadStarts(v, b, ms)
<1> DEFINE fl == [s \in Sectors |-> Saved(v.floor[s])]
           ce == [s \in Sectors |-> Saved(v.ceil[s])]
           b == NoMovers(fl, ce)
           list == v.list
           At(i) == IF Archived(v, list[i]) THEN v.mover[list[i]] ELSE Gone
           ms == [i \in DOMAIN v.list |-> At(i)]
           n == Len(list)
<1>1. v \in State  BY DEF Good
<1>2. \A h \in Int : Saved(h) \in Int
  <2> TAKE h \in Int
  <2>1. Grain \in Int /\ Grain > 0  BY MoversAssumption
  <2>2. h \div Grain \in Int  BY <2>1
  <2> QED  BY <2>1, <2>2 DEF Saved
<1>3. fl \in [Sectors -> Int] /\ ce \in [Sectors -> Int]  BY <1>1, <1>2, StateIs
<1>4. P_UnArchive(v) = StartEach(b, ms)  BY DEF P_UnArchive
<1> HIDE DEF fl, ce
<1>5. Good(b) /\ Alive(b) = {} /\ \A s \in Sectors : b.data[s] = NoMover  BY <1>3, NoMoversGood
<1> HIDE DEF b
<1>6. n \in Nat /\ DOMAIN list = 1 .. n /\ Listed(v)
  BY <1>1, StateIs, LenProperties DEF Good
<1>7. \A i \in 1 .. n : list[i] \in Alive(v) /\ v.mover[list[i]] \in Body
  BY <1>1, <1>6, StateIs DEF Listed
<1>8. \A i \in 1 .. n : ms[i] = At(i)  BY <1>6
<1>9. ms \in [1 .. n -> Body \cup {Gone}]  BY <1>6, <1>7
<1> HIDE DEF ms
<1>10. ms \in Seq(Body \cup {Gone}) /\ Len(ms) = n
  <2> HIDE DEF n
  <2> QED  BY <1>6, <1>9, TypedSeq
<1>11. \A i \in 1 .. n : ms[i] # Gone =>
         ms[i] = v.mover[list[i]] /\ Archived(v, list[i])
  BY <1>8
<1>12. Cardinality(Alive(b)) + Len(ms) <= Cardinality(Ids)
  <2>1. Cardinality(Alive(b)) = 0  BY <1>5, FS_EmptySet
  <2>2. Len(ms) = Cardinality(Alive(v))  BY <1>6, <1>10 DEF Listed
  <2>3. Cardinality(Alive(v)) <= Cardinality(Ids) /\ Cardinality(Alive(v)) \in Nat
    <3>1. Alive(v) \in SUBSET Ids /\ IsFiniteSet(Ids)  BY AliveFinite, IdsFinite
    <3>2. Cardinality(Alive(v)) <= Cardinality(Ids)  BY <3>1, FS_Subset
    <3> QED  BY <3>2, AliveFinite
  <2> QED  BY <2>1, <2>2, <2>3
<1>13. \A i \in 1 .. Len(ms) : ms[i] # Gone => MayStart(b, ms[i])
  <2> TAKE i \in 1 .. Len(ms)
  <2> HAVE ms[i] # Gone
  <2> DEFINE id == list[i]
             m == v.mover[id]
  <2>1. ms[i] = m /\ Archived(v, id) /\ id \in Alive(v) /\ m \in Body  BY <1>7, <1>10, <1>11
  <2>2. m.sec \in Sectors  BY <2>1 DEF Body
  <2>3. b.data[m.sec] = NoMover  BY <1>5, <2>2
  <2>4. m.kind = "ceiling" => m.sec \in TaggedSectors \ Overwritten
    BY <2>1 DEF Good, CeilingsTrue
  <2>5. m.dir = "stasis" => m.kind = "ceiling" /\ m.old # "stasis"
    <3> HAVE m.dir = "stasis"
    <3>1. id \in v.ceilings  BY <2>1 DEF Archived
    <3>2. m.kind = "ceiling"  BY <3>1 DEF Good, CeilingsTrue
    <3>3. m.old # "stasis"  BY <2>1 DEF Good, Wakes
    <3> QED  BY <3>2, <3>3
  <2> HIDE DEF m
  <2> QED  BY <2>1, <2>3, <2>4, <2>5 DEF MayStart
<1>14. \A i, j \in 1 .. Len(ms) :
         ms[i] # Gone /\ ms[j] # Gone /\ ms[i].sec = ms[j].sec /\ ms[i].sec \notin Overwritten =>
           i = j
  <2> TAKE i, j \in 1 .. Len(ms)
  <2> HAVE ms[i] # Gone /\ ms[j] # Gone /\ ms[i].sec = ms[j].sec /\ ms[i].sec \notin Overwritten
  <2>1. ms[i] = v.mover[list[i]] /\ list[i] \in Alive(v)  BY <1>7, <1>10, <1>11
  <2>2. ms[j] = v.mover[list[j]] /\ list[j] \in Alive(v)  BY <1>7, <1>10, <1>11
  <2>3. v.data[ms[i].sec] = list[i] /\ v.data[ms[j].sec] = list[j]  BY <2>1, <2>2 DEF Good, Owned
  <2>4. list[i] = list[j]  BY <2>3
  <2> QED  BY <1>6, <1>10, <2>4 DEF Listed
<1>15. ms \in Seq(Body \cup {Gone}) /\ Len(ms) = Len(v.list)
       /\ \A i \in 1 .. Len(v.list) :
            ms[i] = IF Archived(v, v.list[i]) THEN v.mover[v.list[i]] ELSE Gone
  BY <1>8, <1>10
<1>16. b.list = <<>> /\ P_UnArchive(v) = StartEach(b, ms)  BY <1>4 DEF b, NoMovers
<1>17. LoadStarts(v, b, ms)
  <2> HIDE DEF n, list, At
  <2> QED  BY <1>5, <1>12, <1>13, <1>14, <1>15, <1>16 DEF LoadStarts
<1> HIDE DEF n, list, At
<1> QED  BY <1>17

\* A load.
LEMMA UnArchiveGood ==
  ASSUME level \in Levels, NEW v, Good(v)
  PROVE  Good(P_UnArchive(v))
<1>1. PICK b, ms : LoadStarts(v, b, ms)  BY UnArchiveIs
<1>2. Good(StartEach(b, ms))  BY <1>1, EachBack DEF LoadStarts
<1> QED  BY <1>1, <1>2 DEF LoadStarts

\* What it leaves: each mover saved, where its place among them says.
LEMMA UnArchivePlaces ==
  ASSUME level \in Levels, NEW v, Good(v)
  PROVE  InPlace(P_UnArchive(v), {i \in 1 .. Len(v.list) : Archived(v, v.list[i])},
                 [i \in 1 .. Len(v.list) |-> v.mover[v.list[i]]])
<1> DEFINE K == {i \in 1 .. Len(v.list) : Archived(v, v.list[i])}
           ns == [i \in 1 .. Len(v.list) |-> v.mover[v.list[i]]]
<1>1. PICK b, ms : LoadStarts(v, b, ms)  BY UnArchiveIs
<1>2. \A i \in 1 .. Len(v.list) : v.mover[v.list[i]] # Gone
  BY DEF Good, Listed, Alive
<1>3. /\ Len(ms) = Len(v.list) /\ P_UnArchive(v) = StartEach(b, ms)
      /\ \A i \in 1 .. Len(v.list) :
           ms[i] = IF Archived(v, v.list[i]) THEN v.mover[v.list[i]] ELSE Gone
  BY <1>1 DEF LoadStarts
<1>4. K = {i \in 1 .. Len(ms) : ms[i] # Gone} /\ \A i \in K : ms[i] = ns[i]
  BY <1>2, <1>3
<1>5. InPlace(StartEach(b, ms), {i \in 1 .. Len(ms) : ms[i] # Gone}, ms)
  BY <1>1, EachPlaced DEF LoadStarts
<1> HIDE DEF K, ns
<1>6. InPlace(P_UnArchive(v), K, ns)  BY <1>3, <1>4, <1>5 DEF InPlace
<1> QED  BY <1>6 DEF K, ns
-----------------------------------------------------------------------------
(* A thinker that ends.                                                    *)

\* A list without its p-th element.
LEMMA WithoutIs ==
  ASSUME NEW list \in Seq(Ids), NEW p \in 1 .. Len(list),
         \A i, j \in 1 .. Len(list) : list[i] = list[j] => i = j
  PROVE  LET r == Without(list, list[p])
         IN  /\ r \in Seq(Ids) /\ Len(r) = Len(list) - 1
             /\ \A i \in 1 .. Len(list) - 1 : r[i] = IF i < p THEN list[i] ELSE list[i + 1]
<1> DEFINE n == Len(list)
           a == SubSeq(list, 1, p - 1)
           b == SubSeq(list, p + 1, n)
           r == Without(list, list[p])
<1>1. n \in Nat /\ DOMAIN list = 1 .. n /\ p \in 1 .. n /\ p \in Int /\ \A i \in 1 .. n : list[i] \in Ids
  BY LenProperties
<1>2. (CHOOSE i \in DOMAIN list : list[i] = list[p]) = p
  <2>1. p \in DOMAIN list /\ \A i \in DOMAIN list : list[i] = list[p] => i = p  BY <1>1
  <2> QED  BY <2>1
<1>3. r = a \o b  BY <1>2 DEF Without, RemoveAt
<1>4. /\ a \in Seq(Ids) /\ Len(a) = p - 1 /\ \A i \in 1 .. p - 1 : a[i] = list[i]
  <2>1. p - 1 \in Int /\ 1 \in Int /\ \A i \in 1 .. p - 1 : list[i] \in Ids
    <3> HIDE DEF n
    <3> QED  BY <1>1
  <2>2. /\ a \in Seq(Ids) /\ Len(a) = IF 1 <= p - 1 THEN (p - 1) - 1 + 1 ELSE 0
        /\ \A i \in 1 .. (p - 1) - 1 + 1 : a[i] = list[1 + i - 1]
    BY <2>1, SubSeqProperties
  <2> HIDE DEF a, n
  <2>3. (p - 1) - 1 + 1 = p - 1 /\ \A i \in 1 .. p - 1 : 1 + i - 1 = i  BY <1>1
  <2>4. Len(a) = p - 1  BY <1>1, <2>2
  <2> QED  BY <2>2, <2>3, <2>4
<1>5. /\ b \in Seq(Ids) /\ Len(b) = n - p /\ \A i \in 1 .. n - p : b[i] = list[p + i]
  <2>1. p + 1 \in Int /\ n \in Int /\ \A i \in p + 1 .. n : list[i] \in Ids
    <3> HIDE DEF n
    <3> QED  BY <1>1
  <2>2. /\ b \in Seq(Ids) /\ Len(b) = IF p + 1 <= n THEN n - (p + 1) + 1 ELSE 0
        /\ \A i \in 1 .. n - (p + 1) + 1 : b[i] = list[p + 1 + i - 1]
    BY <2>1, SubSeqProperties
  <2> HIDE DEF b, n
  <2>3. n - (p + 1) + 1 = n - p /\ \A i \in 1 .. n - p : p + 1 + i - 1 = p + i  BY <1>1
  <2>4. Len(b) = n - p  BY <1>1, <2>2
  <2> QED  BY <2>2, <2>3, <2>4
<1> HIDE DEF a, b, n, r
<1>6. /\ r \in Seq(Ids) /\ Len(r) = n - 1
      /\ \A i \in 1 .. n - 1 : r[i] = IF i <= p - 1 THEN a[i] ELSE b[i - (p - 1)]
  <2>1. /\ a \o b \in Seq(Ids) /\ Len(a \o b) = Len(a) + Len(b)
        /\ \A i \in 1 .. Len(a) + Len(b) : (a \o b)[i] =
                     IF i <= Len(a) THEN a[i] ELSE b[i - Len(a)]
    <3>1. a \in Seq(Ids) /\ b \in Seq(Ids)  BY <1>4, <1>5
    <3> QED  BY <3>1, ConcatProperties
  <2>2. Len(a) + Len(b) = n - 1  BY <1>1, <1>4, <1>5
  <2> QED  BY <1>3, <1>4, <2>1, <2>2
<1>7. \A i \in 1 .. n - 1 : r[i] = IF i < p THEN list[i] ELSE list[i + 1]
  <2> TAKE i \in 1 .. n - 1
  <2>1. CASE i < p
    <3>1. i \in 1 .. p - 1 /\ i <= p - 1  BY <1>1, <2>1
    <3> QED  BY <1>4, <1>6, <2>1, <3>1
  <2>2. CASE ~ (i < p)
    <3>1. i - (p - 1) \in 1 .. n - p /\ p + (i - (p - 1)) = i + 1 /\ ~ (i <= p - 1)
      BY <1>1, <2>2
    <3>2. r[i] = b[i - (p - 1)]  BY <1>6, <3>1
    <3>3. b[i - (p - 1)] = list[p + (i - (p - 1))]  BY <1>5, <3>1
    <3> QED  BY <2>2, <3>1, <3>2, <3>3
  <2> QED  BY <2>1, <2>2
<1> QED  BY <1>6, <1>7 DEF n, r

\* Its tables forget it, and its sector.
Ended(v, id) ==
  [floor |-> v.floor, ceil |-> v.ceil,
   data |-> [v.data EXCEPT ![v.mover[id].sec] = NoMover],
   mover |-> [v.mover EXCEPT ![id] = Gone], list |-> Without(v.list, id),
   plats |-> v.plats \ {id}, ceilings |-> v.ceilings \ {id}, error |-> v.error]

\* A mover comes to its end: the list, its sector and its table forget it.
LEMMA EndedGood ==
  ASSUME NEW v, Good(v), NEW id \in Alive(v)
  PROVE  Good(Ended(v, id))
<1> DEFINE r == Ended(v, id)
           m == v.mover[id]
           n == Len(v.list)
<1>1. v \in State /\ id \in Ids /\ Listed(v)  BY DEF Good, Alive
<1>2. m \in Body /\ m.sec \in Sectors  BY <1>1, StateIs DEF Body
<1>3. /\ r.floor = v.floor /\ r.ceil = v.ceil /\ r.data = [v.data EXCEPT ![m.sec] = NoMover]
      /\ r.mover = [v.mover EXCEPT ![id] = Gone] /\ r.list = Without(v.list, id)
      /\ r.plats = v.plats \ {id} /\ r.ceilings = v.ceilings \ {id} /\ r.error = v.error
  BY DEF Ended
<1>4. PICK p \in 1 .. n : v.list[p] = id  BY <1>1 DEF Listed
<1>5. /\ r.list \in Seq(Ids) /\ Len(r.list) = n - 1
      /\ \A i \in 1 .. n - 1 : r.list[i] = IF i < p THEN v.list[i] ELSE v.list[i + 1]
  <2>1. v.list \in Seq(Ids)  BY <1>1, StateIs
  <2>2. \A i, j \in 1 .. Len(v.list) : v.list[i] = v.list[j] => i = j  BY <1>1 DEF Listed
  <2>3. /\ Without(v.list, v.list[p]) \in Seq(Ids) /\ Len(Without(v.list, v.list[p])) = n - 1
        /\ \A i \in 1 .. n - 1 :
             Without(v.list, v.list[p])[i] = IF i < p THEN v.list[i] ELSE v.list[i + 1]
    BY <2>1, <2>2, WithoutIs
  <2> HIDE DEF r
  <2> QED  BY <1>3, <1>4, <2>3
<1>6. \A s \in Sectors : r.data[s] = IF s = m.sec THEN NoMover ELSE v.data[s]
  <2>1. v.data \in [Sectors -> Ids \cup {NoMover}]  BY <1>1, StateIs
  <2> HIDE DEF r, m
  <2> QED  BY <1>2, <1>3, <2>1
<1>7. \A k \in Ids : r.mover[k] = IF k = id THEN Gone ELSE v.mover[k]
  <2>1. v.mover \in [Ids -> Body \cup {Gone}]  BY <1>1, StateIs
  <2> HIDE DEF r
  <2> QED  BY <1>1, <1>3, <2>1
<1>8. r \in State
  <2>1. [v.data EXCEPT ![m.sec] = NoMover] \in [Sectors -> Ids \cup {NoMover}]  BY <1>1, StateIs
  <2>2. [v.mover EXCEPT ![id] = Gone] \in [Ids -> Body \cup {Gone}]  BY <1>1, StateIs
  <2>3. v.plats \ {id} \in SUBSET Ids /\ v.ceilings \ {id} \in SUBSET Ids  BY <1>1, StateIs
  <2>4. Without(v.list, id) \in Seq(Ids)  BY <1>3, <1>5
  <2> QED  BY <1>1, <2>1, <2>2, <2>3, <2>4, StateIs, StateOf DEF Ended
<1> HIDE DEF r
<1>9. Alive(r) = Alive(v) \ {id}  BY <1>7 DEF Alive
<1>10. \A k \in Alive(r) : k \in Alive(v) /\ k \in Ids /\ k # id /\ r.mover[k] = v.mover[k]
  BY <1>7, <1>9 DEF Alive
<1>11. Listed(r)
  <2>1. n \in Nat /\ p \in 1 .. n
    <3>1. v.list \in Seq(Ids)  BY <1>1, StateIs
    <3> QED  BY <3>1, LenProperties
  <2>2. /\ \A i \in 1 .. n : v.list[i] \in Alive(v)
        /\ \A k \in Alive(v) : \E i \in 1 .. n : v.list[i] = k
        /\ \A i, j \in 1 .. n : v.list[i] = v.list[j] => i = j
        /\ n = Cardinality(Alive(v))
    BY <1>1 DEF Listed
  <2> HIDE DEF n
  <2>3. \A i \in 1 .. n - 1 :
          \/ i < p /\ i \in 1 .. n /\ i # p /\ r.list[i] = v.list[i]
          \/ ~ (i < p) /\ i + 1 \in 1 .. n /\ i + 1 # p /\ r.list[i] = v.list[i + 1]
    BY <1>5, <2>1
  <2>4. \A i \in 1 .. n - 1 : r.list[i] \in Alive(r)
    <3> TAKE i \in 1 .. n - 1
    <3>1. PICK j \in 1 .. n : j # p /\ r.list[i] = v.list[j]  BY <2>3
    <3> QED  BY <1>4, <1>9, <2>1, <2>2, <3>1
  <2>5. \A k \in Alive(r) : \E i \in 1 .. n - 1 : r.list[i] = k
    <3> TAKE k \in Alive(r)
    <3>1. PICK j \in 1 .. n : v.list[j] = k  BY <1>10, <2>2
    <3>2. j # p  BY <1>4, <1>10, <3>1
    <3>3. CASE j < p
      <4>1. j \in 1 .. n - 1  BY <2>1, <3>3
      <4> QED  BY <1>5, <3>1, <3>3, <4>1
    <3>4. CASE ~ (j < p)
      <4>1. j - 1 \in 1 .. n - 1 /\ ~ (j - 1 < p) /\ (j - 1) + 1 = j  BY <2>1, <3>2, <3>4
      <4> QED  BY <1>5, <3>1, <4>1
    <3> QED  BY <3>3, <3>4
  <2>6. \A i, j \in 1 .. n - 1 : r.list[i] = r.list[j] => i = j
    <3> TAKE i, j \in 1 .. n - 1
    <3> HAVE r.list[i] = r.list[j]
    <3>1. CASE i < p /\ j < p  BY <2>2, <2>3, <3>1
    <3>2. CASE ~ (i < p) /\ ~ (j < p)
      <4>1. i + 1 = j + 1  BY <2>2, <2>3, <3>2
      <4> QED  BY <4>1
    <3>3. CASE i < p /\ ~ (j < p)
      <4>1. i = j + 1  BY <2>2, <2>3, <3>3
      <4> QED  BY <2>1, <3>3, <4>1
    <3>4. CASE ~ (i < p) /\ j < p
      <4>1. i + 1 = j  BY <2>2, <2>3, <3>4
      <4> QED  BY <2>1, <3>4, <4>1
    <3> QED  BY <3>1, <3>2, <3>3, <3>4
  <2>7. Cardinality(Alive(r)) = n - 1  BY <1>9, <2>2, AliveFinite, FS_RemoveElement
  <2> QED  BY <1>5, <2>4, <2>5, <2>6, <2>7 DEF Listed, n
<1>12. Points(r)
  <2> SUFFICES ASSUME NEW s \in Sectors, r.data[s] # NoMover
               PROVE  r.data[s] \in Alive(r) /\ r.mover[r.data[s]].sec = s
    BY DEF Points
  <2>1. s # m.sec /\ r.data[s] = v.data[s]  BY <1>6
  <2>2. v.data[s] \in Alive(v) /\ v.mover[v.data[s]].sec = s  BY <2>1 DEF Good, Points
  <2>3. v.data[s] # id  BY <2>1, <2>2
  <2> QED  BY <1>9, <1>10, <2>1, <2>2, <2>3
<1>13. Owned(r)
  <2> SUFFICES ASSUME NEW k \in Alive(r), r.mover[k].sec \notin Overwritten
               PROVE  r.data[r.mover[k].sec] = k
    BY DEF Owned
  <2>1. k \in Alive(v) /\ k # id /\ r.mover[k] = v.mover[k]  BY <1>10
  <2>2. v.data[v.mover[k].sec] = k  BY <2>1 DEF Good, Owned
  <2>3. v.mover[k].sec # m.sec
    <3>1. ASSUME v.mover[k].sec = m.sec  PROVE FALSE
      <4>1. m.sec \notin Overwritten  BY <2>1, <3>1
      <4>2. v.data[m.sec] = id  BY <4>1 DEF Good, Owned
      <4> QED  BY <2>1, <2>2, <3>1, <4>2
    <3> QED  BY <3>1
  <2>4. v.mover[k].sec \in Sectors
    <3>1. v.mover[k] \in Body  BY <1>1, <2>1, StateIs
    <3> QED  BY <3>1 DEF Body
  <2> QED  BY <1>6, <2>1, <2>2, <2>3, <2>4
<1>14. PlatsTrue(r)
  <2> SUFFICES ASSUME v.error = "no", NEW k \in Ids
               PROVE  k \in r.plats <=> k \in Alive(r) /\ r.mover[k].kind = "plat"
    BY <1>3 DEF PlatsTrue
  <2>1. k \in v.plats <=> k \in Alive(v) /\ v.mover[k].kind = "plat"  BY DEF Good, PlatsTrue
  <2> QED  BY <1>3, <1>9, <1>10, <2>1
<1>15. CeilingsTrue(r)
  <2>1. CeilingsTrue(v)  BY DEF Good
  <2>2. \A k \in r.ceilings : k \in Alive(r) /\ r.mover[k].kind = "ceiling"
    BY <1>3, <1>9, <1>10, <2>1 DEF CeilingsTrue
  <2>3. ~ Crowded => \A k \in Alive(r) : r.mover[k].kind = "ceiling" => k \in r.ceilings
    BY <1>3, <1>10, <2>1 DEF CeilingsTrue
  <2>4. \A k \in Alive(r) : r.mover[k].kind = "ceiling" =>
          r.mover[k].sec \in TaggedSectors \ Overwritten
    BY <1>10, <2>1 DEF CeilingsTrue
  <2> QED  BY <2>2, <2>3, <2>4 DEF CeilingsTrue
<1>16. Wakes(r)
  <2> SUFFICES ASSUME NEW k \in Alive(r), r.mover[k].dir = "stasis"
               PROVE  /\ k \in r.plats \/ k \in r.ceilings \/ (Crowded /\ r.mover[k].kind = "ceiling")
                      /\ r.mover[k].old # "stasis"
    BY DEF Wakes
  <2>1. k \in Alive(v) /\ k # id /\ r.mover[k] = v.mover[k]  BY <1>10
  <2>2. /\ k \in v.plats \/ k \in v.ceilings \/ (Crowded /\ v.mover[k].kind = "ceiling")
        /\ v.mover[k].old # "stasis"
    BY <2>1 DEF Good, Wakes
  <2> QED  BY <1>3, <2>1, <2>2
<1>17. r.error # "lost"  BY <1>3 DEF Good
<1>18. Good(r)  BY <1>8, <1>11, <1>12, <1>13, <1>14, <1>15, <1>16, <1>17 DEF Good
<1> QED  BY <1>18 DEF r

\* The three ways the code ends one.
LEMMA RemoveGood ==
  ASSUME NEW v, Good(v), v.error = "no", NEW id \in Alive(v)
  PROVE  /\ v.mover[id].kind \in {"door", "floor"} => Good(Detach(v, id))
         /\ v.mover[id].kind = "plat" => Good(P_RemoveActivePlat(v, id))
         /\ v.mover[id].kind = "ceiling" => Good(P_RemoveActiveCeiling(v, id))
<1> DEFINE d == Detach(v, id)
           da == [v.data EXCEPT ![v.mover[id].sec] = NoMover]
           mo == [v.mover EXCEPT ![id] = Gone]
           li == Without(v.list, id)
<1>1. v \in State /\ id \in Ids  BY DEF Good, Alive
<1>2. d = [floor |-> v.floor, ceil |-> v.ceil, data |-> da, mover |-> mo, list |-> li,
           plats |-> v.plats, ceilings |-> v.ceilings, error |-> v.error]
  <2> DEFINE a == [v EXCEPT !.mover = mo]
             b == [a EXCEPT !.list = li]
             c == [b EXCEPT !.data = da]
  <2>0. v = Fields(v)  BY <1>1, StateIs
  <2>1. d = c
    <3>1. a.list = v.list /\ b.data = v.data  BY <2>0 DEF Fields
    <3> QED  BY <2>0, <3>1 DEF Detach, Fields
  <2> HIDE DEF d, mo, li, da
  <2>2. a = [floor |-> v.floor, ceil |-> v.ceil, data |-> v.data, mover |-> mo, list |-> v.list,
             plats |-> v.plats, ceilings |-> v.ceilings, error |-> v.error]
    BY <2>0 DEF Fields
  <2> HIDE DEF a
  <2>3. b = [floor |-> v.floor, ceil |-> v.ceil, data |-> v.data, mover |-> mo, list |-> li,
             plats |-> v.plats, ceilings |-> v.ceilings, error |-> v.error]
    BY <2>2
  <2> HIDE DEF b
  <2> QED  BY <2>1, <2>3
<1>3. Good(Ended(v, id))  BY EndedGood
<1>4. id \in v.plats <=> v.mover[id].kind = "plat"  BY <1>1 DEF Good, PlatsTrue
<1>5. id \in v.ceilings => v.mover[id].kind = "ceiling"  BY DEF Good, CeilingsTrue
<1>6. Ended(v, id) = [floor |-> v.floor, ceil |-> v.ceil, data |-> da, mover |-> mo, list |-> li,
                      plats |-> v.plats \ {id}, ceilings |-> v.ceilings \ {id}, error |-> v.error]
  BY DEF Ended
<1> HIDE DEF d, da, mo, li
<1>7. CASE v.mover[id].kind \in {"door", "floor"}
  <2>1. v.plats \ {id} = v.plats /\ v.ceilings \ {id} = v.ceilings  BY <1>4, <1>5, <1>7
  <2>2. d = Ended(v, id)  BY <1>2, <1>6, <2>1
  <2> QED  BY <1>3, <1>7, <2>2 DEF d
<1>8. CASE v.mover[id].kind = "plat"
  <2>1. v.ceilings \ {id} = v.ceilings  BY <1>5, <1>8
  <2>2. P_RemoveActivePlat(v, id) = [d EXCEPT !.plats = d.plats \ {id}]
    BY <1>4, <1>8 DEF P_RemoveActivePlat, d
  <2>3. P_RemoveActivePlat(v, id) = Ended(v, id)  BY <1>2, <1>6, <2>1, <2>2
  <2> QED  BY <1>3, <1>8, <2>3
<1>9. CASE v.mover[id].kind = "ceiling"
  <2>1. v.plats \ {id} = v.plats  BY <1>4, <1>9
  <2>2. CASE id \in v.ceilings
    <3>1. P_RemoveActiveCeiling(v, id) = [d EXCEPT !.ceilings = d.ceilings \ {id}]
      BY <2>2 DEF P_RemoveActiveCeiling, d
    <3>2. P_RemoveActiveCeiling(v, id) = Ended(v, id)  BY <1>2, <1>6, <2>1, <3>1
    <3> QED  BY <1>3, <1>9, <3>2
  <2>3. CASE id \notin v.ceilings
    <3>1. P_RemoveActiveCeiling(v, id) = v  BY <2>3 DEF P_RemoveActiveCeiling
    <3> QED  BY <1>9, <3>1
  <2> QED  BY <2>2, <2>3
<1> QED  BY <1>7, <1>8, <1>9
-----------------------------------------------------------------------------
(* The thinkers.                                                           *)

\* A plane that moves has a height.
LEMMA PlaneInt ==
  ASSUME NEW h \in Int, NEW dest \in Int, NEW dir, NEW through, NEW stuck
  PROVE  T_MovePlane(h, dest, dir, through, stuck).h \in Int
  BY DEF T_MovePlane

\* One more field changes.
LEMMA TunedOn ==
  ASSUME NEW v \in State, NEW id \in Alive(v), NEW u, Tuned(v, u, id)
  PROVE  /\ \A d \in Dirs \ {"stasis"} : Tuned(v, [u EXCEPT !.mover[id].dir = d], id)
         /\ \A c \in Int : Tuned(v, [u EXCEPT !.mover[id].count = c], id)
         /\ \A t \in Types : Tuned(v, [u EXCEPT !.mover[id].type = t], id)
<1>1. u \in State /\ id \in Alive(u)  BY TunedAlive
<1>2. ASSUME NEW d \in Dirs \ {"stasis"}  PROVE Tuned(v, [u EXCEPT !.mover[id].dir = d], id)
  <2> DEFINE r == [u EXCEPT !.mover[id].dir = d]
  <2>1. Tuned(u, r, id)  BY <1>1, TuneField
  <2> HIDE DEF r
  <2>2. Tuned(v, r, id)  BY <2>1, TunedTwice
  <2> QED  BY <2>2 DEF r
<1>3. ASSUME NEW c \in Int  PROVE Tuned(v, [u EXCEPT !.mover[id].count = c], id)
  <2> DEFINE r == [u EXCEPT !.mover[id].count = c]
  <2>1. Tuned(u, r, id)  BY <1>1, TuneField
  <2> HIDE DEF r
  <2>2. Tuned(v, r, id)  BY <2>1, TunedTwice
  <2> QED  BY <2>2 DEF r
<1>4. ASSUME NEW t \in Types  PROVE Tuned(v, [u EXCEPT !.mover[id].type = t], id)
  <2> DEFINE r == [u EXCEPT !.mover[id].type = t]
  <2>1. Tuned(u, r, id)  BY <1>1, TuneField
  <2> HIDE DEF r
  <2>2. Tuned(v, r, id)  BY <2>1, TunedTwice
  <2> QED  BY <2>2 DEF r
<1> QED  BY <1>2, <1>3, <1>4

\* Nothing changes.
LEMMA TunedSame ==
  ASSUME NEW v \in State, NEW id \in Alive(v)
  PROVE  Tuned(v, v, id)
<1>1. v.mover[id] \in Body  BY StateIs
<1> QED  BY <1>1 DEF Tuned

\* A direction and a count at once.
LEMMA TunedBoth ==
  ASSUME NEW v \in State, NEW id \in Alive(v), NEW u, Tuned(v, u, id),
         NEW d \in Dirs \ {"stasis"}, NEW c \in Int
  PROVE  /\ Tuned(v, [u EXCEPT !.mover[id].dir = d, !.mover[id].count = c], id)
         /\ Tuned(v, [u EXCEPT !.mover[id].count = c, !.mover[id].dir = d], id)
<1>1. [u EXCEPT !.mover[id].dir = d, !.mover[id].count = c]
        = [[u EXCEPT !.mover[id].dir = d] EXCEPT !.mover[id].count = c]
  OBVIOUS
<1>2. [u EXCEPT !.mover[id].count = c, !.mover[id].dir = d]
        = [[u EXCEPT !.mover[id].count = c] EXCEPT !.mover[id].dir = d]
  OBVIOUS
<1>3. ASSUME NEW x, x = [u EXCEPT !.mover[id].dir = d]
      PROVE  Tuned(v, [x EXCEPT !.mover[id].count = c], id)
  <2>1. Tuned(v, x, id)  BY <1>3, TunedOn
  <2> QED  BY <2>1, TunedOn
<1>4. ASSUME NEW x, x = [u EXCEPT !.mover[id].count = c]
      PROVE  Tuned(v, [x EXCEPT !.mover[id].dir = d], id)
  <2>1. Tuned(v, x, id)  BY <1>4, TunedOn
  <2> QED  BY <2>1, TunedOn
<1> QED  BY <1>1, <1>2, <1>3, <1>4

\* What a mover does last, with its fields as they are by then.
LEMMA LastGood ==
  ASSUME NEW v, Good(v), v.error = "no", NEW id \in Alive(v), NEW u, Tuned(v, u, id)
  PROVE  /\ Good(u)
         /\ v.mover[id].kind \in {"door", "floor"} => Good(Detach(u, id))
         /\ v.mover[id].kind = "plat" => Good(P_RemoveActivePlat(u, id))
         /\ v.mover[id].kind = "ceiling" => Good(P_RemoveActiveCeiling(u, id))
<1>1. v \in State  BY DEF Good
<1>2. Good(u) /\ id \in Alive(u)  BY <1>1, TunedGood, TunedAlive
<1>3. u.error = "no" /\ u.mover[id].kind = v.mover[id].kind  BY DEF Tuned
<1> QED  BY <1>2, <1>3, RemoveGood

\* T_PlatRaise, whichever way it turns or ends.
LEMMA PlatThinksGood ==
  ASSUME level \in Levels, NEW v, Good(v), v.error = "no", NEW id \in Alive(v),
         v.mover[id].kind = "plat", NEW stuck
  PROVE  Good(T_PlatRaise(v, id, stuck))
<1> DEFINE m == v.mover[id]
           r == MoveFloor(v, m, IF m.dir = "up" THEN m.high ELSE m.low, m.crush, stuck)
           u == [v EXCEPT !.floor[m.sec] = r.h]
           t == T_PlatRaise(v, id, stuck)
           To(x, d) == [x EXCEPT !.mover[id].dir = d, !.mover[id].count = m.wait]
           d0 == IF v.floor[m.sec] = m.low THEN "up" ELSE "down"
           c0 == IF m.count > 0 THEN m.count - 1 ELSE Forever
<1>1. v \in State  BY DEF Good
<1>2. m \in Body  BY <1>1, StateIs
<1>3. v.floor[m.sec] \in Int
  <2>1. v.floor \in [Sectors -> Int]  BY <1>1, StateIs
  <2> HIDE DEF m
  <2> QED  BY <1>2, <2>1 DEF Body
<1>4. m.high \in Int /\ m.low \in Int /\ m.wait \in Int /\ m.count \in Int
  <2> HIDE DEF m
  <2> QED  BY <1>2 DEF Body
<1>5. r.h \in Int
  <2> DEFINE h == v.floor[m.sec]
             dest == IF m.dir = "up" THEN m.high ELSE m.low
  <2>1. h \in Int /\ dest \in Int  BY <1>3, <1>4
  <2>2. r = T_MovePlane(h, dest, m.dir, m.crush /\ m.dir = "up", stuck)  BY DEF MoveFloor
  <2> HIDE DEF r, h, dest
  <2> QED  BY <2>1, <2>2, PlaneInt
<1>6. {"up", "down", "waiting"} \subseteq Dirs \ {"stasis"}  BY DEF Dirs
<1>7. d0 \in Dirs \ {"stasis"} /\ c0 \in Int /\ 0 \in Int  BY <1>4, <1>6 DEF Forever
<1>8. \/ t = To(u, "down") \/ t = To(u, "waiting") \/ t = P_RemoveActivePlat(To(u, "waiting"), id)
      \/ t = [v EXCEPT !.mover[id].count = 0, !.mover[id].dir = d0]
      \/ t = [v EXCEPT !.mover[id].count = c0] \/ t = u
  BY DEF T_PlatRaise
<1>9. Tuned(v, u, id)
  <2> HIDE DEF r
  <2> QED  BY <1>1, <1>5, TuneFloor
<1> HIDE DEF t, u, r, d0, c0
<1>10. \A d \in Dirs \ {"stasis"} : Tuned(v, To(u, d), id)  BY <1>1, <1>4, <1>9, TunedBoth
<1>11. Tuned(v, To(u, "down"), id) /\ Tuned(v, To(u, "waiting"), id)
  <2> HIDE DEF To
  <2> QED  BY <1>6, <1>10
<1>12. Tuned(v, v, id)  BY <1>1, TunedSame
<1>13. Tuned(v, [v EXCEPT !.mover[id].count = 0, !.mover[id].dir = d0], id)
  BY <1>1, <1>7, <1>12, TunedBoth
<1>14. Tuned(v, [v EXCEPT !.mover[id].count = c0], id)  BY <1>1, <1>7, TuneField
<1> HIDE DEF To
<1>15. \/ Tuned(v, t, id)
       \/ t = P_RemoveActivePlat(To(u, "waiting"), id)
  BY <1>8, <1>9, <1>11, <1>13, <1>14
<1>16. CASE Tuned(v, t, id)  BY <1>16, LastGood DEF t
<1>17. CASE t = P_RemoveActivePlat(To(u, "waiting"), id)
  <2>1. Good(P_RemoveActivePlat(To(u, "waiting"), id))  BY <1>11, LastGood
  <2> QED  BY <1>17, <2>1 DEF t
<1> QED  BY <1>15, <1>16, <1>17

\* T_MoveFloor.
LEMMA FloorThinksGood ==
  ASSUME level \in Levels, NEW v, Good(v), v.error = "no", NEW id \in Alive(v),
         v.mover[id].kind = "floor", NEW stuck
  PROVE  Good(T_MoveFloor(v, id, stuck))
<1> DEFINE m == v.mover[id]
           r == MoveFloor(v, m, m.high, m.crush, stuck)
           u == [v EXCEPT !.floor[m.sec] = r.h]
           t == T_MoveFloor(v, id, stuck)
<1>1. v \in State  BY DEF Good
<1>2. m \in Body  BY <1>1, StateIs
<1>3. v.floor[m.sec] \in Int /\ m.high \in Int
  <2>1. v.floor \in [Sectors -> Int]  BY <1>1, StateIs
  <2> HIDE DEF m
  <2> QED  BY <1>2, <2>1 DEF Body
<1>4. r.h \in Int
  <2> DEFINE h == v.floor[m.sec]
  <2>1. r = T_MovePlane(h, m.high, m.dir, m.crush /\ m.dir = "up", stuck)  BY DEF MoveFloor
  <2> HIDE DEF r, h
  <2> QED  BY <1>3, <2>1, PlaneInt DEF h
<1>5. Tuned(v, u, id)
  <2> HIDE DEF r
  <2> QED  BY <1>1, <1>4, TuneFloor
<1>6. t = u \/ t = Detach(u, id)  BY DEF T_MoveFloor
<1> HIDE DEF t, u
<1>7. Good(u) /\ Good(Detach(u, id))  BY <1>5, LastGood
<1> QED  BY <1>6, <1>7 DEF t
\* A ceiling plane that a ceiling or a door moves.
LEMMA CeilingMoves ==
  ASSUME level \in Levels, NEW v \in State, NEW id \in Alive(v), NEW dest \in Int, NEW stuck
  PROVE  LET m == v.mover[id]
             r == MoveCeiling(v, m, dest, stuck)
         IN  Tuned(v, [v EXCEPT !.ceil[m.sec] = r.h], id)
<1> DEFINE m == v.mover[id]
           h == v.ceil[m.sec]
           r == MoveCeiling(v, m, dest, stuck)
           s == stuck /\ (m.dir = "down" \/ h + 1 > dest)
           u == [v EXCEPT !.ceil[m.sec] = r.h]
<1>1. h \in Int
  <2>1. m \in Body /\ v.ceil \in [Sectors -> Int]  BY StateIs
  <2> HIDE DEF m
  <2> QED  BY <2>1 DEF Body
<1>2. r = T_MovePlane(h, dest, m.dir, m.crush, s)  BY DEF MoveCeiling
<1>3. r.h \in Int
  <2> HIDE DEF r, h, s
  <2> QED  BY <1>1, <1>2, PlaneInt
<1>4. Tuned(v, u, id)
  <2> HIDE DEF r
  <2> QED  BY <1>3, TuneCeil
<1> QED  BY <1>4

\* T_MoveCeiling.
LEMMA CeilingThinksGood ==
  ASSUME level \in Levels, NEW v, Good(v), v.error = "no", NEW id \in Alive(v),
         v.mover[id].kind = "ceiling", NEW stuck
  PROVE  Good(T_MoveCeiling(v, id, stuck))
<1> DEFINE m == v.mover[id]
           dest == IF m.dir = "up" THEN m.high ELSE m.low
           r == MoveCeiling(v, m, dest, stuck)
           u == [v EXCEPT !.ceil[m.sec] = r.h]
           t == T_MoveCeiling(v, id, stuck)
           back == IF m.dir = "up" THEN "down" ELSE "up"
<1>1. v \in State  BY DEF Good
<1>2. dest \in Int
  <2>1. m \in Body  BY <1>1, StateIs
  <2> HIDE DEF m
  <2> QED  BY <2>1 DEF Body
<1>3. Tuned(v, u, id)
  <2> HIDE DEF dest
  <2> QED  BY <1>1, <1>2, CeilingMoves
<1>4. t = u \/ t = [u EXCEPT !.mover[id].dir = back] \/ t = P_RemoveActiveCeiling(u, id)
  BY DEF T_MoveCeiling
<1>5. back \in Dirs \ {"stasis"}  BY DEF Dirs
<1> HIDE DEF t, u, back
<1>6. Tuned(v, [u EXCEPT !.mover[id].dir = back], id)  BY <1>1, <1>3, <1>5, TunedOn
<1>7. Good([u EXCEPT !.mover[id].dir = back])  BY <1>6, LastGood
<1>8. Good(u) /\ Good(P_RemoveActiveCeiling(u, id))  BY <1>3, LastGood
<1> QED  BY <1>4, <1>7, <1>8 DEF t

\* T_VerticalDoor.
LEMMA DoorThinksGood ==
  ASSUME level \in Levels, NEW v, Good(v), v.error = "no", NEW id \in Alive(v),
         v.mover[id].kind = "door", NEW stuck
  PROVE  Good(T_VerticalDoor(v, id, stuck))
<1> DEFINE m == v.mover[id]
           dest == IF m.dir = "down" THEN v.floor[m.sec] ELSE m.high
           r == MoveCeiling(v, m, dest, stuck)
           u == [v EXCEPT !.ceil[m.sec] = r.h]
           t == T_VerticalDoor(v, id, stuck)
           c == IF m.count > 0 THEN m.count - 1 ELSE Forever
           tick == [v EXCEPT !.mover[id].count = c]
           Towards(x, d) == [x EXCEPT !.mover[id].dir = d]
           up == Towards(tick, "up")
           still == Towards(u, "waiting")
<1>1. v \in State  BY DEF Good
<1>2. m \in Body  BY <1>1, StateIs
<1>3. dest \in Int /\ m.wait \in Int /\ c \in Int
  <2>1. v.floor \in [Sectors -> Int]  BY <1>1, StateIs
  <2> HIDE DEF m
  <2> QED  BY <1>2, <2>1 DEF Body, Forever
<1>4. Tuned(v, u, id)
  <2> HIDE DEF dest
  <2> QED  BY <1>1, <1>3, CeilingMoves
<1>5. Tuned(v, tick, id)
  <2> HIDE DEF c
  <2> QED  BY <1>1, <1>3, TuneField
<1>6. \/ t = u \/ t = tick \/ t = Detach(u, id)
      \/ \E d \in {"up", "down"} : t = Towards(tick, d) \/ t = Towards(u, d)
      \/ t = [up EXCEPT !.mover[id].type = "normal"]
      \/ t = [still EXCEPT !.mover[id].count = Wait] \/ t = [still EXCEPT !.mover[id].count = m.wait]
  BY DEF T_VerticalDoor, Turn
<1>7. {"up", "down", "waiting"} \subseteq Dirs \ {"stasis"} /\ "normal" \in Types /\ Wait \in Int
  BY MoversAssumption DEF Dirs, Types
<1> HIDE DEF t, u, tick, m
<1>8. \A d \in Dirs \ {"stasis"} : Tuned(v, Towards(tick, d), id) /\ Tuned(v, Towards(u, d), id)
  BY <1>1, <1>4, <1>5, TunedOn
<1> HIDE DEF Towards
<1>9. Tuned(v, up, id) /\ Tuned(v, still, id)  BY <1>7, <1>8
<1> HIDE DEF up, still
<1>10. Tuned(v, [up EXCEPT !.mover[id].type = "normal"], id)  BY <1>1, <1>7, <1>9, TunedOn
<1>11. /\ Tuned(v, [still EXCEPT !.mover[id].count = Wait], id)
       /\ Tuned(v, [still EXCEPT !.mover[id].count = m.wait], id)
  BY <1>1, <1>3, <1>7, <1>9, TunedOn
<1>12. Tuned(v, t, id) \/ t = Detach(u, id)  BY <1>4, <1>5, <1>6, <1>7, <1>8, <1>10, <1>11
<1>13. CASE Tuned(v, t, id)  BY <1>13, LastGood DEF t
<1>14. CASE t = Detach(u, id)
  <2>1. Good(Detach(u, id))  BY <1>4, LastGood
  <2> QED  BY <1>14, <2>1 DEF t
<1> QED  BY <1>12, <1>13, <1>14

-----------------------------------------------------------------------------
(* The specification.                                                      *)

IInv == Good(w) /\ level \in Levels /\ lines \subseteq level.lines /\ calm \in BOOLEAN

\* Every line that can be used keeps the tables right.
LEMMA UseGood ==
  ASSUME IInv, NEW l \in lines, Use(l)
  PROVE  Good(w')
<1>1. level \in Levels /\ l \in level.lines /\ Good(w) /\ w.error = "no"  BY DEF IInv, Use, Going
<1>2. l.op \in {"stopplat", "stopceiling"} \/ Cardinality(Ids \ Alive(w)) >= Last0
  BY DEF Use, Room, Live, Alive, Last0
<1>3. Last0 \in Nat /\ Last0 >= 1 /\ l.op \in DOMAIN LineTypes /\ l.type \in LineTypes[l.op]
  BY <1>1, LevelIs
<1>4. l.op \in {"plat", "stopplat", "ceiling", "stopceiling", "door", "own", "floor", "stairs", "donut"}
  BY <1>3 DEF LineTypes
<1>5. PICK pick \in Picks, player \in BOOLEAN :
        w' = CASE l.op = "plat" -> EV_DoPlat(w, l.type, pick)
               [] l.op = "stopplat" -> EV_StopPlat(w)
               [] l.op = "ceiling" -> EV_DoCeiling(w, l.type)
               [] l.op = "stopceiling" -> EV_CeilingCrushStop(w)
               [] l.op = "door" -> EV_DoDoor(w, l.type)
               [] l.op = "own" -> EV_VerticalDoor(w, l.type, l.face[1], player)
               [] l.op = "floor" -> EV_DoFloor(w, l.type)
               [] l.op = "stairs" -> EV_BuildStairs(w, pick)
               [] l.op = "donut" -> EV_DoDonut(w)
  BY DEF Use
<1>6. CASE l.op = "stopplat"
  <2>1. w' = EV_StopPlat(w)  BY <1>5, <1>6
  <2>2. Good(EV_StopPlat(w))  BY <1>1, StopGood DEF EV_StopPlat
  <2> QED  BY <2>1, <2>2
<1>7. CASE l.op = "stopceiling"
  <2>1. w' = EV_CeilingCrushStop(w)  BY <1>5, <1>7
  <2>2. Good(EV_CeilingCrushStop(w))  BY <1>1, StopGood DEF EV_CeilingCrushStop
  <2> QED  BY <2>1, <2>2
<1>8. CASE l.op \notin {"stopplat", "stopceiling"}
  <2>1. Cardinality(Ids \ Alive(w)) >= Last0  BY <1>2, <1>8
  <2>2. Roomy(w)  BY <1>1, <2>1, RoomIsEnough
  <2>3. CASE l.op = "plat"
    <3>1. w' = EV_DoPlat(w, l.type, pick)  BY <1>5, <2>3
    <3>2. l.type \in LineTypes["plat"]  BY <1>3, <2>3
    <3> QED  BY <1>1, <2>2, <3>1, <3>2, DoPlatGood
  <2>4. CASE l.op = "ceiling"
    <3>1. w' = EV_DoCeiling(w, l.type)  BY <1>5, <2>4
    <3>2. l.type \in LineTypes["ceiling"]  BY <1>3, <2>4
    <3>3. TaggedSectors \cap Overwritten = {}  BY <1>1, <2>4, CeilingsAlone
    <3> QED  BY <1>1, <2>2, <3>1, <3>2, <3>3, DoCeilingGood
  <2>5. CASE l.op = "door"
    <3>1. w' = EV_DoDoor(w, l.type)  BY <1>5, <2>5
    <3>2. l.type \in LineTypes["door"]  BY <1>3, <2>5
    <3> QED  BY <1>1, <2>2, <3>1, <3>2, DoDoorGood
  <2>6. CASE l.op = "own"
    <3>1. w' = EV_VerticalDoor(w, l.type, l.face[1], player)  BY <1>5, <2>6
    <3>2. Alive(w) # Ids
      <4>1. SUFFICES ASSUME Alive(w) = Ids  PROVE FALSE  OBVIOUS
      <4>2. Ids \ Alive(w) = {}  BY <4>1
      <4>3. Cardinality(Ids \ Alive(w)) = 0  BY <4>2, FS_EmptySet
      <4> QED  BY <1>3, <2>1, <4>3
    <3> QED  BY <1>1, <2>6, <3>1, <3>2, OwnDoorGood
  <2>7. CASE l.op = "floor"
    <3>1. w' = EV_DoFloor(w, l.type)  BY <1>5, <2>7
    <3>2. l.type \in LineTypes["floor"]  BY <1>3, <2>7
    <3> QED  BY <1>1, <2>2, <3>1, <3>2, DoFloorGood
  <2>8. CASE l.op = "stairs"
    <3>1. w' = EV_BuildStairs(w, pick)  BY <1>5, <2>8
    <3> QED  BY <1>1, <2>2, <3>1, StairsGood
  <2>9. CASE l.op = "donut"
    <3>1. w' = EV_DoDonut(w)  BY <1>5, <2>9
    <3> QED  BY <1>1, <2>1, <2>9, <3>1, DonutGood
  <2> QED  BY <1>4, <1>8, <2>3, <2>4, <2>5, <2>6, <2>7, <2>8, <2>9
<1> QED  BY <1>6, <1>7, <1>8

\* Every thinker keeps the tables right.
LEMMA ThinkGood ==
  ASSUME IInv, NEW id \in Ids, NEW stuck \in BOOLEAN, Think(id, stuck)
  PROVE  Good(w')
<1>1. level \in Levels /\ Good(w) /\ w.error = "no" /\ id \in Alive(w)
  BY DEF IInv, Think, Going, Live, Alive
<1>2. w.mover[id].kind \in Kinds
  <2>1. w \in State  BY <1>1 DEF Good
  <2>2. w.mover[id] \in Body  BY <1>1, <2>1, StateIs
  <2> QED  BY <2>2, BodyIsThere
<1>3. w' = CASE w.mover[id].kind = "plat" -> T_PlatRaise(w, id, stuck)
             [] w.mover[id].kind = "ceiling" -> T_MoveCeiling(w, id, stuck)
             [] w.mover[id].kind = "door" -> T_VerticalDoor(w, id, stuck)
             [] w.mover[id].kind = "floor" -> T_MoveFloor(w, id, stuck)
  BY DEF Think
<1>4. CASE w.mover[id].kind = "plat"
  <2>1. w' = T_PlatRaise(w, id, stuck)  BY <1>3, <1>4
  <2> QED  BY <1>1, <1>4, <2>1, PlatThinksGood
<1>5. CASE w.mover[id].kind = "ceiling"
  <2>1. w' = T_MoveCeiling(w, id, stuck)  BY <1>3, <1>5
  <2> QED  BY <1>1, <1>5, <2>1, CeilingThinksGood
<1>6. CASE w.mover[id].kind = "door"
  <2>1. w' = T_VerticalDoor(w, id, stuck)  BY <1>3, <1>6
  <2> QED  BY <1>1, <1>6, <2>1, DoorThinksGood
<1>7. CASE w.mover[id].kind = "floor"
  <2>1. w' = T_MoveFloor(w, id, stuck)  BY <1>3, <1>7
  <2> QED  BY <1>1, <1>7, <2>1, FloorThinksGood
<1> QED  BY <1>2, <1>4, <1>5, <1>6, <1>7 DEF Kinds
\* Every map has the doors it starts with in order.
LEMMA MoversStart == MoversInit => IInv
<1> SUFFICES ASSUME MoversInit  PROVE IInv  OBVIOUS
<1>1. level \in Levels /\ lines \subseteq level.lines /\ calm \in BOOLEAN  BY DEF MoversInit
<1>2. PICK pick \in Picks : w = P_SpawnSpecials(NoMovers(level.floor, level.ceil), pick)
  BY DEF MoversInit, Picks
<1>3. Good(w)  BY <1>1, <1>2, SpawnGood
<1> QED  BY <1>1, <1>3 DEF IInv

\* The map does not change, nor what a state must be.
LEMMA SameMap ==
  ASSUME level' = level, Good(w')
  PROVE  Good(w)'
<1>1. Sectors' = Sectors /\ Overwritten' = Overwritten /\ TaggedSectors' = TaggedSectors
      /\ Crowded' = Crowded
  BY DEF Sectors, Overwritten, TaggedSectors, Crowded
<1>2. Body' = Body /\ State' = State  BY <1>1 DEF Body, State
<1>3. Alive(w)' = Alive(w')  BY DEF Alive
<1>4. Listed(w)'  BY <1>3 DEF Good, Listed
<1>5. Points(w)'  BY <1>1, <1>3 DEF Good, Points
<1>6. Owned(w)'  BY <1>1, <1>3 DEF Good, Owned
<1>7. PlatsTrue(w)'  BY <1>3 DEF Good, PlatsTrue
<1>8. CeilingsTrue(w)'  BY <1>1, <1>3 DEF Good, CeilingsTrue
<1>9. Wakes(w)'  BY <1>1, <1>3 DEF Good, Wakes
<1> QED  BY <1>2, <1>4, <1>5, <1>6, <1>7, <1>8, <1>9 DEF Good

\* The inductive step.
LEMMA MoversKeep == IInv /\ [MoversNext]_moversVars => IInv'
<1> SUFFICES ASSUME IInv, [MoversNext]_moversVars  PROVE IInv'  OBVIOUS
<1>1. ASSUME NEW l \in lines, Use(l)  PROVE IInv'
  <2>1. Good(w')  BY <1>1, UseGood
  <2>2. level' = level /\ calm' = calm /\ lines' \subseteq lines  BY <1>1 DEF Use
  <2>3. Good(w)'  BY <2>1, <2>2, SameMap
  <2> QED  BY <2>2, <2>3 DEF IInv
<1>2. ASSUME NEW id \in Ids, NEW stuck \in BOOLEAN, Think(id, stuck)  PROVE IInv'
  <2>1. Good(w')  BY <1>2, ThinkGood
  <2>2. level' = level /\ calm' = calm /\ lines' = lines  BY <1>2 DEF Think
  <2>3. Good(w)'  BY <2>1, <2>2, SameMap
  <2> QED  BY <2>2, <2>3 DEF IInv
<1>3. CASE Reload
  <2>1. w' = P_UnArchive(w) /\ level' = level /\ calm' = calm /\ lines' = lines
    BY <1>3 DEF Reload
  <2>2. Good(w')  BY <2>1, UnArchiveGood DEF IInv
  <2>3. Good(w)'  BY <2>1, <2>2, SameMap
  <2> QED  BY <2>1, <2>3 DEF IInv
<1>4. CASE Calm
  <2>1. w' = w /\ level' = level /\ calm' \in BOOLEAN /\ lines' = lines  BY <1>4 DEF Calm
  <2>2. Good(w)'  BY <2>1, SameMap DEF IInv
  <2> QED  BY <2>1, <2>2 DEF IInv
<1>5. CASE UNCHANGED moversVars
  <2>1. w' = w /\ level' = level /\ calm' = calm /\ lines' = lines  BY <1>5 DEF moversVars
  <2>2. Good(w)'  BY <2>1, SameMap DEF IInv
  <2> QED  BY <2>1, <2>2 DEF IInv
<1> QED  BY <1>1, <1>2, <1>3, <1>4, <1>5 DEF MoversNext

\* The inductive invariant holds throughout.
LEMMA MoversHold == MoversSpec => []IInv
<1> QED  BY MoversStart, MoversKeep, PTL DEF MoversSpec

\* Every field of the playsim's state, and of every thinker of it, stays of its
\* type, through every line, tic and load.
THEOREM MoversTypes == MoversSpec => []MoversTypeOK
<1>1. ASSUME IInv  PROVE MoversTypeOK
  <2>1. w \in State  BY <1>1 DEF IInv, Good
  <2>2. Live = Alive(w)  BY DEF Live, Alive
  <2>3. \A id \in Live :
          /\ w.mover[id].kind \in Kinds /\ w.mover[id].sec \in Sectors \ {0}
          /\ w.mover[id].dir \in {"up", "down", "waiting", "initial", "stasis"}
          /\ w.mover[id].crush \in BOOLEAN
          /\ {w.mover[id].low, w.mover[id].high, w.mover[id].wait, w.mover[id].count} \subseteq Int
    <3> TAKE id \in Live
    <3> DEFINE m == w.mover[id]
    <3>1. m \in Body  BY <2>1, <2>2, StateIs
    <3> HIDE DEF m
    <3>2. /\ m.kind \in Kinds /\ m.sec \in Sectors \ {0} /\ m.dir \in Dirs /\ m.crush \in BOOLEAN
          /\ m.low \in Int /\ m.high \in Int /\ m.wait \in Int /\ m.count \in Int
      BY <3>1 DEF Body
    <3> QED  BY <3>2 DEF m, Dirs
  <2>4. w.plats \cup w.ceilings \subseteq Ids /\ w.error \in {"no", "full", "lost"}
    BY <2>1, StateIs
  <2>5. /\ w.floor \in [Sectors -> Int] /\ w.ceil \in [Sectors -> Int]
        /\ w.data \in [Sectors -> Ids \cup {NoMover}]
    BY <2>1, StateIs
  <2> QED  BY <1>1, <2>3, <2>4, <2>5 DEF IInv, MoversTypeOK
<1> QED  BY <1>1, MoversHold, PTL

\* The list, the sectors' specialdata and the two tables of active movers agree
\* with the thinkers that exist, on every map, with any number of movers, lines
\* used and thinkers run in any order, games saved and loaded in between: so no
\* pointer dangles, no platform that finishes is missing from activeplats (the
\* game never ends with "can't find plat!"), and what is in stasis can be woken.
THEOREM MoversStayAgreed == MoversSpec => []MoversAgree
<1>1. ASSUME IInv  PROVE MoversAgree
  <2>1. Live = Alive(w) /\ Good(w)  BY <1>1 DEF IInv, Live, Alive
  <2>2. Attached
    <3>1. w.list \in Seq(Ids)  BY <2>1, StateIs DEF Good
    <3>2. ToSet(w.list) = {w.list[i] : i \in 1 .. Len(w.list)}
      <4>1. DOMAIN w.list = 1 .. Len(w.list)  BY <3>1, LenProperties
      <4> QED  BY <4>1 DEF ToSet
    <3>3. ToSet(w.list) = Live  BY <2>1, <3>2 DEF Good, Listed
    <3> QED  BY <2>1, <3>3 DEF Good, Listed, Points, Attached
  <2>3. OneMover  BY <2>1, <2>2 DEF OneMover, Good, Owned
  <2>4. TablesTrue
    <3>1. w.plats \in SUBSET Ids /\ w.ceilings \in SUBSET Ids /\ Live \subseteq Ids
      BY <2>1, StateIs DEF Good, Live
    <3>2. w.error = "no" => w.plats = {id \in Live : w.mover[id].kind = "plat"}
      BY <2>1, <3>1 DEF Good, PlatsTrue
    <3>3. /\ w.ceilings \subseteq {id \in Live : w.mover[id].kind = "ceiling"}
          /\ ~ Crowded => {id \in Live : w.mover[id].kind = "ceiling"} \subseteq w.ceilings
      BY <2>1 DEF Good, CeilingsTrue
    <3>4. w.error # "lost"  BY <2>1 DEF Good
    <3>5. \A id \in Live : w.mover[id].dir = "stasis" =>
            /\ id \in w.plats \cup w.ceilings \/ (Crowded /\ w.mover[id].kind = "ceiling")
            /\ w.mover[id].old # "stasis"
      BY <2>1 DEF Good, Wakes
    <3> QED  BY <3>2, <3>3, <3>4, <3>5 DEF TablesTrue
  <2> QED  BY <2>3, <2>4 DEF MoversAgree
<1> QED  BY <1>1, MoversHold, PTL
\* A game that is saved and loaded goes on with every mover it had, a platform
\* in stasis excepted, in the order they think in, and every sector with its own
\* (those that a second mover may be started over excepted): on every map, with
\* any number of movers, as long as no earlier load took a stopped ceiling's slot.
THEOREM MoversComeBack == MoversSpec => ReloadKeeps
<1>1. ASSUME IInv, Reload, \A id \in Live : ~ SlotLost(id)
      PROVE  /\ Len(w'.list) = Cardinality(Kept)
             /\ \A i \in Kept : w'.mover[w'.list[Place(i)]] = w.mover[w.list[i]]
             /\ \A s \in Sectors \ Overwritten :
                  w.data[s] # NoMover /\ ~ PlatInStasis(w.mover[w.data[s]]) =>
                    w'.data[s] # NoMover /\ w'.mover[w'.data[s]] = w.mover[w.data[s]]
  <2>1. Good(w) /\ w.error = "no" /\ w' = P_UnArchive(w) /\ level \in Levels
    BY <1>1 DEF IInv, Reload, Going
  <2>2. w \in State /\ Live = Alive(w)  BY <2>1 DEF Good, Live, Alive
  <2>3. DOMAIN w.list = 1 .. Len(w.list)  BY <2>2, StateIs, LenProperties
  <2>4. ASSUME NEW id \in Alive(w)
        PROVE  Archived(w, id) <=> ~ PlatInStasis(w.mover[id])
    <3>1. CASE w.mover[id].dir # "stasis"  BY <3>1 DEF Archived, PlatInStasis
    <3>2. CASE w.mover[id].dir = "stasis"
      <4>1. id \in w.plats \/ id \in w.ceilings \/ w.mover[id].kind = "ceiling"
        BY <2>1, <3>2 DEF Good, Wakes
      <4>2. id \in Ids  BY DEF Alive
      <4>3. id \in w.plats <=> w.mover[id].kind = "plat"  BY <2>1, <4>2 DEF Good, PlatsTrue
      <4>4. id \in w.ceilings <=> w.mover[id].kind = "ceiling"
        <5>1. id \in w.ceilings => w.mover[id].kind = "ceiling"  BY <2>1 DEF Good, CeilingsTrue
        <5>2. ~ SlotLost(id)  BY <1>1, <2>2
        <5> QED  BY <3>2, <5>1, <5>2 DEF SlotLost
      <4> QED  BY <3>2, <4>1, <4>3, <4>4 DEF Archived, PlatInStasis
    <3> QED  BY <3>1, <3>2
  <2>5. \A i \in 1 .. Len(w.list) : w.list[i] \in Alive(w)  BY <2>1 DEF Good, Listed
  <2>6. Kept = {i \in 1 .. Len(w.list) : Archived(w, w.list[i])}  BY <2>3, <2>4, <2>5 DEF Kept
  <2>7. /\ Len(w'.list) = Cardinality(Kept)
        /\ \A i \in Kept :
             /\ Place(i) \in 1 .. Len(w'.list)
             /\ w'.mover[w'.list[Place(i)]] = w.mover[w.list[i]]
             /\ w.mover[w.list[i]].sec \notin Overwritten =>
                  w'.data[w.mover[w.list[i]].sec] = w'.list[Place(i)]
    <3> DEFINE ns == [i \in 1 .. Len(w.list) |-> w.mover[w.list[i]]]
    <3>1. InPlace(w', Kept, ns)  BY <2>1, <2>6, UnArchivePlaces
    <3>2. \A i \in Kept : ns[i] = w.mover[w.list[i]]  BY <2>6
    <3> HIDE DEF ns
    <3> QED  BY <3>1, <3>2 DEF InPlace, Place
  <2>8. ASSUME NEW s \in Sectors \ Overwritten, w.data[s] # NoMover,
               ~ PlatInStasis(w.mover[w.data[s]])
        PROVE  w'.data[s] # NoMover /\ w'.mover[w'.data[s]] = w.mover[w.data[s]]
    <3>1. w.data[s] \in Alive(w) /\ w.mover[w.data[s]].sec = s  BY <2>1, <2>8 DEF Good, Points
    <3>2. PICK i \in 1 .. Len(w.list) : w.list[i] = w.data[s]
      BY <2>1, <3>1 DEF Good, Listed
    <3>3. i \in Kept  BY <2>3, <2>8, <3>2 DEF Kept
    <3>4. /\ Place(i) \in 1 .. Len(w'.list) /\ w'.data[s] = w'.list[Place(i)]
          /\ w'.mover[w'.list[Place(i)]] = w.mover[w.data[s]]
      BY <2>7, <2>8, <3>1, <3>2, <3>3
    <3>5. Good(w')  BY <2>1, UnArchiveGood
    <3>6. w'.data[s] \in Ids  BY <3>4, <3>5 DEF Good, Listed, Alive
    <3> QED  BY <3>4, <3>6, IdsFinite DEF NoMover
  <2> QED  BY <2>7, <2>8
<1>2. IInv => [Reload /\ (\A id \in Live : ~ SlotLost(id)) =>
                 /\ Len(w'.list) = Cardinality(Kept)
                 /\ \A i \in Kept : w'.mover[w'.list[Place(i)]] = w.mover[w.list[i]]
                 /\ \A s \in Sectors \ Overwritten :
                      w.data[s] # NoMover /\ ~ PlatInStasis(w.mover[w.data[s]]) =>
                        w'.data[s] # NoMover /\ w'.mover[w'.data[s]] = w.mover[w.data[s]]]_moversVars
  BY <1>1
<1> QED  BY <1>2, MoversHold, PTL DEF ReloadKeeps
=============================================================================
