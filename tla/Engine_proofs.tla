---------------------------- MODULE Engine_proofs -----------------------------
(***************************************************************************)
(* What holds of the engine's two doubly linked rings, and of a player's   *)
(* weapons.                                                                *)
(*                                                                         *)
(* The zone's blocks, for a heap of any size, any lumps and any requests:  *)
(* the heap stays tiled, without two free neighbours, the lump cache stays *)
(* true of it, and the block fetched last is not purged.  The step that    *)
(* matters is Z_Free's merge, in the middle of any loop.  It is proved of  *)
(* a heap taken by itself (Heap), so that Z_Free, the purge of Z_Malloc    *)
(* and Z_FreeTags can all cite it.                                         *)
(*                                                                         *)
(* The thinkers, for any number of them: the links never lead to a freed   *)
(* block, and a walk runs every thinker once.  Linked alone is not         *)
(* inductive: a block that linked to itself would obey it, and unlinking   *)
(* that block would leave the walk on freed memory.  The strengthening     *)
(* says that there is one ring (no set of thinkers is closed under next    *)
(* without the head) and that the walk has run exactly what lies between   *)
(* the head and currentthinker.                                            *)
(*                                                                         *)
(* The weapons, for every player, every amount of ammo and every order of  *)
(* tics, pickups, keys, deaths and exits: the weapon in the hands is one   *)
(* the player has, its shots are paid for, and no weapon is lowered for    *)
(* none.                                                                   *)
(***************************************************************************)
EXTENDS Zone, Thinkers, Arsenal, TLAPS

-----------------------------------------------------------------------------
(* The zone.                                                               *)

\* The headers in use, and the cap that closes their ring.
Members(sz) == {b \in Addr : sz[b] > 0} \cup {Cap}

\* Tiled and NoTwoFree, and what makes them inductive: both links go around
\* the ring, and a header that was merged away stays free.
BlockRing(sz, nx, pv) ==
  /\ sz \in [Headers -> 0 .. Top] /\ nx \in [Headers -> Headers] /\ pv \in [Headers -> Headers]
  /\ sz[Cap] = 0 /\ sz[0] > 0 /\ nx[Cap] = 0
  /\ \A b \in Addr : sz[b] > 0 =>
       nx[b] = b + sz[b] /\ \A c \in Addr : sz[c] > 0 /\ c > b => c >= nx[b]
  /\ \A h \in Members(sz) :
       /\ nx[h] \in Members(sz) /\ pv[h] \in Members(sz)
       /\ pv[nx[h]] = h /\ nx[pv[h]] = h
Users(sz, nx, us) ==
  /\ us \in [Headers -> Owners \cup {Free}]
  /\ us[Cap] = Unowned
  /\ \A h \in Headers \ Members(sz) : us[h] = Free
  /\ \A b \in Addr : sz[b] > 0 => ~ (us[b] = Free /\ us[nx[b]] = Free)
Heap(sz, nx, pv, us) == BlockRing(sz, nx, pv) /\ Users(sz, nx, us)

\* Where Z_Malloc's loop stands: at base, with a used block before it, or at the
\* block behind a free base.  It is never at the block fetched last, whose
\* neighbour the search began with.
Searching ==
  /\ {base, at, start} \subseteq Members(size)
  /\ user[start] # Free
  /\ latest # Null => latest = start
  /\ \/ at = base /\ user[prev[base]] # Free
     \/ at = next[base] /\ user[base] = Free
Wanting ==
  /\ want.size > 0
  /\ want.user \in Lumps => lumpcache[want.user] = Null
Latest ==
  latest # Null => /\ latest \in Addr /\ size[latest] > 0
                   /\ user[latest] # Free /\ next[latest] = rover

ZoneInv ==
  /\ TypeOK /\ Heap(size, next, prev, user) /\ CacheIsTrue
  /\ tag[Cap] = "static"
  /\ rover \in Members(size) /\ Latest
  /\ mode = "scan" => Searching /\ Wanting
  /\ mode = "fits" => Wanting /\ user[base] = Free /\ size[base] >= want.size

-----------------------------------------------------------------------------
(* A heap by itself.                                                       *)

LEMMA Numbers ==
  /\ Top \in Nat /\ Top > 0 /\ Cap = Top /\ Cap \notin Addr /\ 0 \in Addr /\ Cap \in Headers
  /\ \A h \in Headers : h \in Int /\ h >= 0 /\ h <= Cap /\ (h \in Addr <=> h # Cap) /\ (h \in Addr <=> h < Cap)
  /\ Addr \subseteq Headers /\ Null \notin Headers
  /\ Free \notin Owners
BY ZoneAssumption DEF Cap, Addr, Headers, Null, Owners

\* A header in use lies before the one it links to, the last one but for the cap,
\* and no other is in between.
LEMMA Neighbours ==
  ASSUME NEW sz, NEW nx, NEW pv, BlockRing(sz, nx, pv), NEW b \in Members(sz), b # Cap
  PROVE  /\ b \in Addr /\ sz[b] > 0 /\ sz[b] \in Int
         /\ nx[b] = b + sz[b] /\ nx[b] > b
         /\ nx[b] \in Members(sz) /\ nx[b] \in Headers /\ nx[b] <= Cap
         /\ \A c \in Members(sz) : c > b => c >= nx[b]
         /\ pv[nx[b]] = b
<1>1. b \in Addr /\ sz[b] > 0 /\ nx[b] = b + sz[b]
  BY DEF BlockRing, Members
<1>2. b \in Headers /\ sz[b] \in 0 .. Top
  BY <1>1, Numbers DEF BlockRing
<1>3. nx[b] \in Members(sz) /\ pv[nx[b]] = b
  BY DEF BlockRing
<1>4. nx[b] \in Headers
  BY <1>3, Numbers DEF Members
<1>5. nx[b] <= Cap
  BY <1>4, Numbers
<1>6. \A c \in Members(sz) : c > b => c >= nx[b]
  BY <1>1, <1>5, Numbers DEF BlockRing, Members
<1>7. nx[b] > b
  BY <1>1, <1>2, Numbers
<1> QED BY <1>1, <1>2, <1>3, <1>4, <1>5, <1>6, <1>7

\* Z_Free: a used block b becomes free and takes in its free neighbours.
Keeps(nx, pv, us, b) == IF us[pv[b]] = Free THEN pv[b] ELSE b
Reaches(nx, us, b) == IF us[nx[b]] = Free THEN nx[nx[b]] ELSE nx[b]
Merged(sz, nx, pv, us, b) ==
  [h \in Headers |->
    IF h = Keeps(nx, pv, us, b)
    THEN sz[b] + (IF us[pv[b]] = Free THEN sz[pv[b]] ELSE 0)
               + (IF us[nx[b]] = Free THEN sz[nx[b]] ELSE 0)
    ELSE IF h = b \/ (us[nx[b]] = Free /\ h = nx[b]) THEN 0 ELSE sz[h]]

MergedNext(nx, pv, us, b) == [nx EXCEPT ![Keeps(nx, pv, us, b)] = Reaches(nx, us, b)]
MergedPrev(nx, pv, us, b) == [pv EXCEPT ![Reaches(nx, us, b)] = Keeps(nx, pv, us, b)]
MergedUsers(us, b) == [us EXCEPT ![b] = Free]

\* What is merged is exactly what lies from keep up to over.
LEMMA MergeSpan ==
  ASSUME NEW sz, NEW nx, NEW pv, NEW us, Heap(sz, nx, pv, us),
         NEW b \in Members(sz), us[b] # Free, b # Cap,
         NEW keep, keep = Keeps(nx, pv, us, b), NEW over, over = Reaches(nx, us, b)
  PROVE  /\ keep \in Members(sz) /\ keep \in Addr /\ keep <= b
         /\ over \in Members(sz) /\ over > b /\ us[over] # Free
         /\ us[pv[keep]] # Free
         /\ Merged(sz, nx, pv, us, b)[keep] = over - keep
         /\ over - keep \in 0 .. Top
         /\ \A h \in Headers : h # keep =>
              Merged(sz, nx, pv, us, b)[h] = IF h > keep /\ h < over THEN 0 ELSE sz[h]
         /\ \A h \in Members(sz) : h > keep /\ h < over => h = b \/ (us[h] = Free /\ h = nx[b])
<1> DEFINE P == pv[b]
           N == nx[b]
<1>0. BlockRing(sz, nx, pv) /\ Users(sz, nx, us)
  BY DEF Heap
<1>1. /\ b \in Addr /\ sz[b] > 0 /\ sz[b] \in Int /\ N = b + sz[b] /\ N > b /\ N \in Members(sz)
      /\ N \in Headers /\ N <= Cap /\ (\A c \in Members(sz) : c > b => c >= N) /\ pv[N] = b
  BY <1>0, Neighbours
<1>2. P \in Members(sz) /\ nx[P] = b
  BY <1>0 DEF BlockRing
<1>3. us[P] = Free => P # Cap
  BY <1>0, Numbers DEF Users, Owners
<1>4. us[N] = Free => N # Cap
  BY <1>0, Numbers DEF Users, Owners
<1>5. us[P] = Free => /\ P \in Addr /\ sz[P] > 0 /\ sz[P] \in Int /\ b = P + sz[P] /\ b > P
                      /\ \A c \in Members(sz) : c > P => c >= b
  BY <1>0, <1>2, <1>3, Neighbours
<1>6. us[N] = Free => /\ N \in Addr /\ sz[N] > 0 /\ sz[N] \in Int /\ nx[N] = N + sz[N] /\ nx[N] > N
                      /\ nx[N] \in Members(sz) /\ nx[N] \in Headers /\ nx[N] <= Cap /\ pv[nx[N]] = N
                      /\ \A c \in Members(sz) : c > N => c >= nx[N]
  BY <1>0, <1>1, <1>4, Neighbours
<1>7. us[N] = Free => us[nx[N]] # Free
  BY <1>0, <1>6 DEF Users
<1>8. us[P] = Free => us[pv[P]] # Free
  <2> SUFFICES ASSUME us[P] = Free, us[pv[P]] = Free PROVE FALSE
    OBVIOUS
  <2>1. pv[P] \in Members(sz) /\ nx[pv[P]] = P
    BY <1>0, <1>2 DEF BlockRing
  <2>2. pv[P] # Cap
    BY <1>0, Numbers DEF Users, Owners
  <2> QED BY <2>1, <2>2, <1>0 DEF Users, Members
<1>9. \A h \in Members(sz) : h \in Int
  BY Numbers DEF Members
<1>10. \A h \in Headers : h \notin Members(sz) => sz[h] = 0 /\ h # Cap
  BY <1>0, Numbers DEF BlockRing, Members
<1> HIDE DEF P, N
<1>11. keep = IF us[P] = Free THEN P ELSE b
  BY DEF Keeps, P
<1>12. over = IF us[N] = Free THEN nx[N] ELSE N
  BY DEF Reaches, N
<1>13. keep \in Members(sz) /\ keep \in Addr /\ keep <= b /\ over \in Members(sz) /\ over > b /\ us[over] # Free
  BY <1>1, <1>2, <1>5, <1>6, <1>7, <1>9, <1>11, <1>12
<1>14. us[pv[keep]] # Free
  BY <1>8, <1>11 DEF P
<1>16. \A h \in Members(sz) : h > keep /\ h < over => h = b \/ (us[N] = Free /\ h = N)
  BY <1>1, <1>2, <1>5, <1>6, <1>9, <1>11, <1>12
<1>17. over - keep = sz[b] + (IF us[P] = Free THEN sz[P] ELSE 0) + (IF us[N] = Free THEN sz[N] ELSE 0)
  BY <1>1, <1>2, <1>5, <1>6, <1>9, <1>11, <1>12
<1>18. keep \in Headers /\ over \in Headers /\ over - keep \in 0 .. Top
  BY <1>13, Numbers DEF Members
<1>19. Merged(sz, nx, pv, us, b)[keep] = over - keep
  BY <1>17, <1>18 DEF Merged, P, N
<1>20. ASSUME NEW h \in Headers, h # keep
       PROVE  Merged(sz, nx, pv, us, b)[h] = IF h > keep /\ h < over THEN 0 ELSE sz[h]
  <2>1. Merged(sz, nx, pv, us, b)[h] = IF h = b \/ (us[N] = Free /\ h = N) THEN 0 ELSE sz[h]
    BY <1>20 DEF Merged, N
  <2>2. h = b => h > keep /\ h < over
    BY <1>20, <1>1, <1>9, <1>5, <1>11, <1>13
  <2>3. us[N] = Free /\ h = N => h > keep /\ h < over
    BY <1>1, <1>6, <1>9, <1>12, <1>13, Numbers
  <2>4. h > keep /\ h < over /\ ~ (h = b \/ (us[N] = Free /\ h = N)) => sz[h] = 0
    BY <1>10, <1>16
  <2> QED BY <2>1, <2>2, <2>3, <2>4
<1> QED BY <1>13, <1>14, <1>16, <1>18, <1>19, <1>20 DEF N

\* Z_Free leaves a heap: one ring, tiled, no two free neighbours.
LEMMA MergeSound ==
  ASSUME NEW sz, NEW nx, NEW pv, NEW us, Heap(sz, nx, pv, us),
         NEW b \in Members(sz), us[b] # Free, b # Cap
  PROVE  /\ Heap(Merged(sz, nx, pv, us, b), MergedNext(nx, pv, us, b),
                 MergedPrev(nx, pv, us, b), MergedUsers(us, b))
         /\ Members(Merged(sz, nx, pv, us, b)) =
              {h \in Members(sz) : ~ (h > Keeps(nx, pv, us, b) /\ h < Reaches(nx, us, b))}
<1> DEFINE keep == Keeps(nx, pv, us, b)
           over == Reaches(nx, us, b)
           sz2 == Merged(sz, nx, pv, us, b)
           nx2 == MergedNext(nx, pv, us, b)
           pv2 == MergedPrev(nx, pv, us, b)
           us2 == MergedUsers(us, b)
<1>0. /\ keep = Keeps(nx, pv, us, b) /\ over = Reaches(nx, us, b)
      /\ sz2 = Merged(sz, nx, pv, us, b) /\ nx2 = [nx EXCEPT ![keep] = over]
      /\ pv2 = [pv EXCEPT ![over] = keep] /\ us2 = [us EXCEPT ![b] = Free]
  BY DEF MergedNext, MergedPrev, MergedUsers
<1> HIDE DEF keep, over, sz2, nx2, pv2, us2
<1> USE <1>0
<1>1. /\ keep \in Members(sz) /\ keep \in Addr /\ keep <= b
      /\ over \in Members(sz) /\ over > b /\ us[over] # Free
      /\ us[pv[keep]] # Free
      /\ sz2[keep] = over - keep /\ over - keep \in 0 .. Top
      /\ \A h \in Headers : h # keep => sz2[h] = IF h > keep /\ h < over THEN 0 ELSE sz[h]
      /\ \A h \in Members(sz) : h > keep /\ h < over => h = b \/ (us[h] = Free /\ h = nx[b])
  BY MergeSpan
<1>2. BlockRing(sz, nx, pv) /\ Users(sz, nx, us)
  BY DEF Heap
<1>3. /\ sz \in [Headers -> 0 .. Top] /\ nx \in [Headers -> Headers] /\ pv \in [Headers -> Headers]
      /\ sz[Cap] = 0 /\ sz[0] > 0 /\ nx[Cap] = 0
  BY <1>2 DEF BlockRing
<1>4. \A h \in Members(sz) : h \in Headers /\ h \in Int /\ h >= 0 /\ h <= Cap
  BY Numbers DEF Members
<1>5. \A h \in Headers : h \in Members(sz) <=> h = Cap \/ sz[h] > 0
  BY Numbers DEF Members
<1>6. sz2 \in [Headers -> 0 .. Top]
  <2>1. sz2 = [h \in Headers |-> sz2[h]]
    BY DEF Merged
  <2>2. \A h \in Headers : sz2[h] \in 0 .. Top
    BY <1>1, <1>3, <1>4, Numbers
  <2> QED BY <2>1, <2>2
<1>7. /\ \A h \in Headers : nx2[h] = IF h = keep THEN over ELSE nx[h]
      /\ \A h \in Headers : pv2[h] = IF h = over THEN keep ELSE pv[h]
      /\ nx2 \in [Headers -> Headers] /\ pv2 \in [Headers -> Headers]
  BY <1>1, <1>3, <1>4
<1>8. Members(sz2) = {h \in Members(sz) : ~ (h > keep /\ h < over)}
  <2>1. ASSUME NEW h \in Headers
        PROVE  h \in Members(sz2) <=> h \in Members(sz) /\ ~ (h > keep /\ h < over)
    <3>1. h \in Members(sz2) <=> h = Cap \/ sz2[h] > 0
      BY Numbers DEF Members
    <3>2. over <= Cap /\ over > keep /\ keep < Cap
      BY <1>1, <1>4, Numbers
    <3>3. CASE h = keep
      BY <3>1, <3>2, <3>3, <1>1, <1>4
    <3>4. CASE h # keep /\ h > keep /\ h < over
      <4>1. sz2[h] = 0
        BY <3>4, <1>1
      <4>2. h # Cap
        BY <3>2, <3>4, <1>1, <1>4, Numbers
      <4> QED BY <4>1, <4>2, <3>1, <3>4
    <3>5. CASE h # keep /\ ~ (h > keep /\ h < over)
      <4>1. sz2[h] = sz[h]
        BY <3>5, <1>1
      <4> QED BY <4>1, <3>1, <3>5, <1>5
    <3> QED BY <3>3, <3>4, <3>5
  <2>2. Members(sz2) \subseteq Headers /\ Members(sz) \subseteq Headers
    BY Numbers DEF Members
  <2> QED BY <2>1, <2>2
<1>9. /\ keep \in Members(sz2) /\ over \in Members(sz2) /\ over > keep
      /\ \A h \in Members(sz2) : h \in Members(sz) /\ h \in Headers /\ h \in Int
      /\ \A h \in Members(sz2) : h > keep => h >= over
  BY <1>1, <1>4, <1>8
<1>10. /\ \A h \in Members(sz) : /\ nx[h] \in Members(sz) /\ pv[h] \in Members(sz)
                                 /\ pv[nx[h]] = h /\ nx[pv[h]] = h
  BY <1>2 DEF BlockRing
<1>11. keep = b \/ (keep = pv[b] /\ us[keep] = Free)
  BY DEF Keeps
<1>12. (over = nx[b] /\ us[nx[b]] # Free) \/ (over = nx[nx[b]] /\ us[nx[b]] = Free)
  BY DEF Reaches
<1>13. ASSUME NEW h \in Members(sz2), h # keep
       PROVE  nx[h] \in Members(sz2) /\ nx[h] # over
  <2>1. nx[h] \in Members(sz) /\ pv[nx[h]] = h
    BY <1>9, <1>10
  <2>2. nx[h] # b \/ b = keep
    BY <2>1, <1>13, <1>11
  <2>3. h # b \/ b = keep
    BY <1>1, <1>4, <1>9
  <2>4. h # b
    BY <2>3, <1>13
  <2>5. nx[h] # nx[b]
    BY <2>1, <2>4, <1>10
  <2>6. ~ (nx[h] > keep /\ nx[h] < over)
    <3>1. nx[h] = b => b = keep
      BY <2>2
    <3>2. b \in Int /\ keep \in Int
      BY <1>1, <1>4
    <3> QED BY <3>1, <3>2, <2>1, <2>5, <1>1
  <2>7. nx[h] # over
    <3>1. CASE over = nx[b]
      BY <3>1, <2>5
    <3>2. CASE over = nx[nx[b]] /\ us[nx[b]] = Free
      <4>1. nx[h] = over => h = nx[b]
        BY <3>2, <2>1, <1>10
      <4>2. nx[b] \in Members(sz) /\ nx[b] # Cap
        BY <3>2, <1>2, <1>10, Numbers DEF Users, Owners
      <4>3. nx[b] > b /\ nx[b] < over
        BY <3>2, <4>2, <1>2, Neighbours
      <4>4. nx[b] \notin Members(sz2)
        BY <4>2, <4>3, <1>1, <1>4, <1>8
      <4> QED BY <4>1, <4>4
    <3> QED BY <3>1, <3>2, <1>12
  <2> QED BY <2>1, <2>6, <2>7, <1>8
<1>14. ASSUME NEW h \in Members(sz2), h # over
       PROVE  pv[h] \in Members(sz2) /\ pv[h] # keep
  <2>1. pv[h] \in Members(sz) /\ nx[pv[h]] = h
    BY <1>9, <1>10
  <2>2. ASSUME pv[h] = b PROVE FALSE
    <3>1. h = nx[b]
      BY <2>1, <2>2
    <3>2. over = nx[nx[b]] /\ us[h] = Free
      BY <3>1, <1>12, <1>14
    <3>3. h # Cap
      BY <3>2, <1>2, Numbers DEF Users, Owners
    <3>4. h > b /\ h < over
      BY <3>1, <3>2, <3>3, <1>2, <1>9, Neighbours
    <3> QED BY <3>4, <1>1, <1>4, <1>9
  <2>3. ASSUME us[nx[b]] = Free, pv[h] = nx[b] PROVE FALSE
    BY <2>1, <2>3, <1>12, <1>14
  <2>4. ASSUME pv[h] = keep PROVE FALSE
    <3>1. keep # b
      BY <2>2, <2>4
    <3>2. keep = pv[b] /\ nx[keep] = b
      BY <3>1, <1>10, <1>11
    <3>3. h = b
      BY <2>1, <2>4, <3>2
    <3> QED BY <3>1, <3>3, <1>1, <1>4, <1>9
  <2>5. ~ (pv[h] > keep /\ pv[h] < over)
    BY <2>1, <2>2, <2>3, <1>1
  <2> QED BY <2>1, <2>4, <2>5, <1>8
<1>15. \A h \in Members(sz2) :
         /\ nx2[h] \in Members(sz2) /\ pv2[h] \in Members(sz2)
         /\ pv2[nx2[h]] = h /\ nx2[pv2[h]] = h
  <2> SUFFICES ASSUME NEW h \in Members(sz2)
               PROVE  /\ nx2[h] \in Members(sz2) /\ pv2[h] \in Members(sz2)
                      /\ pv2[nx2[h]] = h /\ nx2[pv2[h]] = h
    OBVIOUS
  <2>1. nx2[h] \in Members(sz2) /\ pv2[nx2[h]] = h
    <3>1. CASE h = keep
      BY <3>1, <1>7, <1>9
    <3>2. CASE h # keep
      BY <3>2, <1>7, <1>9, <1>10, <1>13
    <3> QED BY <3>1, <3>2
  <2>2. pv2[h] \in Members(sz2) /\ nx2[pv2[h]] = h
    <3>1. CASE h = over
      BY <3>1, <1>7, <1>9
    <3>2. CASE h # over
      BY <3>2, <1>7, <1>9, <1>10, <1>14
    <3> QED BY <3>1, <3>2
  <2> QED BY <2>1, <2>2
<1>16. ASSUME NEW a \in Addr, sz2[a] > 0
       PROVE  nx2[a] = a + sz2[a] /\ \A c \in Addr : sz2[c] > 0 /\ c > a => c >= nx2[a]
  <2>1. a \in Members(sz2) /\ a # Cap
    BY <1>16, Numbers DEF Members
  <2>2. \A c \in Addr : sz2[c] > 0 => c \in Members(sz2)
    BY DEF Members
  <2>3. CASE a = keep
    BY <2>3, <2>2, <1>1, <1>4, <1>7, <1>9
  <2>4. CASE a # keep
    <3>1. a \in Members(sz) /\ ~ (a > keep /\ a < over)
      BY <2>1, <1>8
    <3>2. sz2[a] = sz[a] /\ nx2[a] = nx[a]
      BY <2>4, <3>1, <1>1, <1>4, <1>7
    <3>3. nx[a] = a + sz[a] /\ \A c \in Members(sz) : c > a => c >= nx[a]
      BY <2>1, <3>1, <1>2, Neighbours
    <3> QED BY <2>2, <3>2, <3>3, <1>9
  <2> QED BY <2>3, <2>4
<1>17. sz2[Cap] = 0 /\ sz2[0] > 0 /\ nx2[Cap] = 0
  <2>1. over <= Cap /\ keep < Cap /\ keep >= 0
    BY <1>1, <1>4, Numbers
  <2>2. CASE keep = 0
    BY <2>1, <2>2, <1>1, <1>3, <1>4, <1>7, Numbers
  <2>3. CASE keep # 0
    BY <2>1, <2>3, <1>1, <1>3, <1>4, <1>7, Numbers
  <2> QED BY <2>2, <2>3
<1>18. BlockRing(sz2, nx2, pv2)
  BY <1>6, <1>7, <1>15, <1>16, <1>17 DEF BlockRing
<1>19. Users(sz2, nx2, us2)
  <2>1. us \in [Headers -> Owners \cup {Free}] /\ us[Cap] = Unowned
    BY <1>2 DEF Users
  <2>2. us2 \in [Headers -> Owners \cup {Free}]
    BY <2>1
  <2>3. \A h \in Headers : us2[h] = IF h = b THEN Free ELSE us[h]
    BY <2>1
  <2>4. us2[Cap] = Unowned
    BY <2>1, <2>3, Numbers
  <2>5. ASSUME NEW h \in Headers \ Members(sz2) PROVE us2[h] = Free
    <3>1. CASE h \in Members(sz)
      <4>1. h > keep /\ h < over
        BY <3>1, <1>8
      <4> QED BY <3>1, <4>1, <2>3, <1>1
    <3>2. CASE h \notin Members(sz)
      BY <3>2, <2>3, <1>2 DEF Users
    <3> QED BY <3>1, <3>2
  <2>6. ASSUME NEW a \in Addr, sz2[a] > 0, us2[a] = Free, us2[nx2[a]] = Free
        PROVE  FALSE
    <3>1. a \in Members(sz2)
      BY <2>6 DEF Members
    <3>2. CASE a = keep
      <4>1. nx2[a] = over /\ over # b
        BY <3>2, <1>1, <1>4, <1>7
      <4> QED BY <4>1, <2>3, <2>6, <1>1, <1>4
    <3>3. CASE a # keep
      <4>1. nx2[a] = nx[a] /\ nx[a] \in Members(sz2) /\ a # b
        BY <3>1, <3>3, <1>1, <1>4, <1>7, <1>9, <1>13
      <4>2. us[a] = Free
        BY <4>1, <2>3, <2>6, <1>9, <3>1
      <4>3. us[nx[a]] = Free => FALSE
        BY <4>2, <3>1, <1>2, <1>9, <2>6, Numbers DEF Users, Members
      <4>4. nx[a] = b
        BY <4>1, <4>3, <2>3, <2>6, <1>9
      <4>5. b = keep
        BY <4>1, <4>4, <1>1, <1>4, <1>9
      <4>6. pv[keep] = a
        BY <4>4, <4>5, <1>10, <1>9, <3>1
      <4> QED BY <4>2, <4>6, <1>1
    <3> QED BY <3>2, <3>3
  <2> QED BY <2>2, <2>4, <2>5, <2>6 DEF Users
<1> QED BY <1>8, <1>18, <1>19 DEF Heap, keep, over, sz2, nx2, pv2, us2

\* Z_Malloc: base gets an owner, the whole of it.
LEMMA FillSound ==
  ASSUME NEW sz, NEW nx, NEW pv, NEW us, Heap(sz, nx, pv, us),
         NEW a \in Addr, sz[a] > 0, NEW u \in Owners, NEW us2, us2 = [us EXCEPT ![a] = u]
  PROVE  Heap(sz, nx, pv, us2)
<1>1. a \in Headers /\ a \in Members(sz) /\ a # Cap /\ u # Free
  BY Numbers DEF Members
<1>2. \A h \in Headers : us2[h] = IF h = a THEN u ELSE us[h]
  BY DEF Heap, Users
<1>3. us2 \in [Headers -> Owners \cup {Free}]
  BY DEF Heap, Users
<1>4. \A c \in Addr : c \in Headers /\ (sz[c] > 0 => nx[c] \in Headers)
  BY Numbers DEF Heap, BlockRing
<1> QED BY <1>1, <1>2, <1>3, <1>4, Numbers DEF Heap, Users

\* Z_Malloc: the front of base gets an owner, the rest is a free block behind it.
SplitSize(sz, a, w) == [sz EXCEPT ![a + w] = sz[a] - w, ![a] = w]
SplitNext(nx, a, w) == [nx EXCEPT ![a + w] = nx[a], ![a] = a + w]
SplitPrev(nx, pv, a, w) == [pv EXCEPT ![a + w] = a, ![nx[a]] = a + w]
SplitUsers(us, a, w, u) == [us EXCEPT ![a + w] = Free, ![a] = u]
LEMMA SplitSound ==
  ASSUME NEW sz, NEW nx, NEW pv, NEW us, Heap(sz, nx, pv, us),
         NEW a \in Addr, us[a] = Free, NEW w \in Nat, w > 0, sz[a] > w, NEW u \in Owners
  PROVE  /\ Heap(SplitSize(sz, a, w), SplitNext(nx, a, w), SplitPrev(nx, pv, a, w),
                 SplitUsers(us, a, w, u))
         /\ Members(SplitSize(sz, a, w)) = Members(sz) \cup {a + w}
         /\ a + w \in Addr /\ a + w \notin Members(sz)
<1> DEFINE new == a + w
           sz2 == SplitSize(sz, a, w)
           nx2 == SplitNext(nx, a, w)
           pv2 == SplitPrev(nx, pv, a, w)
           us2 == SplitUsers(us, a, w, u)
<1>0. /\ new = a + w
      /\ sz2 = [sz EXCEPT ![new] = sz[a] - w, ![a] = w]
      /\ nx2 = [nx EXCEPT ![new] = nx[a], ![a] = new]
      /\ pv2 = [pv EXCEPT ![new] = a, ![nx[a]] = new]
      /\ us2 = [us EXCEPT ![new] = Free, ![a] = u]
  BY DEF SplitSize, SplitNext, SplitPrev, SplitUsers
<1> HIDE DEF new, sz2, nx2, pv2, us2
<1> USE <1>0
<1> DEFINE N == nx[a]
<1>1. BlockRing(sz, nx, pv) /\ Users(sz, nx, us) /\ a \in Members(sz) /\ a # Cap /\ a \in Headers
  BY Numbers DEF Heap, BlockRing, Members
<1>2. /\ sz[a] \in Int /\ N = a + sz[a] /\ N > a /\ N \in Members(sz) /\ N \in Headers /\ N <= Cap
      /\ (\A c \in Members(sz) : c > a => c >= N) /\ pv[N] = a
  BY <1>1, Neighbours
<1>3. /\ sz \in [Headers -> 0 .. Top] /\ nx \in [Headers -> Headers] /\ pv \in [Headers -> Headers]
      /\ sz[Cap] = 0 /\ sz[0] > 0 /\ nx[Cap] = 0
  BY <1>1 DEF BlockRing
<1>4. a \in Int /\ a >= 0 /\ Cap = Top /\ Top \in Nat
  BY <1>1, Numbers
<1>5. new > a /\ new < N /\ new < Cap /\ new \in Int /\ new >= 0
  BY <1>2, <1>4, Numbers
<1>6. new \in Addr /\ new \in Headers /\ new # Cap
  BY <1>4, <1>5 DEF Addr, Headers
<1>7. \A h \in Members(sz) : h \in Headers /\ h \in Int
  BY Numbers DEF Members
<1>8. new \notin Members(sz)
  BY <1>2, <1>5, <1>7
<1> HIDE DEF N
<1>9. sz[a] \in 0 .. Top /\ sz[a] - w \in 0 .. Top /\ w \in 0 .. Top /\ sz[a] - w > 0
  BY <1>1, <1>3, <1>4
<1>10. /\ \A h \in Headers : sz2[h] = IF h = a THEN w ELSE IF h = new THEN sz[a] - w ELSE sz[h]
       /\ sz2 \in [Headers -> 0 .. Top]
  BY <1>1, <1>3, <1>5, <1>6, <1>9
<1>11. /\ \A h \in Headers : nx2[h] = IF h = a THEN new ELSE IF h = new THEN N ELSE nx[h]
       /\ nx2 \in [Headers -> Headers]
  BY <1>1, <1>2, <1>3, <1>5, <1>6 DEF N
<1>12. /\ \A h \in Headers : pv2[h] = IF h = N THEN new ELSE IF h = new THEN a ELSE pv[h]
       /\ pv2 \in [Headers -> Headers]
  BY <1>1, <1>2, <1>3, <1>5, <1>6 DEF N
<1>13. /\ \A h \in Headers : us2[h] = IF h = a THEN u ELSE IF h = new THEN Free ELSE us[h]
       /\ us2 \in [Headers -> Owners \cup {Free}]
  BY <1>1, <1>5, <1>6 DEF Users
<1>14. Members(sz2) = Members(sz) \cup {new}
  <2>1. \A h \in Headers : h \in Members(sz2) <=> h \in Members(sz) \/ h = new
    BY <1>1, <1>6, <1>9, <1>10, Numbers DEF Members
  <2>2. Members(sz2) \subseteq Headers /\ Members(sz) \subseteq Headers
    BY Numbers DEF Members
  <2> QED BY <2>1, <2>2, <1>6
<1>15. \A h \in Members(sz) : /\ nx[h] \in Members(sz) /\ pv[h] \in Members(sz)
                              /\ pv[nx[h]] = h /\ nx[pv[h]] = h
  BY <1>1 DEF BlockRing
<1>16. \A h \in Members(sz) \cup {new} :
         /\ nx2[h] \in Members(sz) \cup {new} /\ pv2[h] \in Members(sz) \cup {new}
         /\ pv2[nx2[h]] = h /\ nx2[pv2[h]] = h
  <2> SUFFICES ASSUME NEW h \in Members(sz) \cup {new}
               PROVE  /\ nx2[h] \in Members(sz) \cup {new} /\ pv2[h] \in Members(sz) \cup {new}
                      /\ pv2[nx2[h]] = h /\ nx2[pv2[h]] = h
    OBVIOUS
  <2>1. CASE h = new
    BY <2>1, <1>1, <1>2, <1>5, <1>6, <1>8, <1>11, <1>12
  <2>2. CASE h \in Members(sz)
    <3>1. nx2[h] \in Members(sz) \cup {new} /\ pv2[nx2[h]] = h
      <4>1. CASE h = a
        BY <4>1, <1>1, <1>2, <1>5, <1>6, <1>8, <1>11, <1>12
      <4>2. CASE h # a
        <5>1. nx[h] # N /\ nx[h] # new /\ nx[h] \in Members(sz) /\ pv[nx[h]] = h /\ h # new
          BY <4>2, <2>2, <1>2, <1>8, <1>15
        <5> QED BY <5>1, <4>2, <2>2, <1>7, <1>11, <1>12
      <4> QED BY <4>1, <4>2
    <3>2. pv2[h] \in Members(sz) \cup {new} /\ nx2[pv2[h]] = h
      <4>1. CASE h = N
        BY <4>1, <1>1, <1>2, <1>5, <1>6, <1>8, <1>11, <1>12
      <4>2. CASE h # N
        <5>1. pv[h] # a /\ pv[h] # new /\ pv[h] \in Members(sz) /\ nx[pv[h]] = h /\ h # new
          BY <4>2, <2>2, <1>8, <1>15 DEF N
        <5> QED BY <5>1, <4>2, <2>2, <1>7, <1>11, <1>12
      <4> QED BY <4>1, <4>2
    <3> QED BY <3>1, <3>2
  <2> QED BY <2>1, <2>2
<1>17. ASSUME NEW c \in Addr, sz2[c] > 0
       PROVE  nx2[c] = c + sz2[c] /\ \A d \in Addr : sz2[d] > 0 /\ d > c => d >= nx2[c]
  <2>1. \A d \in Addr : sz2[d] > 0 => d \in Members(sz) \/ d = new
    BY <1>14 DEF Members
  <2>2. c \in Headers /\ c # Cap /\ c \in Int
    BY Numbers
  <2>3. CASE c = a
    <3>1. nx2[c] = new /\ sz2[c] = w
      BY <2>2, <2>3, <1>10, <1>11
    <3>2. \A d \in Members(sz) : d > a => d >= new
      BY <1>2, <1>4, <1>5, <1>7
    <3>3. nx2[c] = c + sz2[c]
      BY <2>3, <3>1
    <3>4. \A d \in Addr : sz2[d] > 0 /\ d > c => d >= new
      BY <2>1, <2>3, <3>2, <1>5
    <3> QED BY <3>1, <3>3, <3>4
  <2>4. CASE c = new
    <3>1. nx2[c] = N /\ sz2[c] = sz[a] - w
      BY <2>2, <2>4, <1>5, <1>10, <1>11
    <3>2. N = new + (sz[a] - w)
      BY <1>2, <1>4
    <3>3. \A d \in Members(sz) : d > new => d >= N
      BY <1>2, <1>4, <1>5, <1>7
    <3>4. nx2[c] = c + sz2[c]
      BY <2>4, <3>1, <3>2
    <3>5. \A d \in Addr : sz2[d] > 0 /\ d > c => d >= N
      BY <2>1, <2>4, <3>3, <1>5
    <3> QED BY <3>1, <3>4, <3>5
  <2>5. CASE c # a /\ c # new
    <3>1. c \in Members(sz) /\ sz2[c] = sz[c] /\ nx2[c] = nx[c]
      BY <2>1, <2>2, <2>5, <1>10, <1>11, <1>17
    <3>2. /\ nx[c] = c + sz[c] /\ nx[c] > c /\ nx[c] \in Members(sz) /\ pv[nx[c]] = c
          /\ \A d \in Members(sz) : d > c => d >= nx[c]
      BY <2>2, <3>1, <1>1, Neighbours
    <3>3. new > c => new >= nx[c]
      <4>1. c > a => c > new
        BY <3>1, <1>2, <1>5, <1>7, <2>2
      <4>2. a > c => a >= nx[c]
        BY <3>2, <1>1
      <4> QED BY <4>1, <4>2, <3>2, <2>2, <2>5, <1>4, <1>5, <1>7
    <3> QED BY <2>1, <3>1, <3>2, <3>3
  <2> QED BY <2>3, <2>4, <2>5
<1>18. sz2[Cap] = 0 /\ sz2[0] > 0 /\ nx2[Cap] = 0
  <2>1. 0 \in Headers /\ Cap \in Headers
    BY Numbers
  <2> QED BY <2>1, <1>1, <1>3, <1>6, <1>9, <1>10, <1>11
<1>19. BlockRing(sz2, nx2, pv2)
  BY <1>10, <1>11, <1>12, <1>14, <1>16, <1>17, <1>18 DEF BlockRing
<1>20. Users(sz2, nx2, us2)
  <2>1. us2[Cap] = Unowned
    BY <1>1, <1>6, <1>13, Numbers DEF Users
  <2>2. \A h \in Headers \ Members(sz2) : us2[h] = Free
    BY <1>1, <1>13, <1>14 DEF Users
  <2>3. ASSUME NEW c \in Addr, sz2[c] > 0, us2[c] = Free, us2[nx2[c]] = Free
        PROVE  FALSE
    <3>1. c \in Headers /\ c # a
      BY <2>3, <1>13, Numbers
    <3>2. us[N] # Free /\ N # a /\ N # new
      BY <1>1, <1>2, <1>5, <1>9 DEF Users, N
    <3>3. CASE c = new
      BY <2>3, <3>1, <3>2, <3>3, <1>2, <1>11, <1>13
    <3>4. CASE c # new
      <4>1. c \in Members(sz) /\ sz[c] > 0 /\ us[c] = Free /\ nx2[c] = nx[c] /\ nx[c] \in Members(sz)
        BY <2>3, <3>1, <3>4, <1>10, <1>11, <1>13, <1>15 DEF Members
      <4>2. us[nx[c]] # Free
        BY <4>1, <1>1 DEF Users
      <4> QED BY <2>3, <4>1, <4>2, <1>7, <1>8, <1>13
    <3> QED BY <3>3, <3>4
  <2> QED BY <2>1, <2>2, <2>3, <1>13 DEF Users
<1> QED BY <1>6, <1>8, <1>14, <1>19, <1>20 DEF Heap, new, sz2, nx2, pv2, us2

-----------------------------------------------------------------------------
(* The allocator's steps.                                                  *)

\* What every step but the loops' own pointers keeps.
Store ==
  /\ Heap(size, next, prev, user) /\ CacheIsTrue
  /\ tag \in [Headers -> Tags] /\ tag[Cap] = "static"
  /\ lumpcache \in [Lumps -> Addr \cup {Null}]
  /\ rover \in Members(size) /\ latest \in Addr \cup {Null} /\ Latest
Loops ==
  /\ mode \in {"idle", "scan", "fits", "freetags", "failed"}
  /\ {base, at, start} \subseteq Headers
  /\ want \in [size : Nat, tag : Tags, user : Owners]
  /\ mode = "scan" => Searching /\ Wanting
  /\ mode = "fits" => Wanting /\ user[base] = Free /\ size[base] >= want.size

LEMMA InParts == ZoneInv <=> Store /\ Loops
<1>1. ZoneInv => Store /\ Loops
  BY DEF ZoneInv, TypeOK, Store, Loops
<1>2. Store => TypeOK \/ ~ Loops
  <2>1. rover \in Members(size) => rover \in Headers
    BY Numbers DEF Members
  <2> QED BY <2>1 DEF Store, Loops, TypeOK, Heap, BlockRing, Users
<1> QED BY <1>1, <1>2 DEF ZoneInv, Store, Loops

LEMMA InPartsNext == ZoneInv' <=> Store' /\ Loops'
  BY InParts, PTL

LEMMA ZoneStart == Init => ZoneInv
<1> SUFFICES ASSUME Init PROVE Store /\ Loops
  BY InParts
<1>0. \A h \in Headers : size[h] = IF h = 0 THEN Top ELSE 0
  BY DEF Init
<1>1. Members(size) = {0, Cap}
  <2>1. \A h \in Addr : size[h] > 0 <=> h = 0
    BY <1>0, Numbers
  <2> QED BY <2>1, Numbers DEF Members
<1>2. BlockRing(size, next, prev)
  <2>1. size[0] = Top /\ next[0] = Cap /\ prev[0] = Cap /\ size[Cap] = 0 /\ next[Cap] = 0 /\ prev[Cap] = 0
    BY Numbers DEF Init
  <2>2. \A b \in Addr : size[b] > 0 => b = 0
    BY Numbers DEF Init
  <2>3. size \in [Headers -> 0 .. Top] /\ next \in [Headers -> Headers] /\ prev \in [Headers -> Headers]
    BY Numbers DEF Init
  <2> QED BY <1>1, <2>1, <2>2, <2>3, Numbers DEF BlockRing
<1>3. Users(size, next, user)
  <2>1. \A h \in Headers : user[h] = IF h = Cap THEN Unowned ELSE Free
    BY DEF Init
  <2>2. user \in [Headers -> Owners \cup {Free}]
    BY DEF Init, Owners
  <2>3. next[0] = Cap /\ Unowned # Free
    BY Numbers DEF Init, Owners
  <2>4. \A b \in Addr : size[b] > 0 => b = 0
    BY <1>0, Numbers
  <2> QED BY <1>1, <2>1, <2>2, <2>3, <2>4, Numbers DEF Users
<1>4. CacheIsTrue
  BY ZoneAssumption, Numbers DEF Init, CacheIsTrue, blocks
<1>5. Store
  BY <1>1, <1>2, <1>3, <1>4, Numbers DEF Init, Store, Heap, Latest, Tags
<1>6. Loops
  BY Numbers DEF Init, Loops, NoWant, Tags, Owners
<1> QED BY <1>5, <1>6

\* Z_Free, wherever it is called.
LEMMA ReleaseKeeps ==
  ASSUME Store, NEW b \in Addr, size[b] > 0, user[b] # Free, Release(b),
         NEW keep, keep = Keeps(next, prev, user, b),
         NEW over, over = Reaches(next, user, b)
  PROVE  /\ Store'
         /\ \A h \in Members(size) : user[h] # Free /\ h # b =>
              h \in Members(size') /\ user'[h] = user[h]
         /\ keep \in Members(size') /\ over \in Members(size')
         /\ user'[keep] = Free /\ next'[keep] = over
         /\ \A h \in Members(size) : h # keep => next'[h] = next[h]
<1>1. b \in Members(size) /\ b # Cap /\ b \in Headers
  BY Numbers DEF Members
<1>2. /\ size' = Merged(size, next, prev, user, b)
      /\ next' = [next EXCEPT ![keep] = over]
      /\ prev' = [prev EXCEPT ![over] = keep]
      /\ user' = [user EXCEPT ![b] = Free]
  BY DEF Release, Back, Fore, Joined, Merged, Keeps, Reaches
<1>3. Heap(size, next, prev, user)
  BY DEF Store
<1>4. Heap(size', next', prev', user')
  <2>1. Heap(Merged(size, next, prev, user, b), MergedNext(next, prev, user, b),
             MergedPrev(next, prev, user, b), MergedUsers(user, b))
    BY <1>1, <1>3, MergeSound
  <2>2. /\ MergedNext(next, prev, user, b) = next' /\ MergedPrev(next, prev, user, b) = prev'
        /\ MergedUsers(user, b) = user'
    BY <1>2 DEF MergedNext, MergedPrev, MergedUsers
  <2> QED BY <1>2, <2>1, <2>2
<1>5. Members(size') = {h \in Members(size) : ~ (h > keep /\ h < over)}
  BY <1>1, <1>2, <1>3, MergeSound
<1>6. /\ keep \in Members(size) /\ keep <= b /\ over \in Members(size) /\ over > b
      /\ \A h \in Members(size) : h > keep /\ h < over => h = b \/ (user[h] = Free /\ h = next[b])
  BY <1>1, <1>3, MergeSpan
<1>7. \A h \in Members(size) : h \in Headers /\ h \in Int
  BY Numbers DEF Members
<1>8. keep \in Members(size') /\ over \in Members(size')
  BY <1>5, <1>6, <1>7
<1>9. /\ user \in [Headers -> Owners \cup {Free}] /\ next \in [Headers -> Headers]
      /\ \A h \in Members(size) : prev[next[h]] = h /\ next[h] \in Members(size)
  BY <1>3 DEF Heap, Users, BlockRing
<1>10. \A h \in Headers : user'[h] = IF h = b THEN Free ELSE user[h]
  BY <1>2, <1>9
<1>11. \A h \in Headers : next'[h] = IF h = keep THEN over ELSE next[h]
  BY <1>2, <1>9
<1>12. \A h \in Members(size) : user[h] # Free /\ h # b =>
         h \in Members(size') /\ user'[h] = user[h]
  BY <1>5, <1>6, <1>7, <1>10
<1>13. keep = b \/ (keep = prev[b] /\ user[keep] = Free)
  BY DEF Keeps
<1>14. user'[keep] = Free
  BY <1>6, <1>7, <1>10, <1>13
<1>15. CacheIsTrue'
  <2>1. lumpcache' = [l \in Lumps |-> IF l = user[b] THEN Null ELSE lumpcache[l]]
    BY DEF Release, Disowned
  <2>2. /\ \A l \in Lumps : lumpcache[l] # Null =>
             lumpcache[l] \in Addr /\ size[lumpcache[l]] > 0 /\ user[lumpcache[l]] = l
        /\ \A c \in Addr : size[c] > 0 /\ user[c] \in Lumps => lumpcache[user[c]] = c
    BY DEF Store, CacheIsTrue, blocks
  <2>3. Free \notin Lumps
    BY Numbers DEF Owners
  <2>4. \A c \in Addr : size'[c] > 0 <=> c \in Members(size')
    BY Numbers DEF Members
  <2>5. \A c \in Addr : size[c] > 0 <=> c \in Members(size)
    BY Numbers DEF Members
  <2>6. ASSUME NEW l \in Lumps, lumpcache'[l] # Null
        PROVE  lumpcache'[l] \in Addr /\ size'[lumpcache'[l]] > 0 /\ user'[lumpcache'[l]] = l
    <3>1. l # user[b] /\ lumpcache'[l] = lumpcache[l]
      BY <2>1, <2>6
    <3> QED BY <2>2, <2>3, <2>4, <2>5, <2>6, <3>1, <1>12
  <2>7. ASSUME NEW c \in Addr, size'[c] > 0, user'[c] \in Lumps
        PROVE  lumpcache'[user'[c]] = c
    <3>1. c \in Members(size) /\ c \in Headers
      BY <2>4, <2>7, <1>5, <1>7
    <3>2. c # b /\ user'[c] = user[c]
      BY <2>3, <2>7, <3>1, <1>10
    <3>3. lumpcache[user[c]] = c
      BY <2>2, <2>5, <2>7, <3>1, <3>2
    <3>4. user[c] # user[b]
      BY <2>2, <2>7, <3>2, <3>3
    <3> QED BY <2>1, <2>7, <3>2, <3>3, <3>4
  <2> QED BY <2>6, <2>7 DEF CacheIsTrue, blocks
<1>16. /\ tag' \in [Headers -> Tags] /\ tag'[Cap] = "static"
       /\ lumpcache' \in [Lumps -> Addr \cup {Null}]
       /\ latest' \in Addr \cup {Null}
  BY <1>1, Numbers DEF Store, Release, Disowned, Tags
<1>17. rover' = IF (user[prev[b]] = Free /\ rover = b) \/ (user[next[b]] = Free /\ rover = next[b])
                THEN keep ELSE rover
  BY DEF Release, Back, Fore, Keeps
<1>18. rover' \in Members(size')
  <2>1. CASE rover = b
    BY <2>1, <1>1, <1>8, <1>13, <1>17 DEF Keeps
  <2>2. CASE rover # b /\ rover = next[b] /\ user[next[b]] = Free
    BY <2>2, <1>8, <1>17
  <2>3. CASE rover # b /\ ~ (rover = next[b] /\ user[next[b]] = Free)
    BY <2>3, <1>5, <1>6, <1>17 DEF Store
  <2> QED BY <2>1, <2>2, <2>3
<1>19. Latest'
  <2>1. latest' = IF latest = b THEN Null ELSE latest
    BY DEF Release
  <2> SUFFICES ASSUME latest # b, latest # Null
               PROVE  /\ latest \in Addr /\ size'[latest] > 0
                      /\ user'[latest] # Free /\ next'[latest] = rover'
    BY <2>1 DEF Latest
  <2>2. latest \in Members(size) /\ latest \in Addr /\ user[latest] # Free /\ next[latest] = rover
    BY DEF Store, Latest, Members
  <2>3. latest \in Members(size') /\ user'[latest] # Free
    BY <2>2, <1>12
  <2>4. latest # keep
    BY <2>2, <1>13
  <2>5. next'[latest] = rover
    BY <2>2, <2>4, <1>7, <1>11
  <2>6. prev[rover] = latest
    BY <2>2, <1>9
  <2>7. rover' = rover
    BY <2>2, <2>6, <1>1, <1>9, <1>17
  <2>8. size'[latest] > 0
    BY <2>2, <2>3, Numbers DEF Members
  <2> QED BY <2>2, <2>3, <2>5, <2>7, <2>8
<1>20. \A h \in Members(size) : h # keep => next'[h] = next[h]
  BY <1>7, <1>11
<1>21. next'[keep] = over
  BY <1>6, <1>7, <1>11
<1> QED BY <1>4, <1>8, <1>12, <1>14, <1>15, <1>16, <1>18, <1>19, <1>20, <1>21 DEF Store

LEMMA FreeKeeps ==
  ASSUME ZoneInv, NEW b \in Addr, Z_Free(b)
  PROVE  ZoneInv'
<1>1. Store /\ Loops
  BY InParts
<1>2. size[b] > 0 /\ user[b] # Free /\ Release(b)
  BY DEF Z_Free, blocks
<1>3. Store'
  BY <1>1, <1>2, ReleaseKeeps
<1>4. Loops'
  BY <1>1 DEF Loops, Z_Free, loopVars
<1> QED BY <1>3, <1>4, InPartsNext

\* Z_Malloc starts its search.
LEMMA MallocKeeps ==
  ASSUME ZoneInv, NEW n \in Nat, n > 0, NEW t \in Tags, NEW u \in Owners,
         u \in Lumps => lumpcache[u] = Null, Z_Malloc(n, t, u)
  PROVE  ZoneInv'
<1>1. Store /\ Loops
  BY InParts
<1>2. /\ size' = size /\ next' = next /\ prev' = prev /\ user' = user /\ tag' = tag
      /\ lumpcache' = lumpcache /\ rover' = rover /\ latest' = latest
  BY DEF Z_Malloc, heapVars
<1>3. Store'
  BY <1>1, <1>2 DEF Store, Latest, CacheIsTrue, blocks
<1>4. /\ mode' = "scan" /\ at' = base' /\ start' = prev[base']
      /\ base' = IF user[prev[rover]] = Free THEN prev[rover] ELSE rover
      /\ want' = [size |-> n, tag |-> t, user |-> u]
  BY DEF Z_Malloc
<1>5. /\ rover \in Members(size)
      /\ \A h \in Members(size) : /\ prev[h] \in Members(size) /\ next[prev[h]] = h /\ prev[next[h]] = h
                                  /\ h \in Headers
      /\ \A h \in Members(size) : user[h] = Free => user[next[h]] # Free
  <2>1. user[Cap] # Free
    BY <1>1, Numbers DEF Store, Heap, Users, Owners
  <2> QED BY <1>1, <2>1, Numbers DEF Store, Heap, BlockRing, Users, Members
<1>6. base' \in Members(size) /\ user[prev[base']] # Free
  BY <1>4, <1>5
<1>7. latest # Null => latest = prev[base']
  <2> SUFFICES ASSUME latest # Null PROVE latest = prev[base']
    OBVIOUS
  <2>1. latest \in Members(size) /\ next[latest] = rover /\ user[latest] # Free
    BY <1>1 DEF Store, Latest, Members
  <2>2. prev[rover] = latest
    BY <2>1, <1>5
  <2> QED BY <2>1, <2>2, <1>4
<1>8. Searching'
  BY <1>2, <1>4, <1>5, <1>6, <1>7 DEF Searching
<1>9. Wanting'
  BY <1>2, <1>4 DEF Wanting
<1>10. {base', at', start'} \subseteq Headers
  BY <1>4, <1>5, <1>6
<1>11. Loops'
  BY <1>4, <1>8, <1>9, <1>10 DEF Loops
<1> QED BY <1>3, <1>11, InPartsNext

\* The passes that leave the heap alone: past a used block, over a free one, and
\* all the way around.
LEMMA PassKeeps ==
  ASSUME ZoneInv, PassUsed \/ PassFree \/ Fail
  PROVE  ZoneInv'
<1>1. Store /\ Loops /\ Searching /\ Wanting /\ mode = "scan"
  BY InParts DEF Loops, PassUsed, PassFree, Fail
<1>2. /\ size' = size /\ next' = next /\ prev' = prev /\ user' = user /\ tag' = tag
      /\ lumpcache' = lumpcache /\ rover' = rover /\ latest' = latest
      /\ start' = start /\ want' = want
  BY DEF PassUsed, PassFree, Fail, heapVars, loopVars
<1>3. Store'
  BY <1>1, <1>2 DEF Store, Latest, CacheIsTrue, blocks
<1>4. \A h \in Members(size) : /\ next[h] \in Members(size) /\ prev[next[h]] = h /\ h \in Headers
                               /\ (user[h] = Free => user[next[h]] # Free)
  <2>1. user[Cap] # Free
    BY <1>1, Numbers DEF Store, Heap, Users, Owners
  <2> QED BY <1>1, <2>1, Numbers DEF Store, Heap, BlockRing, Users, Members
<1>5. base \in Members(size) /\ at \in Members(size) /\ start \in Members(size)
  BY <1>1 DEF Searching
<1>6. Wanting'
  BY <1>1, <1>2 DEF Wanting
<1>7. CASE Fail
  <2>1. mode' = "failed" /\ base' = base /\ at' = at
    BY <1>7 DEF Fail, loopVars
  <2>2. Loops'
    BY <1>1, <1>2, <2>1 DEF Loops
  <2> QED BY <1>3, <2>2, InPartsNext
<1>8. CASE PassUsed
  <2>1. base' = next[at] /\ at' = next[at] /\ user[at] # Free
    BY <1>8 DEF PassUsed
  <2>2. mode' = IF user[base'] = Free /\ size[base'] >= want.size THEN "fits" ELSE "scan"
    BY <1>8, <1>2 DEF PassUsed, Scanned
  <2>3. Searching'
    BY <1>1, <1>2, <1>4, <1>5, <2>1 DEF Searching
  <2>4. base' \in Headers /\ at' \in Headers /\ start' \in Headers
    BY <1>2, <1>4, <1>5, <2>1
  <2>5. Loops'
    BY <1>1, <1>2, <1>6, <2>2, <2>3, <2>4 DEF Loops
  <2> QED BY <1>3, <2>5, InPartsNext
<1>9. CASE PassFree
  <2>1. base' = base /\ at' = next[at] /\ user[at] = Free
    BY <1>9 DEF PassFree
  <2>2. mode' = IF user[base'] = Free /\ size[base'] >= want.size THEN "fits" ELSE "scan"
    BY <1>9, <1>2 DEF PassFree, Scanned
  <2>3. at = base
    BY <1>1, <1>4, <1>5, <2>1 DEF Searching
  <2>4. Searching'
    BY <1>1, <1>2, <1>4, <1>5, <2>1, <2>3 DEF Searching
  <2>5. base' \in Headers /\ at' \in Headers /\ start' \in Headers
    BY <1>2, <1>4, <1>5, <2>1
  <2>6. Loops'
    BY <1>1, <1>2, <1>6, <2>2, <2>4, <2>5 DEF Loops
  <2> QED BY <1>3, <2>6, InPartsNext
<1> QED BY <1>7, <1>8, <1>9

\* The block at the rover is purged; base, the free space before it, grows.
LEMMA PurgeKeeps ==
  ASSUME ZoneInv, Purge
  PROVE  ZoneInv' /\ (latest # Null => user'[latest] # Free)
<1> DEFINE keep == Keeps(next, prev, user, at)
           over == Reaches(next, user, at)
<1>1. Store /\ Loops /\ Searching /\ Wanting /\ mode = "scan"
  BY InParts DEF Loops, Purge
<1>2. /\ at # start /\ user[at] # Free /\ Purgable(at) /\ Release(at)
      /\ base' = next'[prev[base]] /\ at' = next'[base'] /\ start' = start /\ want' = want
      /\ Scanned
  BY DEF Purge, Around
<1>3. at \in Addr /\ size[at] > 0 /\ at \in Members(size) /\ base \in Members(size) /\ start \in Members(size)
  <2>1. at # Cap
    BY <1>1, <1>2 DEF Store, Purgable
  <2> QED BY <1>1, <2>1 DEF Searching, Members
<1>4. /\ Store'
      /\ \A h \in Members(size) : user[h] # Free /\ h # at =>
           h \in Members(size') /\ user'[h] = user[h]
      /\ keep \in Members(size') /\ over \in Members(size')
      /\ user'[keep] = Free /\ next'[keep] = over
      /\ \A h \in Members(size) : h # keep => next'[h] = next[h]
  BY <1>1, <1>2, <1>3, ReleaseKeeps
<1>5. /\ \A h \in Members(size) : /\ next[h] \in Members(size) /\ prev[h] \in Members(size)
                                  /\ prev[next[h]] = h /\ next[prev[h]] = h
                                  /\ (user[h] = Free => user[next[h]] # Free)
  <2>1. user[Cap] # Free
    BY <1>1, Numbers DEF Store, Heap, Users, Owners
  <2> QED BY <1>1, <2>1, Numbers DEF Store, Heap, BlockRing, Users, Members
<1>6. base = keep /\ user[prev[base]] # Free
  <2>1. CASE at = base /\ user[prev[base]] # Free
    BY <2>1 DEF Keeps
  <2>2. CASE at = next[base] /\ user[base] = Free
    BY <2>2, <1>3, <1>5 DEF Keeps
  <2> QED BY <1>1, <2>1, <2>2 DEF Searching
<1>7. prev[base] # base
  <2>1. CASE at = base
    <3>1. next[at] # at
      BY <1>1, <1>2, <1>3, Neighbours, Numbers DEF Store, Heap
    <3> QED BY <2>1, <3>1, <1>3, <1>5
  <2>2. CASE at # base
    BY <2>2, <1>1, <1>6 DEF Searching
  <2> QED BY <2>1, <2>2
<1>8. base' = keep /\ at' = over
  BY <1>2, <1>3, <1>4, <1>5, <1>6, <1>7
<1>9. start \in Members(size') /\ user'[start] # Free
  BY <1>1, <1>2, <1>3, <1>4 DEF Searching
<1>10. latest' # Null => latest' = start
  BY <1>1, <1>2 DEF Release, Searching
<1>11. Searching'
  BY <1>2, <1>4, <1>8, <1>9, <1>10 DEF Searching
<1>12. Wanting'
  <2>1. \A l \in Lumps : lumpcache[l] = Null => lumpcache'[l] = Null
    BY <1>2 DEF Release, Disowned
  <2> QED BY <1>1, <1>2, <2>1 DEF Wanting
<1>13. \A h \in Members(size') : h \in Headers
  BY Numbers DEF Members
<1>14. Loops'
  <2>1. mode' = IF user'[base'] = Free /\ size'[base'] >= want.size THEN "fits" ELSE "scan"
    BY <1>2 DEF Scanned
  <2>2. base' \in Headers /\ at' \in Headers /\ start' \in Headers
    BY <1>2, <1>4, <1>8, <1>9, <1>13
  <2>3. mode' = "fits" => user'[base'] = Free /\ size'[base'] >= want'.size
    BY <1>2, <2>1
  <2> QED BY <1>1, <1>2, <1>11, <1>12, <2>1, <2>2, <2>3 DEF Loops
<1>15. latest # Null => user'[latest] # Free
  BY <1>1, <1>9 DEF Searching
<1> QED BY <1>4, <1>14, <1>15, InPartsNext

\* Z_Malloc gives base away, whole or without its rest.
LEMMA TakeKeeps ==
  ASSUME ZoneInv, Take
  PROVE  ZoneInv'
<1> DEFINE new == base + want.size
<1>1. /\ Store /\ Loops /\ Wanting /\ mode = "fits"
      /\ user[base] = Free /\ size[base] >= want.size /\ want.size > 0 /\ want.size \in Nat
      /\ want.user \in Owners /\ want.tag \in Tags
  BY InParts DEF Loops, Take, Wanting
<1>2. base \in Headers /\ size[base] \in Nat /\ size[Cap] = 0
  <2>1. size \in [Headers -> 0 .. Top] /\ size[Cap] = 0
    BY <1>1 DEF Store, Heap, BlockRing
  <2>2. base \in Headers
    BY <1>1 DEF Loops
  <2> QED BY <2>1, <2>2, Numbers
<1>3. base \in Addr /\ size[base] > 0 /\ base \in Members(size)
  <2>1. size[base] > 0
    BY <1>1, <1>2
  <2>2. base # Cap
    BY <2>1, <1>2
  <2> QED BY <2>1, <2>2, <1>2, Numbers DEF Members
<1>4. /\ Heap(size', next', prev', user')
      /\ \A h \in Members(size) : h \in Members(size')
      /\ \A c \in Addr : c # base => (c \in Members(size') /\ user'[c] # Free
                                        <=> c \in Members(size) /\ user[c] # Free)
      /\ \A c \in Addr : c # base /\ user'[c] # Free => user'[c] = user[c]
      /\ user'[base] = want.user
      /\ tag' \in [Headers -> Tags] /\ tag'[Cap] = "static"
  <2>1. CASE size[base] - want.size > MinFragment
    <3>1. size[base] > want.size
      BY <2>1, <1>1, <1>2, ZoneAssumption
    <3>2. /\ size' = [size EXCEPT ![new] = size[base] - want.size, ![base] = want.size]
          /\ next' = [next EXCEPT ![new] = next[base], ![base] = new]
          /\ prev' = [prev EXCEPT ![new] = base, ![next[base]] = new]
          /\ user' = [user EXCEPT ![new] = Free, ![base] = want.user]
          /\ tag' = [tag EXCEPT ![new] = "static", ![base] = want.tag]
      BY <2>1 DEF Take
    <3>3. /\ Heap(size', next', prev', user')
          /\ Members(size') = Members(size) \cup {new} /\ new \in Addr /\ new \notin Members(size)
      <4> DEFINE w == want.size
                 u == want.user
      <4>1. w \in Nat /\ w > 0 /\ size[base] > w /\ u \in Owners
        BY <3>1, <1>1
      <4> HIDE DEF w, u
      <4>2. /\ Heap(SplitSize(size, base, w), SplitNext(next, base, w), SplitPrev(next, prev, base, w),
                    SplitUsers(user, base, w, u))
            /\ Members(SplitSize(size, base, w)) = Members(size) \cup {base + w}
            /\ base + w \in Addr /\ base + w \notin Members(size)
        BY <4>1, <1>1, <1>3, SplitSound DEF Store
      <4>3. /\ size' = SplitSize(size, base, w) /\ next' = SplitNext(next, base, w)
            /\ prev' = SplitPrev(next, prev, base, w) /\ user' = SplitUsers(user, base, w, u)
        BY <3>2 DEF w, u, SplitSize, SplitNext, SplitPrev, SplitUsers
      <4>4. new = base + w
        BY DEF w
      <4> QED BY <4>2, <4>3, <4>4
    <3> HIDE DEF new
    <3>4. user \in [Headers -> Owners \cup {Free}] /\ new \in Headers
      BY <3>3, <1>1, Numbers DEF Store, Heap, Users
    <3>5. \A h \in Headers : user'[h] = IF h = base THEN want.user ELSE IF h = new THEN Free ELSE user[h]
      BY <3>2, <3>3, <3>4, <1>2, <1>3
    <3>6. user[new] = Free
      BY <3>3, <3>4, <1>1 DEF Store, Heap, Users
    <3>7. tag' \in [Headers -> Tags] /\ tag'[Cap] = "static"
      BY <3>2, <3>3, <1>1, <1>3, Numbers DEF Store, Tags
    <3> QED BY <3>3, <3>5, <3>6, <3>7, <1>2, Numbers
  <2>2. CASE ~ (size[base] - want.size > MinFragment)
    <3>1. /\ size' = size /\ next' = next /\ prev' = prev
          /\ user' = [user EXCEPT ![base] = want.user] /\ tag' = [tag EXCEPT ![base] = want.tag]
      BY <2>2 DEF Take
    <3>2. Heap(size, next, prev, [user EXCEPT ![base] = want.user])
      BY <1>1, <1>3, FillSound DEF Store
    <3>3. Heap(size', next', prev', user')
      BY <3>1, <3>2
    <3>4. \A h \in Headers : user'[h] = IF h = base THEN want.user ELSE user[h]
      BY <3>1, <1>1 DEF Store, Heap, Users
    <3>5. tag' \in [Headers -> Tags] /\ tag'[Cap] = "static"
      BY <3>1, <1>1, <1>3, Numbers DEF Store, Tags
    <3> QED BY <3>1, <3>3, <3>4, <3>5, <1>2, Numbers
  <2> QED BY <2>1, <2>2
<1>5. /\ lumpcache' = [l \in Lumps |-> IF l = want.user THEN base ELSE lumpcache[l]]
      /\ rover' = next'[base] /\ latest' = base
      /\ mode' = "idle" /\ want' = NoWant /\ base' = Cap /\ at' = Cap /\ start' = Cap
  BY DEF Take, NextRover
<1>6. CacheIsTrue'
  <2>1. /\ \A l \in Lumps : lumpcache[l] # Null =>
             lumpcache[l] \in Addr /\ size[lumpcache[l]] > 0 /\ user[lumpcache[l]] = l
        /\ \A c \in Addr : size[c] > 0 /\ user[c] \in Lumps => lumpcache[user[c]] = c
        /\ \A l \in Lumps : lumpcache[l] \in Addr \cup {Null}
    BY <1>1 DEF Store, CacheIsTrue, blocks
  <2>2. /\ \A c \in Addr : size'[c] > 0 <=> c \in Members(size')
        /\ \A c \in Addr : size[c] > 0 <=> c \in Members(size)
    BY Numbers DEF Members
  <2>3. Free \notin Lumps /\ Null \notin Addr
    BY Numbers DEF Owners
  <2>4. ASSUME NEW l \in Lumps, lumpcache'[l] # Null
        PROVE  lumpcache'[l] \in Addr /\ size'[lumpcache'[l]] > 0 /\ user'[lumpcache'[l]] = l
    <3>1. CASE l = want.user
      BY <3>1, <2>2, <1>3, <1>4, <1>5
    <3>2. CASE l # want.user
      <4> DEFINE c == lumpcache[l]
      <4>1. lumpcache'[l] = c /\ c \in Addr /\ c \in Members(size) /\ user[c] = l /\ c # base
        BY <3>2, <2>1, <2>2, <2>3, <2>4, <1>1, <1>5
      <4>2. c \in Members(size') /\ user'[c] # Free
        BY <4>1, <2>3, <1>4
      <4> QED BY <4>1, <4>2, <2>2, <1>4
    <3> QED BY <3>1, <3>2
  <2>5. ASSUME NEW c \in Addr, size'[c] > 0, user'[c] \in Lumps
        PROVE  lumpcache'[user'[c]] = c
    <3>1. CASE c = base
      BY <3>1, <2>5, <1>4, <1>5
    <3>2. CASE c # base
      <4>1. c \in Members(size) /\ user'[c] = user[c]
        BY <3>2, <2>2, <2>3, <2>5, <1>4
      <4>2. lumpcache[user[c]] = c
        BY <4>1, <2>1, <2>2, <2>5
      <4>3. user[c] # want.user
        BY <4>1, <4>2, <2>3, <2>5, <1>1 DEF Wanting
      <4> QED BY <4>1, <4>2, <4>3, <2>5, <1>5
    <3> QED BY <3>1, <3>2
  <2> QED BY <2>4, <2>5 DEF CacheIsTrue, blocks
<1>7. base \in Members(size') /\ size'[base] > 0 /\ next'[base] \in Members(size') /\ user'[base] # Free
  <2>1. base \in Members(size')
    BY <1>3, <1>4
  <2>2. want.user # Free
    BY <1>1, Numbers
  <2> QED BY <2>1, <2>2, <1>3, <1>4, Numbers DEF Heap, BlockRing, Members
<1>8. lumpcache' \in [Lumps -> Addr \cup {Null}]
  BY <1>1, <1>3, <1>5 DEF Store
<1>9. Latest'
  BY <1>3, <1>5, <1>7 DEF Latest
<1>10. Store'
  BY <1>3, <1>4, <1>5, <1>6, <1>7, <1>8, <1>9 DEF Store
<1>11. Loops'
  BY <1>5, Numbers DEF Loops, NoWant, Tags, Owners
<1> QED BY <1>10, <1>11, InPartsNext

\* Z_FreeTags: a link read from a header that was merged away meets no block in
\* use, for such a header stays free.
LEMMA FreeTagsKeeps ==
  ASSUME ZoneInv, Z_FreeTags \/ FreeTagged \/ FreedTags
  PROVE  ZoneInv'
<1>1. Store /\ Loops
  BY InParts
<1>2. next \in [Headers -> Headers] /\ at \in Headers /\ Cap \in Headers
  BY <1>1, Numbers DEF Store, Heap, BlockRing, Loops
<1>3. Loops'
  <2>1. /\ base' = base /\ start' = start /\ want' = want /\ at' \in Headers
        /\ mode' \in {"freetags", "idle"}
    BY <1>2 DEF Z_FreeTags, FreeTagged, FreedTags, loopVars
  <2> QED BY <2>1, <1>1 DEF Loops
<1>4. CASE FreeTagged /\ user[at] # Free /\ tag[at] = "level"
  <2>1. Release(at) /\ at \in Addr
    BY <1>2, <1>4, Numbers DEF FreeTagged
  <2>2. size[at] > 0
    BY <2>1, <1>1, <1>2, <1>4, Numbers DEF Store, Heap, Users, Members
  <2>3. Store'
    BY <2>1, <2>2, <1>1, <1>4, ReleaseKeeps
  <2> QED BY <2>3, <1>3, InPartsNext
<1>5. CASE ~ (FreeTagged /\ user[at] # Free /\ tag[at] = "level")
  <2>1. UNCHANGED <<heapVars, rover, latest>>
    BY <1>5 DEF Z_FreeTags, FreeTagged, FreedTags
  <2>2. Store'
    BY <2>1, <1>1 DEF Store, Latest, CacheIsTrue, blocks, heapVars
  <2> QED BY <2>2, <1>3, InPartsNext
<1> QED BY <1>4, <1>5

\* W_CacheLumpNum asks only for what is not cached.
LEMMA CacheKeeps ==
  ASSUME ZoneInv, NEW l \in Lumps, NEW t \in Tags, W_CacheLumpNum(l, t)
  PROVE  ZoneInv'
<1>1. CASE lumpcache[l] = Null
  <2>1. Z_Malloc(Length[l], t, l) /\ Length[l] \in Nat /\ Length[l] > 0 /\ l \in Owners
    BY <1>1, ZoneAssumption DEF W_CacheLumpNum, Owners
  <2> QED BY <1>1, <2>1, MallocKeeps
<1>2. CASE lumpcache[l] # Null
  <2>1. Store /\ Loops
    BY InParts
  <2>2. /\ mode = "idle" /\ tag' = [tag EXCEPT ![lumpcache[l]] = t]
        /\ UNCHANGED <<size, next, prev, user, lumpcache, rover, mode, base, at, start, want, latest>>
    BY <1>2 DEF W_CacheLumpNum, loopVars
  <2>3. lumpcache[l] \in Addr
    BY <1>2, <2>1 DEF Store
  <2>4. tag' \in [Headers -> Tags] /\ tag'[Cap] = "static"
    BY <2>1, <2>2, <2>3, Numbers DEF Store
  <2>5. Store'
    BY <2>1, <2>2, <2>4 DEF Store, Latest, CacheIsTrue, blocks
  <2>6. Loops'
    BY <2>1, <2>2 DEF Loops
  <2> QED BY <2>5, <2>6, InPartsNext
<1> QED BY <1>1, <1>2

-----------------------------------------------------------------------------
\* Each step keeps the invariant, and a search spares the block fetched last.
LEMMA ZoneStep ==
  ASSUME ZoneInv, Next
  PROVE  ZoneInv' /\ (mode = "scan" /\ latest # Null => user'[latest] # Free)
<1>1. ZoneInv'
  <2>1. CASE Scan
    BY <2>1, PassKeeps, PurgeKeeps, TakeKeeps DEF Scan
  <2>2. CASE FreeTagged \/ FreedTags \/ Z_FreeTags
    BY <2>2, FreeTagsKeeps
  <2>3. ASSUME NEW n \in Sizes, NEW t \in {"static", "level"}, Z_Malloc(n, t, Unowned)
        PROVE  ZoneInv'
    <3>1. n \in Nat /\ n > 0 /\ t \in Tags /\ Unowned \in Owners /\ Unowned \notin Lumps
      BY ZoneAssumption DEF Tags, Owners
    <3> QED BY <2>3, <3>1, MallocKeeps
  <2>4. ASSUME NEW l \in Lumps, NEW t \in Tags, W_CacheLumpNum(l, t) PROVE ZoneInv'
    BY <2>4, CacheKeeps
  <2>5. ASSUME NEW b \in Addr, Z_Free(b) PROVE ZoneInv'
    BY <2>5, FreeKeeps
  <2> QED BY <2>1, <2>2, <2>3, <2>4, <2>5 DEF Next
<1>2. ASSUME mode = "scan", latest # Null PROVE user'[latest] # Free
  <2>1. CASE Purge
    BY <2>1, <1>2, PurgeKeeps
  <2>2. CASE ~ Purge
    <3>1. user' = user
      BY <1>2, <2>2 DEF Next, Scan, PassUsed, PassFree, Fail, Take, FreeTagged, FreedTags,
                        Z_FreeTags, Z_Malloc, W_CacheLumpNum, Z_Free, heapVars
    <3>2. user[latest] # Free
      BY <1>2 DEF ZoneInv, Latest
    <3> QED BY <3>1, <3>2
  <2> QED BY <2>1, <2>2
<1> QED BY <1>1, <1>2

\* The invariant holds of every reachable state of the zone.
LEMMA ZoneInvariance == Spec => []ZoneInv
<1>1. ZoneInv /\ UNCHANGED vars => ZoneInv'
  <2> SUFFICES ASSUME ZoneInv, UNCHANGED vars PROVE Store' /\ Loops'
    BY InPartsNext
  <2>1. Store /\ Loops
    BY InParts
  <2>2. Store'
    BY <2>1 DEF Store, Latest, CacheIsTrue, blocks, vars, heapVars
  <2>3. Loops'
    BY <2>1 DEF Loops, Searching, Wanting, vars, heapVars, loopVars
  <2> QED BY <2>2, <2>3
<1>2. ZoneInv /\ [Next]_vars => ZoneInv'
  BY <1>1, ZoneStep
<1> QED BY ZoneStart, <1>2, PTL DEF Spec

\* Every field of every header, and every pointer into the heap, has its type.
THEOREM ZoneTypes == Spec => []TypeOK
<1>1. ZoneInv => TypeOK
  BY DEF ZoneInv
<1> QED BY <1>1, ZoneInvariance, PTL

\* Whatever is asked for, freed and purged, Z_CheckHeap finds nothing, and no
\* pointer of the allocator is left on a header that was merged away.
THEOREM HeapStaysSound == Spec => []HeapSound
<1>1. ZoneInv => HeapSound
  <2> SUFFICES ASSUME ZoneInv PROVE Tiled /\ NoTwoFree /\ Anchored
    BY DEF HeapSound
  <2>1. blocks \cup {Cap} = Members(size)
    BY DEF blocks, Members
  <2>2. BlockRing(size, next, prev) /\ Users(size, next, user)
    BY DEF ZoneInv, Heap
  <2>3. ASSUME NEW b \in blocks
        PROVE  /\ next[b] = b + size[b] /\ next[b] \in blocks \cup {Cap} /\ prev[next[b]] = b
               /\ \A c \in blocks : c > b => c >= next[b]
    <3>1. b \in Members(size) /\ b # Cap
      BY <2>3, Numbers DEF blocks, Members
    <3> QED BY <3>1, <2>1, <2>2, Neighbours
  <2>4. 0 \in blocks /\ next[Cap] = 0 /\ prev[0] = Cap /\ prev[Cap] \in blocks
    <3>1. 0 \in blocks /\ next[Cap] = 0 /\ Cap # 0
      BY <2>2, Numbers DEF BlockRing, blocks
    <3>2. prev[0] = Cap
      BY <2>2, <3>1 DEF BlockRing, Members
    <3>3. prev[Cap] \in Members(size) /\ next[prev[Cap]] = Cap
      BY <2>2 DEF BlockRing, Members
    <3>4. prev[Cap] # Cap
      BY <3>1, <3>3
    <3> QED BY <3>1, <3>2, <3>3, <3>4, <2>1
  <2>5. Tiled
    BY <2>3, <2>4 DEF Tiled
  <2>6. NoTwoFree
    BY <2>2 DEF NoTwoFree, Users, blocks
  <2>7. Anchored
    BY <2>1 DEF Anchored, ZoneInv, Searching
  <2> QED BY <2>5, <2>6, <2>7
<1> QED BY <1>1, ZoneInvariance, PTL

\* A lump's cache entry never points at a block that holds something else.
THEOREM CacheStaysTrue == Spec => []CacheIsTrue
<1>1. ZoneInv => CacheIsTrue
  BY DEF ZoneInv
<1> QED BY <1>1, ZoneInvariance, PTL

\* A caller may hold the block it fetched last while it fetches another.
THEOREM LatestIsKept == Spec => LatestSurvives
<1> DEFINE Spared == mode = "scan" /\ latest # Null => user'[latest] # Free
<1>1. ZoneInv /\ [Next]_vars => [Spared]_vars
  BY ZoneStep
<1>2. Spec => [][Spared]_vars
  BY <1>1, ZoneInvariance, PTL DEF Spec
<1> QED BY <1>2 DEF LatestSurvives

-----------------------------------------------------------------------------
(* The thinkers.                                                           *)

InList == live \cup {thinkercap}

\* Every set of thinkers is left by a link: all of them lie on the head's ring.
OneRing == \A S \in SUBSET live : S # {} => \E n \in S : tnext[n] \notin S

\* What a walk has run is what precedes the place it stands at.
Passed ==
  /\ since = live /\ ran \subseteq live
  /\ tnext[thinkercap] \in ran \cup {cur}
  /\ \A n \in live : tnext[n] \in ran => n \in ran
Walked ==
  /\ phase = "idle" => cur = thinkercap
  /\ phase = "walk" =>
       /\ Passed
       /\ cur \notin ran /\ tprev[cur] \in ran \cup {thinkercap}
       /\ \A n \in ran : tnext[n] \in ran \cup {cur}
  /\ phase = "call" =>
       /\ Passed
       /\ cur \in ran /\ tnext[cur] \notin ran
       /\ \A n \in ran \ {cur} : tnext[n] \in ran

ListInv == ThinkersTypeOK /\ Linked /\ OneRing /\ Walked

-----------------------------------------------------------------------------
\* P_InitThinkers makes the empty ring.
LEMMA ListStart == P_InitThinkers => ListInv
  BY ThinkersAssumption DEF P_InitThinkers, ListInv, ThinkersTypeOK, Ring, Linked, OneRing, Walked, Passed, InList

\* A thinker's neighbours are others than itself: it is not a ring of its own.
LEMMA NoSelfLink ==
  ASSUME ThinkersTypeOK, Linked, OneRing, NEW n \in live
  PROVE  tnext[n] # n /\ tprev[n] # n
<1>1. PICK m \in {n} : tnext[m] \notin {n}
  BY DEF OneRing
<1> QED
  BY <1>1 DEF Linked

-----------------------------------------------------------------------------
\* P_AddThinker: the new thinker lies between the last one and the head.
LEMMA AddKeeps ==
  ASSUME ListInv, NEW n \in Nodes, P_AddThinker(n)
  PROVE  ListInv'
<1> DEFINE p == tprev[thinkercap]
<1>1. /\ live \subseteq Nodes /\ n \notin live /\ n # thinkercap
      /\ p \in live \cup {thinkercap} /\ p # n /\ tnext[p] = thinkercap
  BY ThinkersAssumption DEF ListInv, ThinkersTypeOK, Linked, P_AddThinker
<1>2. /\ live' = live \cup {n}
      /\ DOMAIN tnext = Ring /\ DOMAIN tprev = Ring /\ p \in Ring /\ n \in Ring /\ thinkercap \in Ring
      /\ \A m \in Ring : tnext'[m] = IF m = n THEN thinkercap ELSE IF m = p THEN n ELSE tnext[m]
      /\ \A m \in Ring : tprev'[m] = IF m = thinkercap THEN n ELSE IF m = n THEN p ELSE tprev[m]
  BY <1>1 DEF ListInv, ThinkersTypeOK, P_AddThinker, Ring
<1>3. ThinkersTypeOK'
  BY <1>1 DEF ListInv, ThinkersTypeOK, P_AddThinker, Ring
<1>4. Linked'
  <2>1. \A m \in live \cup {thinkercap} : m \in Ring /\ tnext[m] \in Ring /\ tprev[m] \in Ring
    BY <1>1 DEF Ring, ListInv, ThinkersTypeOK
  <2>2. cur' = cur
    BY DEF P_AddThinker
  <2> HIDE DEF p
  <2>3. ASSUME NEW m \in live \cup {thinkercap, n}
        PROVE  /\ tnext'[m] \in live \cup {thinkercap, n} /\ tprev'[m] \in live \cup {thinkercap, n}
               /\ tprev'[tnext'[m]] = m /\ tnext'[tprev'[m]] = m
    <3>1. CASE m = n
      BY <3>1, <1>1, <1>2 DEF Ring
    <3>2. CASE m = thinkercap
      BY <3>2, <1>1, <1>2, <2>1 DEF ListInv, Linked, p
    <3>3. CASE m \in live
      BY <3>3, <1>1, <1>2, <2>1, ThinkersAssumption DEF ListInv, Linked, p, Ring
    <3> QED BY <3>1, <3>2, <3>3
  <2> QED BY <2>2, <2>3, <1>2 DEF ListInv, Linked
<1>5. OneRing'
  <2> SUFFICES ASSUME NEW S \in SUBSET (live \cup {n}), S # {}
               PROVE  \E m \in S : tnext'[m] \notin S
    BY <1>2 DEF OneRing
  <2> HIDE DEF p
  <2>1. CASE S \cap live = {}
    BY <2>1, <1>1, <1>2
  <2>2. CASE S \cap live # {}
    <3>1. PICK m \in S \cap live : tnext[m] \notin S \cap live
      BY <2>2 DEF ListInv, OneRing
    <3>2. tnext[m] # n /\ m # n /\ m \in Ring
      BY <1>1 DEF ListInv, Linked, Ring
    <3>3. CASE m # p
      BY <3>1, <3>2, <3>3, <1>2
    <3>4. CASE m = p
      BY <3>1, <3>2, <3>4, <1>1, <1>2
    <3> QED BY <3>3, <3>4
  <2> QED BY <2>1, <2>2
<1>6. Walked'
  <2>1. phase' = phase /\ cur' = cur /\ ran' = ran /\ since' = since \cup {n} /\ phase \in {"idle", "call"}
    BY DEF P_AddThinker, Running
  <2> HIDE DEF p
  <2>2. CASE phase = "idle"
    BY <2>1, <2>2 DEF ListInv, Walked
  <2>3. CASE phase = "call"
    <3>1. Passed /\ cur \in ran /\ tnext[cur] \notin ran /\ \A m \in ran \ {cur} : tnext[m] \in ran
      BY <2>3 DEF ListInv, Walked
    <3>2. ran \subseteq live /\ n \notin ran /\ thinkercap \notin ran /\ tnext[thinkercap] \in ran
      BY <3>1, <1>1, ThinkersAssumption DEF Passed
    <3>3. \A m \in live : m \in Ring
      BY <1>1 DEF Ring
    <3>4. Passed'
      BY <2>1, <3>1, <3>2, <3>3, <1>1, <1>2 DEF Passed
    <3>5. cur \in ran /\ tnext'[cur] \notin ran
      BY <3>1, <3>2, <3>3, <1>2
    <3>6. \A m \in ran \ {cur} : tnext'[m] \in ran
      BY <3>1, <3>2, <3>3, <1>1, <1>2
    <3> QED BY <2>1, <2>3, <3>4, <3>5, <3>6 DEF Walked
  <2> QED BY <2>1, <2>2, <2>3
<1> QED BY <1>3, <1>4, <1>5, <1>6 DEF ListInv

\* The walk frees a marked thinker: its neighbours are linked to each other.
LEMMA UnlinkKeeps ==
  ASSUME ListInv, Unlink
  PROVE  ListInv'
<1> DEFINE p == tprev[cur]
           q == tnext[cur]
<1>1. /\ live \subseteq Nodes /\ cur \in live /\ thinkercap \notin live
      /\ p \in (live \ {cur}) \cup {thinkercap} /\ q \in (live \ {cur}) \cup {thinkercap}
      /\ tnext[p] = cur /\ tprev[q] = cur
  BY NoSelfLink, ThinkersAssumption DEF ListInv, ThinkersTypeOK, Linked, Unlink
<1>2. /\ live' = live \ {cur} /\ cur' = q
      /\ \A m \in live \cup {thinkercap} : m \in Ring
      /\ \A m \in Ring : tnext'[m] = IF m = p THEN q ELSE tnext[m]
      /\ \A m \in Ring : tprev'[m] = IF m = q THEN p ELSE tprev[m]
  BY <1>1 DEF ListInv, ThinkersTypeOK, Unlink, Ring
<1>3. ThinkersTypeOK'
  BY <1>1 DEF ListInv, ThinkersTypeOK, Unlink, Ring
<1> HIDE DEF p, q
<1>4. Linked'
  <2>1. ASSUME NEW m \in (live \ {cur}) \cup {thinkercap}
        PROVE  /\ tnext'[m] \in (live \ {cur}) \cup {thinkercap}
               /\ tprev'[m] \in (live \ {cur}) \cup {thinkercap}
               /\ tprev'[tnext'[m]] = m /\ tnext'[tprev'[m]] = m
    <3>1. /\ tnext[m] \in live \cup {thinkercap} /\ tprev[m] \in live \cup {thinkercap}
          /\ tprev[tnext[m]] = m /\ tnext[tprev[m]] = m /\ m # cur /\ m \in Ring
      BY <1>1, <1>2 DEF ListInv, Linked
    <3>2. m # p => tnext[m] # cur /\ tnext[m] # q
      BY <3>1, <1>1 DEF p, q
    <3>3. m # q => tprev[m] # cur /\ tprev[m] # p
      BY <3>1, <1>1 DEF p, q
    <3>4. tnext'[m] \in (live \ {cur}) \cup {thinkercap} /\ tprev'[tnext'[m]] = m
      <4>1. CASE m = p
        BY <4>1, <3>1, <1>1, <1>2
      <4>2. CASE m # p
        BY <4>2, <3>1, <3>2, <1>2
      <4> QED BY <4>1, <4>2
    <3>5. tprev'[m] \in (live \ {cur}) \cup {thinkercap} /\ tnext'[tprev'[m]] = m
      <4>1. CASE m = q
        BY <4>1, <3>1, <1>1, <1>2
      <4>2. CASE m # q
        BY <4>2, <3>1, <3>3, <1>2
      <4> QED BY <4>1, <4>2
    <3> QED BY <3>4, <3>5
  <2> QED BY <2>1, <1>1, <1>2 DEF Linked
<1>5. OneRing'
  <2> SUFFICES ASSUME NEW S \in SUBSET (live \ {cur}), S # {}
               PROVE  \E m \in S : tnext'[m] \notin S
    BY <1>2 DEF OneRing
  <2>1. \A m \in S : m # cur /\ m \in live /\ m \in Ring
    BY <1>2
  <2>2. CASE p \notin S
    <3>1. PICK m \in S : tnext[m] \notin S
      BY DEF ListInv, OneRing
    <3> QED BY <3>1, <2>1, <2>2, <1>2
  <2>3. CASE p \in S
    <3>1. PICK m \in S \cup {cur} : tnext[m] \notin S \cup {cur}
      <4>1. S \cup {cur} \in SUBSET live
        BY <1>1
      <4> QED BY <4>1 DEF ListInv, OneRing
    <3>2. CASE m = cur
      BY <3>1, <3>2, <2>1, <2>3, <1>2 DEF q
    <3>3. CASE m # cur
      BY <3>1, <3>3, <2>1, <1>1, <1>2
    <3> QED BY <3>2, <3>3
  <2> QED BY <2>2, <2>3
<1>6. Walked'
  <2>1. /\ phase = "walk" /\ phase' = "walk" /\ ran' = ran /\ since' = since \ {cur}
    BY DEF Unlink
  <2>2. /\ Passed /\ cur \notin ran /\ p \in ran \cup {thinkercap}
        /\ \A m \in ran : tnext[m] \in ran \cup {cur}
    BY <2>1 DEF ListInv, Walked, p
  <2>3. q \notin ran /\ ran \subseteq live \ {cur}
    BY <2>2, <1>1 DEF Passed, q
  <2>4. \A m \in live \cup {thinkercap} : tnext[m] = cur => m = p
    BY DEF ListInv, Linked, p
  <2>5. Passed'
    <3>1. tnext'[thinkercap] \in ran \cup {q}
      BY <2>2, <2>4, <1>2 DEF Passed
    <3>2. \A m \in live \ {cur} : tnext'[m] \in ran => m \in ran
      BY <2>2, <2>3, <1>2 DEF Passed
    <3> QED BY <2>1, <2>2, <2>3, <3>1, <3>2, <1>2 DEF Passed
  <2>6. tprev'[q] \in ran \cup {thinkercap}
    BY <2>2, <1>1, <1>2
  <2>7. \A m \in ran : tnext'[m] \in ran \cup {q}
    BY <2>2, <2>3, <2>4, <1>2
  <2> QED BY <2>1, <2>3, <2>5, <2>6, <2>7, <1>2 DEF Walked
<1> QED BY <1>3, <1>4, <1>5, <1>6 DEF ListInv

\* The walk runs a thinker, or passes over one in stasis.
LEMMA CallKeeps ==
  ASSUME ListInv, Call
  PROVE  ListInv' /\ cur \notin ran
<1>1. /\ cur \in live /\ tnext[cur] # cur /\ live \subseteq Nodes /\ thinkercap \notin Nodes
      /\ tnext[cur] \in live \cup {thinkercap} /\ tprev[tnext[cur]] = cur
      /\ \A m \in live \cup {thinkercap} : tnext[m] = cur => m = tprev[cur]
  BY NoSelfLink, ThinkersAssumption DEF ListInv, ThinkersTypeOK, Linked, Call
<1>2. /\ Passed /\ cur \notin ran /\ tprev[cur] \in ran \cup {thinkercap}
      /\ \A n \in ran : tnext[n] \in ran \cup {cur}
  BY DEF ListInv, Walked, Call
<1>3. ThinkersTypeOK' /\ OneRing'
  BY <1>1 DEF ListInv, ThinkersTypeOK, OneRing, Call, linkVars, Ring
<1>4. Linked'
  BY <1>1 DEF ListInv, Linked, Call, linkVars
<1>5. /\ ran' = ran \cup {cur} /\ live' = live /\ since' = since /\ tnext' = tnext /\ tprev' = tprev
  BY DEF Call, linkVars
<1>6. tnext[cur] \notin ran'
  BY <1>1, <1>2, <1>5 DEF Passed
<1>7. /\ since' = live' /\ ran' \subseteq live' /\ tnext'[thinkercap] \in ran'
      /\ \A n \in live' : tnext'[n] \in ran' => n \in ran'
  BY <1>1, <1>2, <1>5, ThinkersAssumption DEF Passed
<1>8. Walked'
  <2>1. CASE func[cur] = "think"
    <3>1. phase' = "call" /\ cur' = cur
      BY <2>1 DEF Call
    <3> QED BY <3>1, <1>2, <1>5, <1>6, <1>7 DEF Walked, Passed
  <2>2. CASE func[cur] # "think"
    <3>1. phase' = "walk" /\ cur' = tnext[cur]
      BY <2>2 DEF Call
    <3>2. Passed'
      BY <3>1, <1>5, <1>7 DEF Passed
    <3>3. tprev[tnext[cur]] \in ran' /\ \A n \in ran' : tnext[n] \in ran' \cup {tnext[cur]}
      BY <1>1, <1>2, <1>5
    <3> QED BY <3>1, <3>2, <3>3, <1>5, <1>6 DEF Walked
  <2> QED BY <2>1, <2>2
<1> QED BY <1>2, <1>3, <1>4, <1>8 DEF ListInv

\* The next link is read after the call: it may have been made during it.
LEMMA ReturnKeeps ==
  ASSUME ListInv, Return
  PROVE  ListInv'
<1>1. /\ Passed /\ cur \in ran /\ tnext[cur] \notin ran
      /\ \A n \in ran \ {cur} : tnext[n] \in ran
  BY DEF ListInv, Walked, Return
<1>2. /\ live' = live /\ tnext' = tnext /\ tprev' = tprev /\ ran' = ran /\ since' = since
      /\ phase' = "walk" /\ cur' = tnext[cur]
  BY DEF Return, linkVars
<1>3. ThinkersTypeOK' /\ OneRing' /\ Linked'
  BY <1>2 DEF ListInv, ThinkersTypeOK, OneRing, Linked, Return, Ring
<1>4. tprev[tnext[cur]] = cur
  BY DEF ListInv, Linked
<1>5. Passed'
  BY <1>1, <1>2 DEF Passed
<1>6. cur' \notin ran' /\ tprev'[cur'] \in ran' /\ \A n \in ran' : tnext'[n] \in ran' \cup {cur'}
  BY <1>1, <1>2, <1>4
<1> QED BY <1>2, <1>3, <1>5, <1>6 DEF ListInv, Walked

\* A walk begins with nothing run, before the first thinker.
LEMMA WalkBegins ==
  ASSUME ListInv, P_RunThinkers
  PROVE  ListInv'
<1>1. /\ live' = live /\ tnext' = tnext /\ tprev' = tprev /\ ran' = {} /\ since' = live
      /\ phase' = "walk" /\ cur' = tnext[thinkercap]
  BY DEF P_RunThinkers, linkVars
<1>2. ThinkersTypeOK' /\ OneRing' /\ Linked'
  BY <1>1 DEF ListInv, ThinkersTypeOK, OneRing, Linked, P_RunThinkers, Ring
<1>3. tprev[tnext[thinkercap]] = thinkercap
  BY DEF ListInv, Linked
<1> QED BY <1>1, <1>2, <1>3 DEF ListInv, Walked, Passed

\* When the walk is back at the head, nobody on the ring was left out.
LEMMA WalkIsWhole ==
  ASSUME ListInv, WalkEnds
  PROVE  ListInv' /\ since \subseteq ran
<1>1. /\ Passed /\ cur = thinkercap /\ tprev[thinkercap] \in ran \cup {thinkercap}
  BY DEF ListInv, Walked, WalkEnds
<1>2. live \ ran = {}
  <2> SUFFICES ASSUME live \ ran # {} PROVE FALSE
    OBVIOUS
  <2>1. PICK n \in live \ ran : tnext[n] \notin live \ ran
    BY DEF ListInv, OneRing
  <2>2. tnext[n] \notin ran
    BY <1>1 DEF Passed
  <2>3. tnext[n] = thinkercap /\ tprev[thinkercap] = n
    BY <2>1, <2>2 DEF ListInv, Linked
  <2> QED BY <1>1, <2>1, <2>3, ThinkersAssumption DEF ListInv, ThinkersTypeOK
<1>3. ListInv'
  BY <1>1 DEF ListInv, ThinkersTypeOK, Linked, OneRing, Walked, Passed, WalkEnds, linkVars, Ring
<1> QED BY <1>1, <1>2, <1>3 DEF Passed

\* A savegame is read between two walks.
LEMMA LoadKeeps ==
  ASSUME ListInv, P_UnArchiveThinkers
  PROVE  ListInv'
<1>1. /\ phase = "idle" /\ phase' = "idle" /\ cur = thinkercap /\ cur' = thinkercap
      /\ live' = {} /\ tnext'[thinkercap] = thinkercap /\ tprev'[thinkercap] = thinkercap
  BY DEF ListInv, ThinkersTypeOK, Ring, Walked, P_UnArchiveThinkers
<1>2. ThinkersTypeOK'
  BY DEF ListInv, ThinkersTypeOK, Ring, P_UnArchiveThinkers
<1> QED BY <1>1, <1>2 DEF ListInv, Linked, OneRing, Walked

-----------------------------------------------------------------------------
\* Each step keeps the invariant, and obeys EachRunsOnce.
LEMMA ListStep ==
  ASSUME ListInv, ThinkersNext
  PROVE  ListInv' /\ (WalkEnds => since \subseteq ran) /\ (Call => cur \notin ran)
<1>1. (WalkEnds => since \subseteq ran) /\ (Call => cur \notin ran)
  BY WalkIsWhole, CallKeeps
<1>2. ListInv'
  <2>1. ASSUME NEW n \in Nodes, P_AddThinker(n) PROVE ListInv'
    BY <2>1, AddKeeps
  <2>2. ASSUME NEW n \in Nodes, P_RemoveThinker(n) \/ Stasis(n) PROVE ListInv'
    BY <2>2 DEF ListInv, ThinkersTypeOK, Linked, OneRing, Walked, Passed, P_RemoveThinker, Stasis, linkVars, Ring
  <2>3. CASE P_RunThinkers
    BY <2>3, WalkBegins
  <2>4. CASE Unlink
    BY <2>4, UnlinkKeeps
  <2>5. CASE Call
    BY <2>5, CallKeeps
  <2>6. CASE Return
    BY <2>6, ReturnKeeps
  <2>7. CASE WalkEnds
    BY <2>7, WalkIsWhole
  <2>8. CASE P_UnArchiveThinkers
    BY <2>8, LoadKeeps
  <2> QED BY <2>1, <2>2, <2>3, <2>4, <2>5, <2>6, <2>7, <2>8 DEF ThinkersNext
<1> QED BY <1>1, <1>2

\* The invariant holds of every reachable state of the list.
LEMMA ListInvariance == ThinkersSpec => []ListInv
<1>1. ListInv /\ [ThinkersNext]_thinkersVars => ListInv'
  <2>1. ListInv /\ UNCHANGED thinkersVars => ListInv'
    BY DEF ListInv, ThinkersTypeOK, Linked, OneRing, Walked, Passed, thinkersVars, Ring
  <2> QED BY <2>1, ListStep
<1> QED BY ListStart, <1>1, PTL DEF ThinkersSpec

\* Every field of the list holds a link, a mark or a place of its type.
THEOREM ListTypes == ThinkersSpec => []ThinkersTypeOK
<1>1. ListInv => ThinkersTypeOK
  BY DEF ListInv
<1> QED BY <1>1, ListInvariance, PTL

\* P_RunThinkers never wanted a link to a freed block, nor stands on one.
THEOREM ListIsLinked == ThinkersSpec => []Linked
<1>1. ListInv => Linked
  BY DEF ListInv
<1> QED BY <1>1, ListInvariance, PTL

\* A tic runs every thinker of the level, and none twice, whatever the thinkers
\* spawn and remove while it does.
THEOREM TicRunsEach == ThinkersSpec => EachRunsOnce
<1> DEFINE Once == (WalkEnds => since \subseteq ran) /\ (Call => cur \notin ran)
<1>1. ListInv /\ [ThinkersNext]_thinkersVars => [Once]_thinkersVars
  BY ListStep
<1>2. ThinkersSpec => [][Once]_thinkersVars
  BY <1>1, ListInvariance, PTL DEF ThinkersSpec
<1> QED BY <1>2 DEF EachRunsOnce

-----------------------------------------------------------------------------
(* A player's weapons.                                                     *)

Players ==
  [alive : BOOLEAN, ready : Weapons, pending : Weapons \cup {nochange}, owned : SUBSET Weapons,
   ammo : [Ammo -> Nat], backpack : BOOLEAN, strength : BOOLEAN, attackdown : BOOLEAN,
   sy : 0 .. Bottom,
   st : [of : Weapons, at : {"up", "down", "ready", "fire"}, i : 0 .. 5]]

Rare == {"plasma", "bfg"}

\* What the player has.  In shareware the two rare weapons are only ever cheated,
\* and then there are cells too, which nothing shoots: so a box of cells is never
\* the first ammo for the plasma rifle and does not bring it up.
Held(v) ==
  /\ v \in Players
  /\ {"fist", "pistol"} \subseteq v.owned
  /\ v.ready \in v.owned /\ v.pending \in v.owned \cup {nochange}
  /\ \A a \in Ammo : v.ammo[a] <= Limit(v, a)
  /\ kit.mode = "shareware" =>
       /\ v.ready \notin Rare /\ v.pending \notin Rare
       /\ v.owned \cap Rare # {} => v.ammo["cell"] > 0

\* What the sprite does.  Between the first state of an attack and its shot the
\* ammo P_CheckAmmo found is still there; the plasma rifle and the chaingun shoot
\* with their first state, and A_FireCGun looks again.
Drawn(v) ==
  /\ v.st.of = v.ready
  /\ IF v.st.at = "fire" THEN v.st.i \in 1 .. Len(Frames(v.st.of)) ELSE v.st.i = 0
  /\ v.alive /\ v.st.at = "down" => v.pending # nochange
  /\ v.st.at = "fire" /\ v.st.i = 1 /\ v.ready \notin {"plasma", "chaingun"} => HasAmmo(v, v.ready)

Sound(v) == Held(v) /\ Drawn(v)
IInv == kit \in Kits /\ Sound(player)

-----------------------------------------------------------------------------
(* The sprite.                                                             *)

\* u is v but for the sprite and the attack button.
Same(u, v) ==
  /\ u.alive = v.alive /\ u.ready = v.ready /\ u.pending = v.pending /\ u.owned = v.owned
  /\ u.ammo = v.ammo /\ u.backpack = v.backpack

LEMMA HeldSame ==
  ASSUME NEW v, NEW u \in Players, Held(v), Same(u, v)
  PROVE  Held(u)
BY DEF Held, Same, Limit

LEMMA FramesAre ==
  ASSUME NEW w \in Weapons
  PROVE  /\ Len(Frames(w)) \in 2 .. 5
         /\ Frames(w)[1] = "shoot" <=> w \in {"plasma", "chaingun"}
         /\ Frames(w)[2] = "shoot" =>
              w \in {"pistol", "shotgun", "supershotgun", "chaingun", "missile", "bfg"}
         /\ \A i \in 3 .. Len(Frames(w)) : Frames(w)[i] # "shoot"
<1>1. CASE w = "fist"  BY <1>1 DEF Frames
<1>2. CASE w = "pistol"  BY <1>2 DEF Frames
<1>3. CASE w = "shotgun"  BY <1>3 DEF Frames
<1>4. CASE w = "supershotgun"  BY <1>4 DEF Frames
<1>5. CASE w = "chaingun"  BY <1>5 DEF Frames
<1>6. CASE w = "missile"  BY <1>6 DEF Frames
<1>7. CASE w = "plasma"  BY <1>7 DEF Frames
<1>8. CASE w = "bfg"  BY <1>8 DEF Frames
<1>9. CASE w = "chainsaw"  BY <1>9 DEF Frames
<1> QED  BY <1>1, <1>2, <1>3, <1>4, <1>5, <1>6, <1>7, <1>8, <1>9 DEF Weapons

LEMMA CountIs ==
  ASSUME NEW w \in Weapons
  PROVE  /\ Count(w) \in Nat \ {0}
         /\ AmmoOf(w) # "none" => AmmoOf(w) \in Ammo
         /\ AmmoOf(w) = "none" <=> w \in {"fist", "chainsaw"}
         /\ AmmoOf(w) = "cell" => w \in Rare
BY ArsenalAssumption DEF Count, AmmoOf, Weapons, Ammo, Rare

LEMMA AtIs ==
  ASSUME NEW v \in Players, NEW where \in {"up", "down", "ready"}
  PROVE  /\ At(v, where) \in Players /\ Same(At(v, where), v)
         /\ At(v, where).st = [of |-> v.ready, at |-> where, i |-> 0]
         /\ At(v, where).sy = v.sy
BY DEF At, Players, Same

LEMMA AttackIs ==
  ASSUME NEW v \in Players
  PROVE  /\ Attack(v) \in Players /\ Same(Attack(v), v)
         /\ Attack(v).st = [of |-> v.ready, at |-> "fire", i |-> 1]
BY DEF Attack, Players, Same

LEMMA BringUpSound ==
  ASSUME NEW v, Held(v)
  PROVE  Sound(P_BringUpWeapon(v))
<1> DEFINE u == [v EXCEPT !.pending = nochange, !.sy = Bottom - 1]
<1>1. v \in Players  BY DEF Held
<1>2. /\ u \in Players /\ u.ready = v.ready /\ u.pending = nochange /\ u.owned = v.owned
      /\ u.ammo = v.ammo /\ u.backpack = v.backpack
  <2>1. nochange \in Weapons \cup {nochange} /\ Bottom - 1 \in 0 .. Bottom  BY DEF Bottom
  <2> HIDE DEF nochange, Bottom
  <2> QED  BY <1>1, <2>1 DEF Players
<1> HIDE DEF u
<1>3. Held(u)  BY <1>2 DEF Held, Limit, Rare, nochange
<1>4. Held(At(u, "up")) /\ At(u, "up").st = [of |-> u.ready, at |-> "up", i |-> 0]
      /\ At(u, "up").ready = u.ready
  BY <1>2, <1>3, AtIs, HeldSame DEF Same
<1>5. Drawn(At(u, "up"))  BY <1>4 DEF Drawn
<1> QED  BY <1>4, <1>5 DEF P_BringUpWeapon, u, Sound

\* A weapon on its way down.
Lowered(v) ==
  /\ Held(v) /\ v.st = [of |-> v.ready, at |-> "down", i |-> 0]
  /\ v.alive => v.pending # nochange

LEMMA LowerSound ==
  ASSUME NEW v, Lowered(v)
  PROVE  Sound(A_Lower(v))
<1>1. v \in Players /\ Held(v) /\ v.sy \in 0 .. Bottom  BY DEF Held, Players, Lowered
<1>2. CASE v.sy + 1 < Bottom
  <2> DEFINE u == [v EXCEPT !.sy = v.sy + 1]
  <2>1. u \in Players /\ Same(u, v) /\ u.st = v.st  BY <1>1, <1>2 DEF Players, Bottom, Same
  <2> HIDE DEF u
  <2>2. Held(u)  BY <1>1, <2>1, HeldSame
  <2>3. Drawn(u)  BY <2>1 DEF Drawn, Same, Lowered
  <2> QED  BY <1>2, <2>2, <2>3 DEF A_Lower, u, Sound
<1>3. CASE ~ v.sy + 1 < Bottom /\ ~ v.alive
  <2> DEFINE u == [v EXCEPT !.sy = Bottom]
  <2>1. u \in Players /\ Same(u, v) /\ u.st = v.st  BY <1>1, <1>3 DEF Players, Bottom, Same
  <2> HIDE DEF u
  <2>2. Held(u)  BY <1>1, <2>1, HeldSame
  <2>3. Drawn(u)  BY <2>1 DEF Drawn, Same, Lowered
  <2> QED  BY <1>3, <2>2, <2>3 DEF A_Lower, u, Sound
<1>4. CASE ~ v.sy + 1 < Bottom /\ v.alive
  <2> DEFINE u == [v EXCEPT !.ready = v.pending]
  <2>1. v.pending \in v.owned /\ v.pending \in Weapons
    BY <1>1, <1>4 DEF Held, Players, Lowered
  <2>2. /\ u \in Players /\ u.ready = v.pending /\ u.pending = v.pending /\ u.owned = v.owned
        /\ u.ammo = v.ammo /\ u.backpack = v.backpack
    BY <1>1, <2>1 DEF Players
  <2> HIDE DEF u
  <2>3. Held(u)  BY <1>1, <2>1, <2>2 DEF Held, Limit
  <2> QED  BY <1>4, <2>3, BringUpSound DEF A_Lower, u
<1> QED  BY <1>2, <1>3, <1>4

LEMMA PutDownSound ==
  ASSUME NEW v, Held(v), v.alive => v.pending # nochange
  PROVE  Sound(PutDown(v))
<1>1. v \in Players  BY DEF Held
<1>2. Held(At(v, "down"))  BY <1>1, AtIs, HeldSame
<1> DEFINE u == At(v, "down")
<1>3. u.st = [of |-> v.ready, at |-> "down", i |-> 0] /\ Same(u, v)  BY <1>1, AtIs
<1> HIDE DEF u
<1>4. Held(u) => Lowered(u)  BY <1>3 DEF Lowered, Same
<1> QED  BY <1>2, <1>4, LowerSound DEF PutDown, u

\* What P_CheckAmmo turns to is the player's, is another weapon and can shoot.
LEMMA SpareIs ==
  ASSUME NEW v, Held(v), ~ HasAmmo(v, v.ready)
  PROVE  /\ Spare(v) \in v.owned /\ Spare(v) # v.ready /\ HasAmmo(v, Spare(v))
         /\ kit.mode = "shareware" => Spare(v) \notin Rare
<1>1. /\ v.ready \in Weapons /\ v.owned \subseteq Weapons /\ v.ammo \in [Ammo -> Nat]
      /\ {"fist", "pistol"} \subseteq v.owned
  BY DEF Held, Players
<1>2. \A a \in Ammo : v.ammo[a] \in Nat  BY <1>1
<1>3. "clip" \in Ammo /\ "shell" \in Ammo /\ "cell" \in Ammo /\ "misl" \in Ammo  BY DEF Ammo
<1> USE ArsenalAssumption DEF HasAmmo, AmmoOf, Count
<1> DEFINE w == Spare(v)
<1>4. w = "plasma" => w \in v.owned /\ v.ammo["cell"] > 0 /\ kit.mode # "shareware"  BY DEF Spare
<1>5. w = "supershotgun" => w \in v.owned /\ v.ammo["shell"] > 2  BY DEF Spare
<1>6. w = "chaingun" => w \in v.owned /\ v.ammo["clip"] > 0  BY DEF Spare
<1>7. w = "shotgun" => w \in v.owned /\ v.ammo["shell"] > 0  BY DEF Spare
<1>8. w = "pistol" => v.ammo["clip"] > 0  BY DEF Spare
<1>9. w = "chainsaw" => w \in v.owned  BY DEF Spare
<1>10. w = "missile" => w \in v.owned /\ v.ammo["misl"] > 0  BY DEF Spare
<1>11. w = "bfg" => w \in v.owned /\ v.ammo["cell"] > BFGCELLS /\ kit.mode # "shareware"  BY DEF Spare
<1>12. w \in {"plasma", "supershotgun", "chaingun", "shotgun", "pistol", "chainsaw", "missile", "bfg", "fist"}
  BY DEF Spare
<1> HIDE DEF w
<1>13. w \in v.owned /\ HasAmmo(v, w) /\ (kit.mode = "shareware" => w \notin Rare)
  BY <1>1, <1>2, <1>3, <1>4, <1>5, <1>6, <1>7, <1>8, <1>9, <1>10, <1>11, <1>12 DEF Rare
<1> QED  BY <1>13 DEF w

LEMMA ChangeOverSound ==
  ASSUME NEW v, Held(v), ~ HasAmmo(v, v.ready)
  PROVE  Sound(ChangeOver(v))
<1> DEFINE u == [v EXCEPT !.pending = Spare(v)]
<1>1. v \in Players /\ v.owned \subseteq Weapons  BY DEF Held, Players
<1>2. Spare(v) \in v.owned /\ (kit.mode = "shareware" => Spare(v) \notin Rare)  BY SpareIs
<1>3. /\ u \in Players /\ u.ready = v.ready /\ u.pending = Spare(v) /\ u.owned = v.owned
      /\ u.ammo = v.ammo /\ u.backpack = v.backpack
  BY <1>1, <1>2 DEF Players
<1> HIDE DEF u
<1>4. Held(u)  BY <1>2, <1>3 DEF Held, Limit
<1>5. u.pending # nochange  BY <1>1, <1>2, <1>3 DEF Weapons, nochange
<1> QED  BY <1>4, <1>5, PutDownSound DEF ChangeOver, u
-----------------------------------------------------------------------------
(* Shots.                                                                  *)

\* A shot that is paid for.
LEMMA ShootSound ==
  ASSUME NEW v, Held(v), v.st.of = v.ready, v.st.at = "fire", v.st.i \in 1 .. Len(Frames(v.ready)),
         AmmoOf(v.ready) # "none", v.ready # "chaingun" => HasAmmo(v, v.ready),
         v.ready \notin {"plasma", "chaingun"} => v.st.i # 1
  PROVE  Sound(Shoot(v))
<1> DEFINE a == AmmoOf(v.ready)
           n == Count(v.ready)
           u == [v EXCEPT !.ammo[a] = @ - n]
<1>1. v \in Players /\ v.ready \in Weapons /\ v.ammo \in [Ammo -> Nat]  BY DEF Held, Players
<1>2. a \in Ammo /\ n \in Nat \ {0} /\ (a = "cell" => v.ready \in Rare)  BY <1>1, CountIs
<1>3. CASE v.ready = "chaingun" /\ v.ammo["clip"] = 0
  <2>1. Shoot(v) = v  BY <1>3 DEF Shoot
  <2>2. Drawn(v)  BY <1>3 DEF Drawn
  <2> QED  BY <2>1, <2>2 DEF Sound
<1>4. CASE ~ (v.ready = "chaingun" /\ v.ammo["clip"] = 0)
  <2>1. v.ammo[a] >= n
    <3>1. CASE v.ready = "chaingun"  BY <1>1, <1>4, <3>1 DEF AmmoOf, Count, Ammo
    <3>2. CASE v.ready # "chaingun"  BY <3>2 DEF HasAmmo
    <3> QED  BY <3>1, <3>2
  <2>2. Shoot(v) = u  BY <1>4 DEF Shoot
  <2> HIDE DEF a, n
  <2>3. v.ammo[a] \in Nat /\ v.ammo[a] - n \in Nat /\ v.ammo[a] - n <= v.ammo[a]
    BY <1>1, <1>2, <2>1
  <2>4. /\ u \in Players /\ u.ready = v.ready /\ u.pending = v.pending /\ u.owned = v.owned
        /\ u.backpack = v.backpack /\ u.alive = v.alive /\ u.st = v.st
        /\ u.ammo = [v.ammo EXCEPT ![a] = v.ammo[a] - n]
    BY <1>1, <1>2, <2>3 DEF Players
  <2> HIDE DEF u
  <2>5. /\ \A b \in Ammo : u.ammo[b] <= v.ammo[b] /\ u.ammo[b] \in Nat /\ v.ammo[b] \in Nat
        /\ \A b \in Ammo : b # a => u.ammo[b] = v.ammo[b]
    BY <1>1, <1>2, <2>3, <2>4
  <2>6. Held(u)
    <3>1. \A b \in Ammo : u.ammo[b] <= Limit(u, b)
      <4> TAKE b \in Ammo
      <4>1. Limit(u, b) = Limit(v, b) /\ v.ammo[b] <= Limit(v, b)  BY <2>4 DEF Limit, Held
      <4>2. Limit(v, b) \in Nat  BY ArsenalAssumption DEF Limit
      <4> QED  BY <2>5, <4>1, <4>2
    <3>2. kit.mode = "shareware" => a # "cell"  BY <1>2 DEF Held
    <3>3. kit.mode = "shareware" => u.ammo["cell"] = v.ammo["cell"]  BY <2>5, <3>2 DEF Ammo
    <3> QED  BY <2>4, <3>1, <3>3 DEF Held
  <2>7. Drawn(u)  BY <2>4 DEF Drawn
  <2> QED  BY <2>2, <2>6, <2>7 DEF Sound
<1> QED  BY <1>3, <1>4

LEMMA FireSound ==
  ASSUME NEW v, Held(v)
  PROVE  Sound(P_FireWeapon(v))
<1>1. CASE ~ HasAmmo(v, v.ready)  BY <1>1, ChangeOverSound DEF P_FireWeapon
<1>2. CASE HasAmmo(v, v.ready)
  <2> DEFINE u == Attack(v)
             w == v.ready
  <2>1. v \in Players /\ w \in Weapons  BY DEF Held, Players
  <2>2. u \in Players /\ Same(u, v) /\ u.st = [of |-> w, at |-> "fire", i |-> 1]
    BY <2>1, AttackIs
  <2> HIDE DEF u
  <2>3. Held(u) /\ u.ready = w /\ u.ammo = v.ammo  BY <2>2, HeldSame DEF Same
  <2>4. HasAmmo(u, w)  BY <1>2, <2>3 DEF HasAmmo
  <2> HIDE DEF w
  <2>5. 1 \in 1 .. Len(Frames(w)) /\ (Frames(w)[1] = "shoot" <=> w \in {"plasma", "chaingun"})
    BY <2>1, FramesAre
  <2>6. CASE Frames(w)[1] = "shoot"
    <3>1. P_FireWeapon(v) = Shoot(u)  BY <1>2, <2>6 DEF P_FireWeapon, u, w
    <3>2. AmmoOf(w) # "none"  BY <2>1, <2>5, <2>6, CountIs
    <3> QED  BY <2>2, <2>3, <2>4, <2>5, <2>6, <3>1, <3>2, ShootSound
  <2>7. CASE Frames(w)[1] # "shoot"
    <3>1. P_FireWeapon(v) = u  BY <1>2, <2>7 DEF P_FireWeapon, u, w
    <3>2. Drawn(u)  BY <2>2, <2>3, <2>4, <2>5 DEF Drawn
    <3> QED  BY <2>3, <3>1, <3>2 DEF Sound
  <2> QED  BY <2>6, <2>7
<1> QED  BY <1>1, <1>2

\* A weapon that is up.
LEMMA WeaponReadySound ==
  ASSUME NEW v, Held(v), v.st = [of |-> v.ready, at |-> "ready", i |-> 0], NEW attack \in BOOLEAN
  PROVE  Sound(A_WeaponReady(v, attack))
<1>1. v \in Players  BY DEF Held
<1>2. CASE v.pending # nochange \/ ~ v.alive
  BY <1>2, PutDownSound DEF A_WeaponReady
<1>3. CASE ~ (v.pending # nochange \/ ~ v.alive) /\ ~ attack
  <2> DEFINE u == [v EXCEPT !.attackdown = FALSE, !.sy = 0]
  <2>1. u \in Players /\ Same(u, v) /\ u.st = v.st
    <3>1. 0 \in 0 .. Bottom  BY DEF Bottom
    <3>2. u \in Players  BY <1>1, <3>1 DEF Players
    <3> QED  BY <1>1, <3>2 DEF Players, Same
  <2> HIDE DEF u
  <2>2. Held(u) /\ Drawn(u)  BY <2>1, HeldSame DEF Drawn, Same
  <2> QED  BY <1>3, <2>2 DEF A_WeaponReady, u, Sound
<1>4. CASE /\ ~ (v.pending # nochange \/ ~ v.alive) /\ attack
           /\ v.attackdown /\ v.ready \in {"missile", "bfg"}
  <2> DEFINE u == [v EXCEPT !.sy = 0]
  <2>1. u \in Players /\ Same(u, v) /\ u.st = v.st  BY <1>1 DEF Players, Same, Bottom
  <2> HIDE DEF u
  <2>2. Held(u) /\ Drawn(u)  BY <2>1, HeldSame DEF Drawn, Same
  <2> QED  BY <1>4, <2>2 DEF A_WeaponReady, u, Sound
<1>5. CASE /\ ~ (v.pending # nochange \/ ~ v.alive) /\ attack
           /\ ~ (v.attackdown /\ v.ready \in {"missile", "bfg"})
  <2> DEFINE u == [v EXCEPT !.attackdown = TRUE]
  <2>1. u \in Players /\ Same(u, v)  BY <1>1 DEF Players, Same
  <2> HIDE DEF u
  <2>2. Sound(P_FireWeapon(u))  BY <2>1, HeldSame, FireSound
  <2> QED  BY <1>5, <2>2 DEF A_WeaponReady, u
<1> QED  BY <1>2, <1>3, <1>4, <1>5

LEMMA ReadySound ==
  ASSUME NEW v, Held(v), NEW attack \in BOOLEAN
  PROVE  Sound(Ready(v, attack))
<1> DEFINE u == At(v, "ready")
<1>1. v \in Players  BY DEF Held
<1>2. u \in Players /\ Same(u, v) /\ u.st = [of |-> v.ready, at |-> "ready", i |-> 0]
  BY <1>1, AtIs
<1> HIDE DEF u
<1>3. Held(u) /\ u.st = [of |-> u.ready, at |-> "ready", i |-> 0]  BY <1>2, HeldSame DEF Same
<1> QED  BY <1>3, WeaponReadySound DEF Ready, u

LEMMA RaiseSound ==
  ASSUME NEW v, Sound(v), v.st.at = "up", NEW attack \in BOOLEAN
  PROVE  Sound(A_Raise(v, attack))
<1>1. v \in Players /\ Held(v) /\ v.sy \in 0 .. Bottom  BY DEF Held, Players, Sound
<1>2. CASE v.sy - 1 > 0
  <2> DEFINE u == [v EXCEPT !.sy = v.sy - 1]
  <2>1. u \in Players /\ Same(u, v) /\ u.st = v.st  BY <1>1, <1>2 DEF Players, Same, Bottom
  <2> HIDE DEF u
  <2>2. Held(u) /\ Drawn(u)  BY <1>1, <2>1, HeldSame DEF Drawn, Same, Sound
  <2> QED  BY <1>2, <2>2 DEF A_Raise, u, Sound
<1>3. CASE ~ v.sy - 1 > 0
  <2> DEFINE u == [v EXCEPT !.sy = 0]
  <2>1. u \in Players /\ Same(u, v)  BY <1>1 DEF Players, Same, Bottom
  <2> HIDE DEF u
  <2>2. Held(u)  BY <1>1, <2>1, HeldSame
  <2> QED  BY <1>3, <2>2, ReadySound DEF A_Raise, u
<1> QED  BY <1>2, <1>3

\* The button that is still down, and the double-barrelled shotgun's reload.
LEMMA ReFireSound ==
  ASSUME NEW v, Sound(v), NEW attack \in BOOLEAN
  PROVE  Sound(A_ReFire(v, attack)) /\ Sound(A_CheckReload(v))
<1>1. Held(v)  BY DEF Sound
<1>2. Sound(IF HasAmmo(v, v.ready) THEN v ELSE ChangeOver(v))
  BY <1>1, ChangeOverSound
<1>3. Sound(P_FireWeapon(v))  BY <1>1, FireSound
<1> QED  BY <1>2, <1>3 DEF A_ReFire, A_CheckReload

LEMMA SetPspriteSound ==
  ASSUME NEW v, Sound(v), v.st.at = "fire", NEW attack \in BOOLEAN
  PROVE  Sound(P_SetPsprite(v, v.st.i + 1, attack))
<1> DEFINE i == v.st.i + 1
           w == v.st.of
           u == [v EXCEPT !.st.i = i]
           again == A_ReFire(u, attack)
<1>1. /\ v \in Players /\ Held(v) /\ w = v.ready /\ w \in Weapons /\ v.st.i \in 1 .. Len(Frames(w))
  BY DEF Held, Players, Sound, Drawn
<1>2. CASE i > Len(Frames(w))
  <2>1. P_SetPsprite(v, i, attack) = Ready(v, attack)  BY <1>2 DEF P_SetPsprite
  <2> QED  BY <1>1, <2>1, ReadySound
<1>3. CASE ~ i > Len(Frames(w))
  <2>1. i \in 2 .. Len(Frames(w)) /\ i \in 0 .. 5 /\ Len(Frames(w)) \in 2 .. 5
    BY <1>1, <1>3, FramesAre
  <2>2. /\ u \in Players /\ Same(u, v) /\ u.st.of = w /\ u.st.at = "fire" /\ u.st.i = i
    <3> HIDE DEF i
    <3> QED  BY <1>1, <2>1 DEF Players, Same
  <2>3. P_SetPsprite(v, i, attack) =
          LET frames == Frames(w) IN
          CASE frames[i] = "shoot" -> Shoot(u)
            [] frames[i] = "reload" -> A_CheckReload(u)
            [] frames[i] = "refire" -> again
            [] frames[i] = "now" -> IF again.st = u.st THEN Ready(again, attack) ELSE again
            [] OTHER -> u
    BY <1>3 DEF P_SetPsprite
  <2> HIDE DEF u
  <2>4. Held(u) /\ u.ready = w /\ u.ammo = v.ammo  BY <1>1, <2>2, HeldSame DEF Same
  <2>5. Drawn(u)  BY <1>1, <2>1, <2>2, <2>4 DEF Drawn, Same
  <2>6. Sound(again) /\ Sound(A_CheckReload(u)) /\ Sound(u)
    BY <2>4, <2>5, ReFireSound DEF Sound
  <2>7. Sound(Ready(again, attack))  BY <2>6, ReadySound DEF Sound
  <2>8. Frames(w)[i] = "shoot" => Sound(Shoot(u))
    <3> SUFFICES ASSUME Frames(w)[i] = "shoot"  PROVE Sound(Shoot(u))
      OBVIOUS
    <3> HIDE DEF i, w
    <3>1. i = 2
      <4>1. i = 2 \/ i \in 3 .. Len(Frames(w))  BY <2>1
      <4> QED  BY <1>1, <4>1, FramesAre
    <3>2. w \in {"pistol", "shotgun", "supershotgun", "chaingun", "missile", "bfg"}
      BY <1>1, <3>1, FramesAre
    <3>3. AmmoOf(w) # "none"  BY <1>1, <3>2, CountIs
    <3>4. w # "chaingun" => HasAmmo(u, w)
      <4>1. w # "chaingun" => HasAmmo(v, w)
        <5>1. v.st.i = 1  BY <1>1, <3>1 DEF i
        <5> QED  BY <1>1, <3>2, <5>1 DEF Sound, Drawn
      <4> QED  BY <2>4, <4>1 DEF HasAmmo
    <3> QED  BY <2>1, <2>2, <2>4, <3>1, <3>3, <3>4, ShootSound
  <2> HIDE DEF again, i, w
  <2> QED  BY <2>3, <2>6, <2>7, <2>8 DEF i
<1> QED  BY <1>2, <1>3

LEMMA SpritesSound ==
  ASSUME NEW v, Sound(v), NEW attack \in BOOLEAN
  PROVE  Sound(P_MovePsprites(v, attack))
<1>1. v \in Players /\ Held(v) /\ v.st.at \in {"up", "down", "ready", "fire"} /\ v.st.of \in Weapons
  BY DEF Held, Players, Sound
<1>2. v.st.at # "fire" => v.st = [of |-> v.ready, at |-> v.st.at, i |-> 0]
  BY <1>1 DEF Players, Sound, Drawn
<1>3. CASE v.st.at = "up"  BY <1>3, RaiseSound DEF P_MovePsprites
<1>4. CASE v.st.at = "down"
  <2>1. Lowered(v)  BY <1>1, <1>2, <1>4 DEF Lowered, Sound, Drawn
  <2> QED  BY <1>4, <2>1, LowerSound DEF P_MovePsprites
<1>5. CASE v.st.at = "ready"
  <2>1. Sound(A_WeaponReady(v, attack))  BY <1>1, <1>2, <1>5, WeaponReadySound
  <2> QED  BY <1>5, <2>1 DEF P_MovePsprites
<1>6. CASE v.st.at = "fire"
  <2>1. Sound(P_SetPsprite(v, v.st.i + 1, attack))  BY <1>6, SetPspriteSound
  <2> QED  BY <1>6, <2>1 DEF P_MovePsprites
<1> QED  BY <1>1, <1>3, <1>4, <1>5, <1>6
-----------------------------------------------------------------------------
(* What is picked up.                                                      *)

\* u is v with no less ammo, and if another weapon is pending, a weapon.
Richer(u, v) ==
  /\ u.alive = v.alive /\ u.ready = v.ready /\ u.st = v.st
  /\ u.pending = nochange => v.pending = nochange
  /\ \A a \in Ammo : u.ammo[a] >= v.ammo[a]

LEMMA RicherDrawn ==
  ASSUME NEW v \in Players, NEW u \in Players, Drawn(v), Richer(u, v)
  PROVE  Drawn(u)
<1>1. HasAmmo(v, v.ready) => HasAmmo(u, u.ready)
  <2> DEFINE a == AmmoOf(v.ready)
             n == Count(v.ready)
  <2>1. v.ready \in Weapons /\ v.ammo \in [Ammo -> Nat] /\ u.ammo \in [Ammo -> Nat]
    BY DEF Players
  <2>2. n \in Nat \ {0} /\ (a # "none" => a \in Ammo)  BY <2>1, CountIs
  <2>3. u.ready = v.ready  BY DEF Richer
  <2> HIDE DEF a, n
  <2>4. a # "none" /\ v.ammo[a] >= n => u.ammo[a] >= n  BY <2>1, <2>2 DEF Richer
  <2> QED  BY <2>3, <2>4 DEF HasAmmo, a, n
<1> QED  BY <1>1 DEF Drawn, Richer

LEMMA LimitIs ==
  ASSUME NEW v \in Players, NEW a \in Ammo
  PROVE  Limit(v, a) \in Nat \ {0}
<1>1. MaxAmmo[a] \in Nat \ {0}  BY ArsenalAssumption
<1> QED  BY <1>1 DEF Limit

\* More ammo never brings up what the player does not have.
LEMMA GiveAmmoSound ==
  ASSUME NEW v, NEW a \in Ammo \cup {"none"}, NEW clips \in Nat, Held(v)
  PROVE  /\ Held(P_GiveAmmo(v, a, clips)) /\ Richer(P_GiveAmmo(v, a, clips), v)
         /\ P_GiveAmmo(v, a, clips).owned = v.owned
         /\ P_GiveAmmo(v, a, clips).backpack = v.backpack
<1> DEFINE num == (IF clips > 0 THEN clips * Clip[a] ELSE Clip[a] \div 2)
                    * (IF kit.double THEN 2 ELSE 1)
           wanted == IF v.ammo[a] > 0 THEN v.pending ELSE Preferred(v, a)
           more == Least(v.ammo[a] + num, Limit(v, a))
           u == [v EXCEPT !.ammo[a] = more, !.pending = wanted]
<1>1. v \in Players /\ v.ammo \in [Ammo -> Nat] /\ v.owned \subseteq Weapons
  BY DEF Held, Players
<1>2. CASE a = "none" \/ v.ammo[a] = Limit(v, a)
  <2>1. P_GiveAmmo(v, a, clips) = v  BY <1>2 DEF P_GiveAmmo
  <2>2. \A b \in Ammo : v.ammo[b] >= v.ammo[b]
    <3>1. \A b \in Ammo : v.ammo[b] \in Nat  BY <1>1
    <3> QED  BY <3>1
  <2> QED  BY <2>1, <2>2 DEF Richer
<1>3. CASE ~ (a = "none" \/ v.ammo[a] = Limit(v, a))
  <2>1. P_GiveAmmo(v, a, clips) = u
    <3>1. P_GiveAmmo(v, a, clips) =
            [v EXCEPT !.ammo[a] = Least(@ + num, Limit(v, a)),
                      !.pending = IF v.ammo[a] > 0 THEN @ ELSE Preferred(v, a)]
      BY <1>3 DEF P_GiveAmmo
    <3> HIDE DEF num
    <3> QED  BY <1>1, <3>1 DEF Players
  <2>2. a \in Ammo /\ v.ammo[a] \in Nat /\ Limit(v, a) \in Nat \ {0} /\ v.ammo[a] <= Limit(v, a)
    BY <1>1, <1>3, LimitIs DEF Held
  <2>3. num \in Nat
    <3>1. Clip[a] \in Nat  BY <2>2, ArsenalAssumption
    <3> DEFINE c == Clip[a]
    <3>2. c \in Nat  BY <3>1
    <3> HIDE DEF c
    <3>3. clips * c \in Nat /\ c \div 2 \in Nat  BY <3>2
    <3> DEFINE d == IF clips > 0 THEN clips * c ELSE c \div 2
    <3>4. d \in Nat  BY <3>3
    <3> HIDE DEF d
    <3>5. d * 2 \in Nat /\ d * 1 \in Nat  BY <3>4
    <3> QED  BY <3>5 DEF c, d
  <2> HIDE DEF num
  <2>4. more \in Nat /\ more >= v.ammo[a] /\ more <= Limit(v, a) /\ (num > 0 => more > 0)
    BY <2>2, <2>3 DEF Least
  <2>5. /\ wanted = v.pending \/ wanted \in v.owned
        /\ kit.mode = "shareware" => wanted \notin Rare
    <3>1. CASE v.ammo[a] > 0  BY <3>1 DEF Held
    <3>2. CASE ~ v.ammo[a] > 0
      <4>1. Preferred(v, a) = v.pending \/ Preferred(v, a) \in v.owned
        BY <2>2 DEF Preferred, Held, Ammo
      <4>2. Preferred(v, a) \in Rare => Preferred(v, a) = v.pending \/ (a = "cell" /\ "plasma" \in v.owned)
        BY <2>2 DEF Preferred, Held, Ammo, Rare
      <4>3. kit.mode = "shareware" => ~ (a = "cell" /\ "plasma" \in v.owned)
        BY <2>2, <3>2 DEF Held, Rare
      <4> QED  BY <3>2, <4>1, <4>2, <4>3 DEF Held
    <3> QED  BY <3>1, <3>2
  <2> HIDE DEF more, wanted
  <2>6. wanted \in Weapons \cup {nochange} /\ (wanted = nochange => v.pending = nochange)
    BY <1>1, <2>5 DEF Held, Weapons, nochange
  <2>7. /\ u \in Players /\ u.ready = v.ready /\ u.pending = wanted /\ u.owned = v.owned
        /\ u.backpack = v.backpack /\ u.alive = v.alive /\ u.st = v.st
        /\ u.ammo = [v.ammo EXCEPT ![a] = more]
    BY <1>1, <2>2, <2>4, <2>6 DEF Players
  <2> HIDE DEF u
  <2>8. /\ \A b \in Ammo : u.ammo[b] >= v.ammo[b] /\ u.ammo[b] \in Nat /\ v.ammo[b] \in Nat
        /\ \A b \in Ammo : b # a => u.ammo[b] = v.ammo[b]
        /\ u.ammo[a] = more
    <3>1. \A b \in Ammo : v.ammo[b] \in Nat  BY <1>1
    <3> QED  BY <1>1, <2>2, <2>4, <2>7, <3>1
  <2>9. Richer(u, v)  BY <2>6, <2>7, <2>8 DEF Richer
  <2>10. Held(u)
    <3>1. \A b \in Ammo : u.ammo[b] <= Limit(u, b)
      <4> TAKE b \in Ammo
      <4>1. Limit(u, b) = Limit(v, b) /\ v.ammo[b] <= Limit(v, b)  BY <2>7 DEF Limit, Held
      <4> QED  BY <2>4, <2>8, <4>1
    <3>2. v.ammo["cell"] > 0 => u.ammo["cell"] > 0
      <4>1. "cell" \in Ammo  BY DEF Ammo
      <4> QED  BY <2>8, <4>1
    <3> QED  BY <2>5, <2>7, <3>1, <3>2 DEF Held
  <2> QED  BY <2>1, <2>7, <2>9, <2>10
<1> QED  BY <1>2, <1>3

\* Another weapon of the player's, now or to come.
LEMMA GivenHeld ==
  ASSUME NEW v, Held(v), NEW w \in Weapons, kit.mode = "shareware" => w \notin Rare
  PROVE  /\ Held([v EXCEPT !.owned = @ \cup {w}])
         /\ Richer([v EXCEPT !.owned = @ \cup {w}], v)
         /\ [v EXCEPT !.owned = @ \cup {w}].owned = v.owned \cup {w}
<1> DEFINE u == [v EXCEPT !.owned = @ \cup {w}]
<1>1. v \in Players /\ v.ammo \in [Ammo -> Nat]  BY DEF Held, Players
<1>2. /\ u \in Players /\ u.ready = v.ready /\ u.pending = v.pending /\ u.owned = v.owned \cup {w}
      /\ u.backpack = v.backpack /\ u.alive = v.alive /\ u.st = v.st /\ u.ammo = v.ammo
  BY <1>1 DEF Players
<1> HIDE DEF u
<1>3. Held(u)  BY <1>2 DEF Held, Limit
<1>4. \A b \in Ammo : v.ammo[b] \in Nat  BY <1>1
<1>5. Richer(u, v)  BY <1>2, <1>4 DEF Richer
<1> QED  BY <1>2, <1>3, <1>5 DEF u

LEMMA PendingHeld ==
  ASSUME NEW v, Held(v), NEW w \in v.owned, kit.mode = "shareware" => w \notin Rare
  PROVE  Held([v EXCEPT !.pending = w]) /\ Richer([v EXCEPT !.pending = w], v)
<1> DEFINE u == [v EXCEPT !.pending = w]
<1>1. v \in Players /\ v.ammo \in [Ammo -> Nat] /\ w \in Weapons  BY DEF Held, Players
<1>2. /\ u \in Players /\ u.ready = v.ready /\ u.pending = w /\ u.owned = v.owned
      /\ u.backpack = v.backpack /\ u.alive = v.alive /\ u.st = v.st /\ u.ammo = v.ammo
  BY <1>1 DEF Players
<1> HIDE DEF u
<1>3. Held(u)  BY <1>2 DEF Held, Limit
<1>4. \A b \in Ammo : v.ammo[b] \in Nat  BY <1>1
<1>5. w # nochange  BY <1>1 DEF Weapons, nochange
<1>6. Richer(u, v)  BY <1>2, <1>4, <1>5 DEF Richer
<1> QED  BY <1>3, <1>6 DEF u

LEMMA RicherStill ==
  ASSUME NEW a \in Players, NEW b \in Players, NEW c \in Players, Richer(a, b), Richer(b, c)
  PROVE  Richer(a, c)
<1>1. \A x \in Ammo : a.ammo[x] \in Nat /\ b.ammo[x] \in Nat /\ c.ammo[x] \in Nat  BY DEF Players
<1> QED  BY <1>1 DEF Richer
LEMMA GiveWeaponSound ==
  ASSUME NEW v, Held(v), NEW w \in Weapons, NEW dropped \in BOOLEAN,
         kit.mode = "shareware" => w \notin Rare
  PROVE  Held(P_GiveWeapon(v, w, dropped)) /\ Richer(P_GiveWeapon(v, w, dropped), v)
<1> DEFINE a == AmmoOf(w)
           x == [v EXCEPT !.owned = @ \cup {w}]
<1>1. v \in Players /\ a \in Ammo \cup {"none"}  BY CountIs DEF Held
<1>2. Held(x) /\ Richer(x, v) /\ w \in x.owned  BY GivenHeld
<1>3. v.ammo \in [Ammo -> Nat] /\ Richer(v, v)
  <2>1. v.ammo \in [Ammo -> Nat]  BY <1>1 DEF Players
  <2>2. \A b \in Ammo : v.ammo[b] \in Nat  BY <2>1
  <2> QED  BY <2>1, <2>2 DEF Richer
\* The net game's branch: the weapon first, then its ammo.
<1>4. ASSUME NEW n \in Nat
      PROVE  /\ Held([P_GiveAmmo(x, a, n) EXCEPT !.pending = w])
             /\ Richer([P_GiveAmmo(x, a, n) EXCEPT !.pending = w], v)
  <2> DEFINE y == P_GiveAmmo(x, a, n)
             z == [y EXCEPT !.pending = w]
  <2> HIDE DEF x, a
  <2>1. Held(y) /\ Richer(y, x) /\ y.owned = x.owned  BY <1>1, <1>2, GiveAmmoSound
  <2>2. w \in y.owned  BY <1>2, <2>1
  <2> HIDE DEF y
  <2>3. Held(z) /\ Richer(z, y)  BY <2>1, <2>2, PendingHeld
  <2> HIDE DEF z
  <2>4. Richer(z, x)  BY <1>2, <2>1, <2>3, RicherStill DEF Held
  <2>5. Richer(z, v)  BY <1>1, <1>2, <2>3, <2>4, RicherStill DEF Held
  <2> QED  BY <2>3, <2>5 DEF z, y, x
\* The other one: the ammo first.
<1>5. ASSUME NEW n \in Nat
      PROVE  LET u == P_GiveAmmo(v, a, n) IN
             /\ Held(u) /\ Richer(u, v)
             /\ Held([u EXCEPT !.owned = @ \cup {w}, !.pending = w])
             /\ Richer([u EXCEPT !.owned = @ \cup {w}, !.pending = w], v)
  <2> DEFINE u == P_GiveAmmo(v, a, n)
             y == [u EXCEPT !.owned = @ \cup {w}]
             z == [y EXCEPT !.pending = w]
  <2>1. Held(u) /\ Richer(u, v)  BY <1>1, GiveAmmoSound
  <2> HIDE DEF u
  <2>2. Held(y) /\ Richer(y, u) /\ w \in y.owned  BY <2>1, GivenHeld
  <2>3. Held(z) /\ Richer(z, y)
    <3> HIDE DEF y
    <3> QED  BY <2>2, PendingHeld
  <2>4. z = [u EXCEPT !.owned = @ \cup {w}, !.pending = w]  BY <2>1 DEF Held, Players
  <2> HIDE DEF y, z
  <2>5. Richer(z, u)  BY <2>1, <2>2, <2>3, RicherStill DEF Held
  <2>6. Richer(z, v)  BY <1>1, <2>1, <2>3, <2>5, RicherStill DEF Held
  <2> QED  BY <2>1, <2>3, <2>4, <2>6 DEF u
<1>6. CASE kit.netgame /\ kit.deathmatch # 2 /\ ~ dropped
  <2> DEFINE n == IF kit.deathmatch > 0 THEN 5 ELSE 2
  <2>1. n \in Nat  OBVIOUS
  <2> HIDE DEF n
  <2>2. Held([P_GiveAmmo(x, a, n) EXCEPT !.pending = w])
        /\ Richer([P_GiveAmmo(x, a, n) EXCEPT !.pending = w], v)
    BY <1>4, <2>1
  <2>3. P_GiveWeapon(v, w, dropped) =
          IF w \in v.owned THEN v ELSE [P_GiveAmmo(x, a, n) EXCEPT !.pending = w]
    BY <1>6 DEF P_GiveWeapon, n
  <2> QED  BY <1>3, <2>2, <2>3
<1>7. CASE ~ (kit.netgame /\ kit.deathmatch # 2 /\ ~ dropped)
  <2> DEFINE n == IF dropped THEN 1 ELSE 2
             u == P_GiveAmmo(v, a, n)
  <2>1. n \in Nat  OBVIOUS
  <2>2. P_GiveWeapon(v, w, dropped) =
          IF w \in v.owned THEN u ELSE [u EXCEPT !.owned = @ \cup {w}, !.pending = w]
    BY <1>7 DEF P_GiveWeapon
  <2> HIDE DEF n, a
  <2> QED  BY <1>5, <2>1, <2>2
<1> QED  BY <1>6, <1>7

LEMMA BackpackSound ==
  ASSUME NEW v, Held(v)
  PROVE  Held(Backpack(v)) /\ Richer(Backpack(v), v)
<1> DEFINE more == [v EXCEPT !.backpack = TRUE]
           Give(u, a) == P_GiveAmmo(u, a, 1)
           u1 == Give(more, "clip")
           u2 == Give(u1, "shell")
           u3 == Give(u2, "cell")
           u4 == Give(u3, "misl")
<1>0. {"clip", "shell", "cell", "misl"} = Ammo  BY DEF Ammo
<1>1. v \in Players /\ v.ammo \in [Ammo -> Nat]  BY DEF Held, Players
<1>2. /\ more \in Players /\ more.ready = v.ready /\ more.pending = v.pending
      /\ more.owned = v.owned /\ more.backpack = TRUE /\ more.alive = v.alive
      /\ more.st = v.st /\ more.ammo = v.ammo
  BY <1>1 DEF Players
<1>3. u4 = Backpack(v)  BY DEF Backpack
<1> HIDE DEF more
<1>4. Held(more)
  <2>1. \A a \in Ammo : more.ammo[a] <= Limit(more, a)
    <3> TAKE a \in Ammo
    <3>1. v.ammo[a] <= Limit(v, a) /\ v.ammo[a] \in Nat /\ MaxAmmo[a] \in Nat
      BY <1>1, ArsenalAssumption DEF Held
    <3> QED  BY <1>2, <3>1 DEF Limit
  <2> QED  BY <1>2, <2>1 DEF Held
<1>5. Richer(more, v)
  <2>1. \A a \in Ammo : v.ammo[a] \in Nat  BY <1>1
  <2> QED  BY <1>2, <2>1 DEF Richer
<1>6. Held(u1) /\ Richer(u1, more)  BY <1>0, <1>4, GiveAmmoSound
<1> HIDE DEF u1
<1>7. Held(u2) /\ Richer(u2, u1)  BY <1>0, <1>6, GiveAmmoSound
<1> HIDE DEF u2
<1>8. Held(u3) /\ Richer(u3, u2)  BY <1>0, <1>7, GiveAmmoSound
<1> HIDE DEF u3
<1>9. Held(u4) /\ Richer(u4, u3)  BY <1>0, <1>8, GiveAmmoSound
<1> HIDE DEF u4
<1>10. Richer(u4, u2)  BY <1>7, <1>8, <1>9, RicherStill DEF Held
<1>11. Richer(u4, u1)  BY <1>6, <1>7, <1>9, <1>10, RicherStill DEF Held
<1>12. Richer(u4, more)  BY <1>4, <1>6, <1>9, <1>11, RicherStill DEF Held
<1>13. Richer(u4, v)  BY <1>1, <1>4, <1>5, <1>9, <1>12, RicherStill DEF Held
<1> QED  BY <1>3, <1>9, <1>13

LEMMA EverythingSound ==
  ASSUME NEW v, Held(v)
  PROVE  Held(Everything(v)) /\ Richer(Everything(v), v)
<1> DEFINE u == Everything(v)
<1>1. v \in Players  BY DEF Held
<1>2. \A a \in Ammo : v.ammo[a] \in Nat /\ v.ammo[a] <= Limit(v, a) /\ Limit(v, a) \in Nat \ {0}
  BY <1>1, LimitIs DEF Held, Players
<1>3. [a \in Ammo |-> Limit(v, a)] \in [Ammo -> Nat]  BY <1>2
<1>4. /\ u \in Players /\ u.ready = v.ready /\ u.pending = v.pending /\ u.owned = Weapons
      /\ u.backpack = v.backpack /\ u.alive = v.alive /\ u.st = v.st
      /\ u.ammo = [a \in Ammo |-> Limit(v, a)]
  BY <1>1, <1>3 DEF Everything, Players
<1>5. v.ready \in Weapons /\ v.pending \in Weapons \cup {nochange}  BY <1>1 DEF Players
<1> HIDE DEF u
<1>6. \A a \in Ammo : u.ammo[a] = Limit(v, a) /\ Limit(u, a) = Limit(v, a)  BY <1>4 DEF Limit
<1>7. Held(u)
  <2>1. \A a \in Ammo : u.ammo[a] <= Limit(u, a)  BY <1>2, <1>6
  <2>2. u.ammo["cell"] > 0
    <3>1. "cell" \in Ammo  BY DEF Ammo
    <3> QED  BY <1>2, <1>6, <3>1
  <2>3. {"fist", "pistol"} \subseteq Weapons  BY DEF Weapons
  <2> QED  BY <1>4, <1>5, <2>1, <2>2, <2>3 DEF Held
<1>8. Richer(u, v)  BY <1>2, <1>4, <1>6 DEF Richer
<1> QED  BY <1>7, <1>8 DEF u

LEMMA TouchSound ==
  ASSUME NEW v, Sound(v), kit \in Kits, NEW item \in kit.items
  PROVE  Sound(P_TouchSpecialThing(v, item))
<1> DEFINE u == P_TouchSpecialThing(v, item)
<1>0. Held(v) /\ Drawn(v) /\ v \in Players  BY DEF Sound, Held
<1>1. item \in Items /\ (kit.mode = "shareware" /\ item.kind = "weapon" => item.of \notin Rare)
  <2>1. kit.items \subseteq Items  BY ArsenalAssumption
  <2>2. kit.mode = "shareware" =>
          {"plasma", "bfg"} \cap (kit.owned \cup {i.of : i \in {x \in kit.items : x.kind = "weapon"}}) = {}
    BY ArsenalAssumption
  <2> QED  BY <2>1, <2>2 DEF Rare
<1>2. ASSUME Held(u), Richer(u, v)  PROVE Sound(u)
  BY <1>0, <1>2, RicherDrawn DEF Sound, Held
<1>3. CASE item.kind = "ammo"
  <2>1. item.of \in Ammo \cup {"none"} /\ item.clips \in Nat  BY <1>1, <1>3 DEF Items
  <2>2. u = P_GiveAmmo(v, item.of, item.clips)  BY <1>3 DEF P_TouchSpecialThing
  <2> HIDE DEF u
  <2>3. Held(u) /\ Richer(u, v)  BY <1>0, <2>1, <2>2, GiveAmmoSound
  <2> QED  BY <1>2, <2>3 DEF u
<1>4. CASE item.kind = "weapon"
  <2>1. item.of \in Weapons /\ item.dropped \in BOOLEAN  BY <1>1, <1>4 DEF Items
  <2>2. u = P_GiveWeapon(v, item.of, item.dropped)  BY <1>4 DEF P_TouchSpecialThing
  <2> HIDE DEF u
  <2>3. Held(u) /\ Richer(u, v)  BY <1>0, <1>1, <1>4, <2>1, <2>2, GiveWeaponSound
  <2> QED  BY <1>2, <2>3 DEF u
<1>5. CASE item.kind = "berserk"
  <2> DEFINE wanted == IF v.ready # "fist" THEN "fist" ELSE v.pending
             x == [v EXCEPT !.strength = TRUE, !.pending = wanted]
  <2>1. u = x
    <3>1. u = [v EXCEPT !.strength = TRUE, !.pending = IF v.ready # "fist" THEN "fist" ELSE @]
      BY <1>5 DEF P_TouchSpecialThing
    <3> QED  BY <1>0, <3>1 DEF Players
  <2>2. /\ wanted \in v.owned \cup {nochange} /\ (wanted = nochange => v.pending = nochange)
        /\ (kit.mode = "shareware" => wanted \notin Rare)
    BY <1>0 DEF Held, Rare, nochange
  <2>3. wanted \in Weapons \cup {nochange}  BY <1>0, <2>2 DEF Players
  <2> HIDE DEF wanted
  <2>4. /\ x \in Players /\ x.ready = v.ready /\ x.pending = wanted /\ x.owned = v.owned
        /\ x.backpack = v.backpack /\ x.alive = v.alive /\ x.st = v.st /\ x.ammo = v.ammo
    BY <1>0, <2>3 DEF Players
  <2> HIDE DEF x
  <2>5. Held(x)  BY <1>0, <2>2, <2>4 DEF Held, Limit
  <2>6. \A a \in Ammo : v.ammo[a] \in Nat  BY <1>0 DEF Players
  <2>7. Richer(x, v)  BY <2>2, <2>4, <2>6 DEF Richer
  <2> HIDE DEF u
  <2> QED  BY <1>2, <2>1, <2>5, <2>7 DEF u
<1>6. CASE item.kind = "backpack"
  <2>1. u = Backpack(v)  BY <1>6 DEF P_TouchSpecialThing
  <2> HIDE DEF u
  <2> QED  BY <1>0, <1>2, <2>1, BackpackSound DEF u
<1>7. CASE item.kind = "cheat"
  <2>1. u = Everything(v)  BY <1>7 DEF P_TouchSpecialThing
  <2> HIDE DEF u
  <2> QED  BY <1>0, <1>2, <2>1, EverythingSound DEF u
<1>8. item.kind \in {"ammo", "weapon", "berserk", "backpack", "cheat"}  BY <1>1 DEF Items
<1> HIDE DEF u
<1> QED  BY <1>3, <1>4, <1>5, <1>6, <1>7, <1>8 DEF u

-----------------------------------------------------------------------------
(* Every step.                                                             *)

LEMMA ChangeSound ==
  ASSUME NEW v, Sound(v), NEW key
  PROVE  Sound(BT_CHANGE(v, key))
<1> DEFINE w == Wanted(v, key)
<1>0. Held(v) /\ Drawn(v) /\ v \in Players  BY DEF Sound, Held
<1> HIDE DEF w
<1>1. CASE w \in v.owned /\ w # v.ready /\ (w \in {"plasma", "bfg"} => kit.mode # "shareware")
  <2> DEFINE u == [v EXCEPT !.pending = w]
  <2>1. BT_CHANGE(v, key) = u  BY <1>1 DEF BT_CHANGE, w
  <2>2. Held(u) /\ Richer(u, v)  BY <1>0, <1>1, PendingHeld DEF Rare
  <2> HIDE DEF u
  <2> QED  BY <1>0, <2>1, <2>2, RicherDrawn DEF Sound, Held
<1>2. CASE ~ (w \in v.owned /\ w # v.ready /\ (w \in {"plasma", "bfg"} => kit.mode # "shareware"))
  <2>1. BT_CHANGE(v, key) = v  BY <1>2 DEF BT_CHANGE, w
  <2> QED  BY <2>1
<1> QED  BY <1>1, <1>2

LEMMA RebornHeld ==
  ASSUME NEW v, Held(v)
  PROVE  Held(G_PlayerReborn(v))
<1> DEFINE u == G_PlayerReborn(v)
           bullets == [a \in Ammo |-> IF a = "clip" THEN MaxAmmo[a] \div 2 ELSE 0]
<1>1. v \in Players  BY DEF Held
<1>2. \A a \in Ammo : MaxAmmo[a] \in Nat /\ bullets[a] \in Nat /\ bullets[a] <= MaxAmmo[a]
  <2> TAKE a \in Ammo
  <2>1. MaxAmmo[a] \in Nat  BY ArsenalAssumption
  <2> DEFINE n == MaxAmmo[a]
  <2> HIDE DEF n
  <2>2. n \in Nat => n \div 2 \in Nat /\ n \div 2 <= n  OBVIOUS
  <2> QED  BY <2>1, <2>2 DEF n
<1>3. bullets \in [Ammo -> Nat]  BY <1>2
<1>4. {"fist", "pistol"} \subseteq Weapons  BY DEF Weapons
<1>5. u = [v EXCEPT !.alive = TRUE, !.ready = "pistol", !.pending = "pistol",
            !.owned = {"fist", "pistol"}, !.backpack = FALSE, !.strength = FALSE,
            !.ammo = bullets, !.attackdown = TRUE]
  BY DEF G_PlayerReborn
<1> HIDE DEF bullets, u
<1>6. /\ u.ready = "pistol" /\ u.pending = "pistol" /\ u.owned = {"fist", "pistol"}
      /\ u.backpack = FALSE /\ u.ammo = bullets
  BY <1>1, <1>5 DEF Players
<1>7. u \in Players  BY <1>1, <1>3, <1>4, <1>5 DEF Players
<1>8. Held(u)  BY <1>2, <1>6, <1>7 DEF Held, Limit, Rare
<1> QED  BY <1>8 DEF u

LEMMA InitSound == ArsenalInit => IInv
<1> SUFFICES ASSUME ArsenalInit  PROVE IInv
  OBVIOUS
<1> DEFINE v == [alive |-> TRUE, ready |-> "pistol", pending |-> nochange, owned |-> kit.owned,
                 ammo |-> kit.ammo, backpack |-> FALSE, strength |-> FALSE, attackdown |-> TRUE,
                 sy |-> 0, st |-> [of |-> "pistol", at |-> "up", i |-> 0]]
<1>1. kit \in Kits /\ player = P_SetupPsprites(v)  BY DEF ArsenalInit
<1>2. /\ {"fist", "pistol"} \subseteq kit.owned /\ kit.owned \subseteq Weapons
      /\ kit.ammo \in [Ammo -> Nat] /\ \A a \in Ammo : kit.ammo[a] <= MaxAmmo[a]
      /\ kit.mode = "shareware" => {"plasma", "bfg"} \cap kit.owned = {}
  BY <1>1, ArsenalAssumption
<1>3. "pistol" \in Weapons /\ 0 \in 0 .. Bottom  BY DEF Weapons, Bottom
<1>4. v.st \in [of : Weapons, at : {"up", "down", "ready", "fire"}, i : 0 .. 5]  BY <1>3
<1>5. v \in Players
  <2> HIDE DEF nochange
  <2> QED  BY <1>2, <1>3, <1>4 DEF Players
<1>6. Held(v)  BY <1>2, <1>5 DEF Held, Limit, Rare, nochange
<1> HIDE DEF v
<1> QED  BY <1>1, <1>6, BringUpSound DEF P_SetupPsprites, IInv

LEMMA NextKeeps == IInv /\ [ArsenalNext]_arsenalVars => IInv'
<1> SUFFICES ASSUME IInv, [ArsenalNext]_arsenalVars  PROVE kit' = kit /\ Sound(player')
  <2>1. kit' = kit /\ Sound(player') => Sound(player)'
    BY DEF Sound, Held, Drawn, Limit, HasAmmo
  <2> QED  BY <2>1 DEF IInv
<1>0. kit \in Kits /\ Sound(player) /\ Held(player) /\ player \in Players  BY DEF IInv, Sound, Held
<1>1. CASE Tic
  <2>1. PICK attack \in BOOLEAN, key \in {nochange} \cup kit.keys : P_PlayerThink(attack, key)
    BY <1>1 DEF Tic
  <2> DEFINE v == IF key = nochange THEN player ELSE BT_CHANGE(player, key)
  <2>2. Sound(v)  BY <1>0, ChangeSound
  <2>3. player' = P_MovePsprites(v, attack) /\ kit' = kit  BY <2>1 DEF P_PlayerThink
  <2> HIDE DEF v
  <2> QED  BY <2>2, <2>3, SpritesSound
<1>2. CASE \E item \in kit.items : Touch(item)
  BY <1>0, <1>2, TouchSound DEF Touch
<1>3. CASE Die
  <2> DEFINE v == [player EXCEPT !.alive = FALSE]
  <2>1. v \in Players /\ v.alive = FALSE /\ v.ready = player.ready /\ v.pending = player.pending
        /\ v.owned = player.owned /\ v.ammo = player.ammo /\ v.backpack = player.backpack
    BY <1>0 DEF Players
  <2>2. player' = PutDown(v) /\ kit' = kit  BY <1>3 DEF Die
  <2> HIDE DEF v
  <2>3. Held(v)  BY <1>0, <2>1 DEF Held, Limit
  <2> QED  BY <2>1, <2>2, <2>3, PutDownSound
<1>4. CASE Reborn
  BY <1>0, <1>4, RebornHeld, BringUpSound DEF Reborn, P_SetupPsprites
<1>5. CASE NextLevel
  <2> DEFINE v == [player EXCEPT !.strength = FALSE]
  <2>1. v \in Players /\ Same(v, player)  BY <1>0 DEF Players, Same
  <2>2. player' = P_SetupPsprites(v) /\ kit' = kit  BY <1>5 DEF NextLevel
  <2> HIDE DEF v
  <2>3. Held(v)  BY <1>0, <2>1, HeldSame
  <2> QED  BY <2>2, <2>3, BringUpSound DEF P_SetupPsprites
<1>6. CASE UNCHANGED arsenalVars  BY <1>0, <1>6 DEF arsenalVars
<1> QED  BY <1>1, <1>2, <1>3, <1>4, <1>5, <1>6 DEF ArsenalNext

\* Every player's weapon, in every state of every game: what is in the hands and
\* what its sprite does.
THEOREM Invariance == ArsenalSpec => []IInv
BY InitSound, NextKeeps, PTL DEF ArsenalSpec

\* The record keeps its types: the sprite's state is one weaponinfo and info.c have.
THEOREM TypeCorrect == ArsenalSpec => []ArsenalTypeOK
<1>1. IInv => ArsenalTypeOK
  BY DEF IInv, Sound, Held, Drawn, Players, ArsenalTypeOK
<1> QED  BY <1>1, Invariance, PTL

\* Between any two tics the weapon in the hands is one the player has, so is the
\* one to come, no shot is owed, and P_CheckAmmo's spare weapon can shoot.
THEOREM WeaponsStaySound == ArsenalSpec => []WeaponsSound
<1>1. IInv => WeaponsSound
  <2> SUFFICES ASSUME IInv  PROVE WeaponsSound
    OBVIOUS
  <2>0. Held(player) /\ Drawn(player) /\ player \in Players  BY DEF IInv, Sound, Held
  <2>1. WeaponHeld
    BY <2>0 DEF Held, Drawn, WeaponHeld, Rare
  <2>2. AmmoHolds
    <3>1. \A a \in Ammo : player.ammo[a] \in Nat /\ Limit(player, a) \in Nat
      BY <2>0, LimitIs DEF Players
    <3> QED  BY <2>0, <3>1 DEF Held, AmmoHolds
  <2>3. SpareShoots  BY <2>0, SpareIs DEF SpareShoots
  <2> QED  BY <2>1, <2>2, <2>3 DEF WeaponsSound
<1> QED  BY <1>1, Invariance, PTL
===============================================================================
