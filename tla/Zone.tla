-------------------------------- MODULE Zone --------------------------------
(***************************************************************************)
(* The zone allocator of engine/core/z_zone.c and the lump cache of        *)
(* w_wad.c on top of it.  The heap is one stretch of addresses cut into    *)
(* blocks; every block header links the next and the previous one in a     *)
(* ring closed by a cap, and a block that may be purged has an owner: the  *)
(* pointer that is cleared when it goes.                                   *)
(*                                                                         *)
(* The loops of Z_Malloc and Z_FreeTags take one action per pass.  A       *)
(* header that is merged into its neighbour keeps what it held, as in the  *)
(* code: Z_FreeTags goes on to read its link and its user.  Addresses and  *)
(* sizes count units of a block header; a request includes its header.     *)
(*                                                                         *)
(* A definition named X_Y is X with a plausible bug in it: X's property    *)
(* must fail under it (PROJECT.json, "mutants").                           *)
(***************************************************************************)
EXTENDS Integers

CONSTANTS
  Top,          \* mainzone->size without its head
  MinFragment,  \* MINFRAGMENT
  Lumps,        \* the lumps of the WAD: lump l's owner is &lumpcache[l]
  Length,       \* W_LumpLength, as a request's size
  Sizes,        \* what the other callers ask for
  Unowned,      \* the user (void *)2 of a block nobody owns
  Free          \* the user NULL of a free block

ASSUME ZoneAssumption ==
  /\ Top \in Nat \ {0} /\ MinFragment \in Nat
  /\ Sizes \subseteq Nat \ {0} /\ Length \in [Lumps -> Nat \ {0}]
  /\ Unowned \notin Lumps /\ Free \notin Lumps \cup {Unowned}

VARIABLES
  size, next, prev, user, tag,    \* the headers; size is 0 where there is none
  lumpcache,    \* where each lump is, or Null
  rover,        \* mainzone->rover: the next Z_Malloc looks here first
  mode,         \* "idle", the loop that runs ("scan", "freetags"), "fits"
                \* when Z_Malloc's loop found base, or "failed" (I_Error)
  base, at, start,    \* Z_Malloc's base, rover and start; Z_FreeTags' block
  want,         \* Z_Malloc's arguments
  latest        \* the block Z_Malloc returned last, if not freed since, or Null

heapVars == <<size, next, prev, user, tag, lumpcache>>
loopVars == <<base, at, start, want>>
vars == <<heapVars, loopVars, rover, mode, latest>>

Addr == 0 .. Top - 1
Cap == Top            \* &mainzone->blocklist
Null == Top + 1
Headers == Addr \cup {Cap}
Owners == Lumps \cup {Unowned}
Tags == {"static", "level", "cache"}
blocks == {b \in Addr : size[b] > 0}
Purgable(b) == tag[b] = "cache"     \* tag >= PU_PURGELEVEL

\* What Z_Malloc was asked for, if nobody is asking.
NoWant == [size |-> 0, tag |-> "static", user |-> Unowned]

Init ==
  /\ size = [b \in Headers |-> IF b = 0 THEN Top ELSE 0]
  /\ next = [b \in Headers |-> IF b = 0 THEN Cap ELSE 0]
  /\ prev = [b \in Headers |-> IF b = 0 THEN Cap ELSE 0]
  /\ user = [b \in Headers |-> IF b = Cap THEN Unowned ELSE Free]
  /\ tag = [b \in Headers |-> "static"]
  /\ lumpcache = [l \in Lumps |-> Null]
  /\ rover = 0 /\ mode = "idle" /\ latest = Null
  /\ base = Cap /\ at = Cap /\ start = Cap /\ want = NoWant

-----------------------------------------------------------------------------
(* Z_Free of block b: its owner's pointer is cleared, and it is merged with the
   free block before it (back) and the free block after it (fore). *)

Back(b) == user[prev[b]] = Free
Fore_Never(b) == FALSE
Fore(b) == user[next[b]] = Free

Disowned_Never(b) == lumpcache
Disowned(b) == [l \in Lumps |-> IF l = user[b] THEN Null ELSE lumpcache[l]]

Joined_BackTwice(b) == size[b] + 2 * (IF Back(b) THEN size[prev[b]] ELSE 0)
Joined(b) ==
  size[b] + (IF Back(b) THEN size[prev[b]] ELSE 0) + (IF Fore(b) THEN size[next[b]] ELSE 0)

Release(b) ==
  LET back == Back(b)
      fore == Fore(b)
      keep == IF back THEN prev[b] ELSE b
      over == IF fore THEN next[next[b]] ELSE next[b]
  IN
  /\ lumpcache' = Disowned(b)
  /\ size' = [h \in Headers |->
                IF h = keep THEN Joined(b)
                ELSE IF h = b \/ (fore /\ h = next[b]) THEN 0 ELSE size[h]]
  /\ next' = [next EXCEPT ![keep] = over]
  /\ prev' = [prev EXCEPT ![over] = keep]
  /\ user' = [user EXCEPT ![b] = Free]
  /\ tag' = [tag EXCEPT ![b] = "static"]
  /\ rover' = IF \/ back /\ rover = b
                 \/ fore /\ rover = next[b]
              THEN keep ELSE rover
  /\ latest' = IF latest = b THEN Null ELSE latest

Z_Free(b) ==
  /\ mode = "idle" /\ b \in blocks /\ user[b] # Free
  /\ Release(b)
  /\ UNCHANGED <<mode, loopVars>>

\* Z_Malloc up to its loop: one free block behind the rover is backed over.
Z_Malloc(sz, t, u) ==
  /\ mode = "idle" /\ mode' = "scan"
  /\ want' = [size |-> sz, tag |-> t, user |-> u]
  /\ base' = IF user[prev[rover]] = Free THEN prev[rover] ELSE rover
  /\ at' = base'
  /\ start' = prev[base']
  /\ UNCHANGED <<heapVars, rover, latest>>

\* The loop's condition, on the heap and the base its body left.
Scanned ==
  mode' = IF user'[base'] = Free /\ size'[base'] >= want.size THEN "fits" ELSE "scan"

\* "scanned all the way around the list"
Around == at = start

PassUsed ==
  /\ mode = "scan" /\ ~ Around
  /\ user[at] # Free /\ ~ Purgable(at)
  /\ base' = next[at] /\ at' = next[at]
  /\ UNCHANGED <<heapVars, rover, start, want, latest>>
  /\ Scanned

PassFree ==
  /\ mode = "scan" /\ ~ Around
  /\ user[at] = Free
  /\ at' = next[at]
  /\ UNCHANGED <<heapVars, rover, base, start, want, latest>>
  /\ Scanned

Purge ==
  /\ mode = "scan" /\ ~ Around
  /\ user[at] # Free /\ Purgable(at)
  /\ Release(at)
  /\ base' = next'[prev[base]]
  /\ at' = next'[base']
  /\ Scanned
  /\ UNCHANGED <<start, want>>

Fail ==
  /\ mode = "scan" /\ Around
  /\ mode' = "failed"
  /\ UNCHANGED <<heapVars, loopVars, rover, latest>>

\* Z_Malloc after its loop: the rest of base becomes a free block if it is
\* more than a fragment, and the owner is pointed at base.
NextRover_Here(b) == b
NextRover(b) == next'[b]

Take ==
  LET split == size[base] - want.size > MinFragment
      new == base + want.size
  IN
  /\ mode = "fits" /\ mode' = "idle"
  /\ IF split
     THEN /\ size' = [size EXCEPT ![new] = size[base] - want.size, ![base] = want.size]
          /\ next' = [next EXCEPT ![new] = next[base], ![base] = new]
          /\ prev' = [prev EXCEPT ![new] = base, ![next[base]] = new]
          /\ user' = [user EXCEPT ![new] = Free, ![base] = want.user]
          /\ tag' = [tag EXCEPT ![new] = "static", ![base] = want.tag]
     ELSE /\ user' = [user EXCEPT ![base] = want.user]
          /\ tag' = [tag EXCEPT ![base] = want.tag]
          /\ UNCHANGED <<size, next, prev>>
  /\ lumpcache' = [l \in Lumps |-> IF l = want.user THEN base ELSE lumpcache[l]]
  /\ rover' = NextRover(base)
  /\ latest' = base
  /\ want' = NoWant /\ base' = Cap /\ at' = Cap /\ start' = Cap

-----------------------------------------------------------------------------
\* Z_FreeTags (PU_LEVEL, PU_PURGELEVEL - 1), as P_SetupLevel calls it: each
\* pass reads the link before it frees.
Z_FreeTags ==
  /\ mode = "idle" /\ mode' = "freetags"
  /\ at' = next[Cap]
  /\ UNCHANGED <<heapVars, base, start, want, rover, latest>>

FreeTagged ==
  /\ mode = "freetags" /\ at # Cap
  /\ at' = next[at]
  /\ IF user[at] # Free /\ tag[at] = "level"
     THEN Release(at)
     ELSE UNCHANGED <<heapVars, rover, latest>>
  /\ UNCHANGED <<mode, base, start, want>>

FreedTags ==
  /\ mode = "freetags" /\ at = Cap
  /\ mode' = "idle"
  /\ UNCHANGED <<heapVars, loopVars, rover, latest>>

\* W_CacheLumpNum: a lump that is not in the zone is read into a new block, a
\* lump that is has its tag changed.
W_CacheLumpNum(l, t) ==
  IF lumpcache[l] = Null
  THEN Z_Malloc(Length[l], t, l)
  ELSE /\ mode = "idle"
       /\ tag' = [tag EXCEPT ![lumpcache[l]] = t]
       /\ UNCHANGED <<size, next, prev, user, lumpcache, rover, mode, loopVars, latest>>

Scan == PassUsed \/ PassFree \/ Purge \/ Fail \/ Take

Next ==
  \/ Scan
  \/ FreeTagged \/ FreedTags \/ Z_FreeTags
  \/ \E sz \in Sizes, t \in {"static", "level"} : Z_Malloc(sz, t, Unowned)
  \/ \E l \in Lumps, t \in Tags : W_CacheLumpNum(l, t)
  \/ \E b \in Addr : Z_Free(b)

Spec == Init /\ [][Next]_vars

\* The engine has one thread: a call that has begun runs on.
FairSpec == Spec /\ WF_vars(Scan)

-----------------------------------------------------------------------------
TypeOK ==
  /\ size \in [Headers -> 0 .. Top]
  /\ next \in [Headers -> Headers] /\ prev \in [Headers -> Headers]
  /\ user \in [Headers -> Owners \cup {Free}]
  /\ tag \in [Headers -> Tags]
  /\ lumpcache \in [Lumps -> Addr \cup {Null}]
  /\ rover \in Headers /\ latest \in Addr \cup {Null}
  /\ mode \in {"idle", "scan", "fits", "freetags", "failed"}
  /\ {base, at, start} \subseteq Headers
  /\ want \in [size : Nat, tag : Tags, user : Owners]

\* Z_CheckHeap's first two tests and the head of z_zone.c ("never any space
\* between memblocks"): the headers cut the heap without gap or overlap, and
\* the links of the ring agree with the sizes in both directions.
Tiled ==
  /\ \A b \in blocks :
       /\ next[b] = b + size[b]
       /\ next[b] \in blocks \cup {Cap}
       /\ prev[next[b]] = b
       /\ \A c \in blocks : c > b => c >= next[b]
  /\ 0 \in blocks /\ next[Cap] = 0 /\ prev[0] = Cap
  /\ prev[Cap] \in blocks

\* Z_CheckHeap's third test: no two free blocks are neighbours, whatever was
\* freed, purged and cut in between.
NoTwoFree == \A b \in blocks : ~ (user[b] = Free /\ user[next[b]] = Free)

\* No pointer the allocator goes on with is left on a header that was merged
\* away: the rover, and while Z_Malloc looks, its base, rover and start.
Anchored ==
  /\ rover \in blocks \cup {Cap}
  /\ mode = "scan" => {base, at, start} \subseteq blocks \cup {Cap}

\* Z_CheckHeap finds nothing, after each pass of each loop, and the next pass
\* starts from headers.
HeapSound == Tiled /\ NoTwoFree /\ Anchored

\* A lump's cache entry and the zone agree: it names the block that holds the
\* lump, or nothing once that block was purged or freed.
CacheIsTrue ==
  /\ \A l \in Lumps : lumpcache[l] # Null =>
       lumpcache[l] \in blocks /\ user[lumpcache[l]] = l
  /\ \A b \in blocks : user[b] \in Lumps => lumpcache[user[b]] = b

\* The block Z_Malloc returned last is not purged by the next Z_Malloc: a
\* caller that holds one PU_CACHE pointer may fetch another.
LatestSurvives == [][mode = "scan" /\ latest # Null => user'[latest] # Free]_vars

\* Z_Malloc's loop ends, with a block or with I_Error: a scan is never the last
\* thing that happens.
MallocEnds == []<>(mode \notin {"scan", "fits"})

=============================================================================
