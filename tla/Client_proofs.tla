----------------------------- MODULE Client_proofs -----------------------------
(* Client runs the relay's log: the inductive invariant, and from it RanIsLog, *)
(* NothingLost, CmdsAreFresh and the refinement of TicLog, for every size of   *)
(* the ring, the backlog and the chunk, every delay and every number of tics.  *)
EXTENDS Client, FiniteSetTheorems, SequenceTheorems, WellFoundedInduction, TLAPS

Item == [tic : Nat, b : Bundles]

\* The tics accepted from the socket.
Received == IF next = -1 THEN 0 ELSE next

\* A queue that holds the log l's tics from f on.
Follows(q, f, l) == \A i \in 1 .. Len(q) : q[i].tic = f + i - 1 /\ q[i].b = l[f + i]

\* A ring that holds the log l's tics g .. f - 1.
Written(r, g, f, l) == \A t \in g .. f - 1 : r[t % Ring] = l[t + 1]

Prefix(w, l) == Len(w) <= Len(l) /\ \A i \in 1 .. Len(w) : w[i] = l[i]

Shapes ==
  /\ log \in Seq(Bundles) /\ world \in Seq(Bundles) /\ queue \in Seq(Item)
  /\ next \in Int /\ next >= -1 /\ nettic \in Nat

\* The log is cut in four: run, in the ring, queued, not received yet.
IInv ==
  /\ Shapes
  /\ Received <= Len(log) /\ nettic + Len(queue) = Received
  /\ Follows(queue, nettic, log)
  /\ gametic <= nettic /\ nettic <= gametic + Ring
  /\ Written(ring, gametic, nettic, log)
  /\ Prefix(world, log)
  /\ phase = "boot" => next = -1
  /\ phase # "live" => gametic = nettic

-----------------------------------------------------------------------------
\* The ring's indices: fewer than n apart, two tics differ modulo n.

\* A multiple of n lies outside 1 .. n - 1.
LEMMA Multiple ==
  ASSUME NEW n \in Nat, NEW d \in Int, n > 0
  PROVE  n * d <= 0 \/ n * d >= n
<1>1. CASE d <= 0
  <2>1. n * d <= n * 0  BY <1>1
  <2> QED  BY <2>1
<1>2. CASE d >= 1
  <2>1. n * d >= n * 1  BY <1>2
  <2> QED  BY <2>1
<1> QED  BY <1>1, <1>2

\* Division with remainder.
LEMMA DivMod ==
  ASSUME NEW n \in Nat, NEW x \in Nat, n > 0
  PROVE  x \div n \in Int /\ x % n \in 0 .. n - 1 /\ x = n * (x \div n) + (x % n)
  OBVIOUS

\* Two tics less than n apart have distinct places in a ring of n.
LEMMA ModDistinct ==
  ASSUME NEW n \in Nat, NEW x \in Nat, NEW y \in Nat, n > 0, x < y, y - x < n
  PROVE  x % n # y % n
<1> SUFFICES ASSUME x % n = y % n PROVE FALSE  OBVIOUS
<1> DEFINE a == x \div n
           b == y \div n
           m == x % n
<1>1. a \in Int /\ b \in Int /\ m \in Int  BY DivMod
<1>2. x = n * a + m /\ y = n * b + m  BY DivMod
<1> HIDE DEF a, b, m
<1>3. n * b - n * a = n * (b - a)  BY <1>1
<1>4. n * a \in Int /\ n * b \in Int /\ n * (b - a) \in Int  BY <1>1
<1>5. y - x = n * (b - a)  BY <1>1, <1>2, <1>3, <1>4
<1>6. n * (b - a) <= 0 \/ n * (b - a) >= n  BY <1>1, Multiple
<1> QED  BY <1>4, <1>5, <1>6

\* The ring has places 0 .. Ring - 1, and every tic has one.
LEMMA Place ==
  /\ Ring \in Nat /\ Ring > 0
  /\ \A t \in Nat : t % Ring \in 0 .. Ring - 1
  BY ClientAssumption, DivMod

-----------------------------------------------------------------------------
\* What Put and Taken do.

\* A place holds the last bundle put there.
LEMMA PutLast ==
  ASSUME NEW r, NEW q \in Seq(Item), NEW n \in 0 .. Len(q), NEW j \in 1 .. n,
         \A k \in j + 1 .. n : q[k].tic % Ring # q[j].tic % Ring
  PROVE  Put(r, q, n)[q[j].tic % Ring] = q[j].b
<1> DEFINE i == q[j].tic % Ring
           here == {k \in 1 .. n : q[k].tic % Ring = i}
<1>0. Len(q) \in Nat /\ n \in Nat /\ j \in 1 .. Len(q)  BY LenProperties
<1>1. q[j].tic \in Nat
  <2>1. q[j] \in Item  BY <1>0, ElementOfSeq
  <2> QED  BY <2>1 DEF Item
<1>2. i \in 0 .. Ring - 1  BY <1>1, Place
<1>3. here \subseteq 1 .. n /\ j \in here /\ \A k \in here : j >= k  BY <1>0
<1>4. Max(here) = j
  <2>1. \A k \in here : k \in Int  BY <1>0, <1>3
  <2>2. \A k \in here : (\A m \in here : k >= m) => k = j  BY <1>0, <1>3, <2>1
  <2> HIDE DEF here
  <2> QED  BY <1>3, <2>2 DEF Max
<1>5. Put(r, q, n)[i] = IF here = {} THEN r[i] ELSE q[Max(here)].b
  BY <1>2 DEF Put
<1> QED  BY <1>3, <1>4, <1>5

\* A place no bundle is put in keeps what it held.
LEMMA PutOther ==
  ASSUME NEW r, NEW q \in Seq(Item), NEW n \in 0 .. Len(q), NEW i \in 0 .. Ring - 1,
         \A k \in 1 .. n : q[k].tic % Ring # i
  PROVE  Put(r, q, n)[i] = r[i]
<1> DEFINE here == {k \in 1 .. n : q[k].tic % Ring = i}
<1>1. here = {}  OBVIOUS
<1>2. Put(r, q, n)[i] = IF here = {} THEN r[i] ELSE q[Max(here)].b  BY DEF Put
<1> QED  BY <1>1, <1>2

\* The engine takes the queue's bundles as far as the ring has room.
LEMMA TakenIs ==
  ASSUME NEW q \in Seq(Item), NEW f \in Nat, NEW g \in Nat,
         g <= f, f <= g + Ring, \A i \in 1 .. Len(q) : q[i].tic = f + i - 1
  PROVE  /\ Taken(q, g) \in 0 .. Len(q)
         /\ f + Taken(q, g) <= g + Ring
<1> DEFINE room == g + Ring - f
           n == IF Len(q) <= room THEN Len(q) ELSE room
           taken == {i \in 1 .. Len(q) : HasRoom(q[i].tic, g)}
<1>1. Len(q) \in Nat /\ Ring \in Nat  BY LenProperties, Place
<1>2. n \in 0 .. Len(q) /\ f + n <= g + Ring  BY <1>1
<1>3. \A i \in 1 .. Len(q) : HasRoom(q[i].tic, g) <=> i <= n
  BY <1>1 DEF HasRoom
<1>4. taken = 1 .. n
  <2>1. \A i \in taken : i \in 1 .. n  BY <1>1, <1>2, <1>3
  <2>2. \A i \in 1 .. n : i \in taken  BY <1>1, <1>2, <1>3
  <2> QED  BY <2>1, <2>2
<1>5. Cardinality(1 .. n) = n
  <2> HIDE DEF n
  <2> QED  BY <1>1, <1>2, FS_Interval
<1>6. Taken(q, g) = n  BY <1>4, <1>5 DEF Taken
<1> QED  BY <1>2, <1>6

\* What is left of a queue follows on from what was taken.
LEMMA RestFollows ==
  ASSUME NEW q \in Seq(Item), NEW f \in Nat, NEW l, NEW n \in 0 .. Len(q),
         Follows(q, f, l)
  PROVE  /\ SubSeq(q, n + 1, Len(q)) \in Seq(Item)
         /\ Len(SubSeq(q, n + 1, Len(q))) = Len(q) - n
         /\ Follows(SubSeq(q, n + 1, Len(q)), f + n, l)
<1> DEFINE s == SubSeq(q, n + 1, Len(q))
<1>1. Len(q) \in Nat /\ n \in Nat /\ n <= Len(q)  BY LenProperties
<1>2. \A i \in n + 1 .. Len(q) : q[i] \in Item
  BY <1>1, ElementOfSeq
<1>3. /\ s \in Seq(Item)
      /\ Len(s) = IF n + 1 <= Len(q) THEN Len(q) - (n + 1) + 1 ELSE 0
      /\ \A i \in 1 .. Len(q) - (n + 1) + 1 : s[i] = q[n + 1 + i - 1]
  <2>1. n + 1 \in Int /\ Len(q) \in Int  BY <1>1
  <2> HIDE DEF s
  <2> QED  BY <1>2, <2>1, SubSeqProperties DEF s
<1> HIDE DEF s
<1>4. Len(s) = Len(q) - n  BY <1>1, <1>3
<1>5. Follows(s, f + n, l)
  <2> SUFFICES ASSUME NEW i \in 1 .. Len(s)
               PROVE  s[i].tic = f + n + i - 1 /\ s[i].b = l[f + n + i]
    BY DEF Follows
  <2>1. s[i] = q[n + i] /\ n + i \in 1 .. Len(q)  BY <1>1, <1>3, <1>4
  <2>2. q[n + i].tic = f + (n + i) - 1 /\ q[n + i].b = l[f + (n + i)]
    BY <2>1 DEF Follows
  <2> QED  BY <2>1, <2>2, <1>1
<1> QED  BY <1>3, <1>4, <1>5 DEF s

\* The ring holds tic t, between the simulation and the frontier.
LEMMA WrittenAt ==
  ASSUME NEW r, NEW g \in Nat, NEW f \in Nat, NEW l, Written(r, g, f, l)
  PROVE  \A t \in Nat : g <= t /\ t < f => r[t % Ring] = l[t + 1]
<1> TAKE t \in Nat
<1> HAVE g <= t /\ t < f
<1>1. t \in g .. f - 1  OBVIOUS
<1> QED  BY <1>1 DEF Written

\* Less is asked of the ring as the simulation moves on.
LEMMA WrittenFewer ==
  ASSUME NEW r, NEW g \in Nat, NEW f \in Nat, NEW l, Written(r, g, f, l),
         NEW h \in Nat, g <= h
  PROVE  Written(r, h, f, l)
<1> SUFFICES ASSUME NEW t \in h .. f - 1 PROVE r[t % Ring] = l[t + 1]  BY DEF Written
<1>1. t \in Nat /\ g <= t /\ t < f  OBVIOUS
<1> QED  BY <1>1, WrittenAt

\* Nothing is asked of it when the simulation is at the frontier.
LEMMA WrittenNothing ==
  ASSUME NEW r, NEW g \in Nat, NEW l
  PROVE  Written(r, g, g, l)
  BY DEF Written

\* Putting the first n tics of a queue into a ring that has room for them
\* leaves the ring with the tics it held and these.
LEMMA PutWrites ==
  ASSUME NEW r, NEW q \in Seq(Item), NEW f \in Nat, NEW g \in Nat, NEW l,
         NEW n \in 0 .. Len(q), g <= f, f + n <= g + Ring,
         Follows(q, f, l), Written(r, g, f, l)
  PROVE  Written(Put(r, q, n), g, f + n, l)
<1>0. Len(q) \in Nat /\ Ring \in Nat /\ Ring > 0  BY LenProperties, Place
<1> SUFFICES ASSUME NEW t \in g .. f + n - 1
             PROVE  Put(r, q, n)[t % Ring] = l[t + 1]
  BY DEF Written
<1>1. \A j \in 1 .. n : q[j].tic = f + j - 1 /\ q[j].b = l[f + j]
  <2> TAKE j \in 1 .. n
  <2>1. j \in 1 .. Len(q)  BY <1>0
  <2> QED  BY <2>1 DEF Follows
<1>2. CASE t < f
  <2>1. \A k \in 1 .. n : q[k].tic % Ring # t % Ring
    <3> TAKE k \in 1 .. n
    <3>1. q[k].tic \in Nat /\ t \in Nat /\ t < q[k].tic /\ q[k].tic - t < Ring
      BY <1>0, <1>1, <1>2
    <3> QED  BY <1>0, <3>1, ModDistinct
  <2>2. t % Ring \in 0 .. Ring - 1  BY Place
  <2>3. Put(r, q, n)[t % Ring] = r[t % Ring]  BY <2>1, <2>2, PutOther
  <2>4. t \in g .. f - 1  BY <1>2
  <2> QED  BY <2>3, <2>4 DEF Written
<1>3. CASE t >= f
  <2> DEFINE j == t - f + 1
  <2>1. j \in 1 .. n  BY <1>0, <1>3
  <2>2. q[j].tic = t /\ q[j].b = l[t + 1]
    <3>1. f + j - 1 = t /\ f + j = t + 1  OBVIOUS
    <3> QED  BY <1>1, <2>1, <3>1
  <2>3. \A k \in j + 1 .. n : q[k].tic % Ring # q[j].tic % Ring
    <3> TAKE k \in j + 1 .. n
    <3>1. k \in 1 .. n  BY <2>1
    <3>2. q[k].tic = f + k - 1  BY <1>1, <3>1
    <3>3. q[k].tic \in Nat /\ t \in Nat /\ t < q[k].tic /\ q[k].tic - t < Ring
      BY <1>0, <1>3, <3>1, <3>2
    <3> QED  BY <1>0, <2>2, <3>3, ModDistinct
  <2> HIDE DEF j
  <2> QED  BY <2>1, <2>2, <2>3, PutLast
<1> QED  BY <1>2, <1>3

\* The lesser of two integers.
LEMMA MinOfTwo ==
  ASSUME NEW a \in Int, NEW b \in Int
  PROVE  Min({a, b}) \in {a, b} /\ Min({a, b}) <= a /\ Min({a, b}) <= b
<1>1. \E x \in {a, b} : \A y \in {a, b} : x <= y  OBVIOUS
<1> QED  BY <1>1 DEF Min

\* A frame runs no more tics than are sealed.
LEMMA CountsBounds ==
  ASSUME gametic \in Nat, NEW low \in Nat, gametic <= low, NEW realtics \in Nat
  PROVE  Counts(low, realtics) \in Nat /\ gametic + Counts(low, realtics) <= low
<1> DEFINE margin == low - gametic
           cap == IF margin > 2 * inputdelay THEN realtics + 1 ELSE realtics
           S == {margin - inputdelay, cap, margin}
<1>1. inputdelay \in Int
  <2>1. Lead \in Int  BY ClientAssumption DEF Lead
  <2> QED  BY <2>1, ClientAssumption DEF inputdelay
<1>2. margin \in Nat /\ cap \in Int /\ margin - inputdelay \in Int  BY <1>1
<1>3. Min(S) \in Int /\ Min(S) <= margin
  <2>1. \E x \in S : \A y \in S : x <= y
    <3> HIDE DEF margin, cap
    <3> QED  BY <1>1, <1>2
  <2>2. S \subseteq Int /\ margin \in S  BY <1>2
  <2> HIDE DEF S
  <2> QED  BY <2>1, <2>2 DEF Min
<1>4. Max({0, Min(S)}) \in 0 .. margin
  <2> HIDE DEF S
  <2>1. \E x \in {0, Min(S)} : \A y \in {0, Min(S)} : x >= y  BY <1>3
  <2> QED  BY <1>2, <1>3, <2>1 DEF Max
<1>5. Counts(low, realtics) = Max({0, Min(S)})  BY DEF Counts
<1> HIDE DEF S
<1>6. Max({0, Min(S)}) \in Nat /\ gametic + Max({0, Min(S)}) <= low  BY <1>2, <1>4
<1> QED  BY <1>5, <1>6

\* A function on 1 .. n is a sequence of length n.
LEMMA TypedSeq ==
  ASSUME NEW S, NEW n \in Nat, NEW e \in [1 .. n -> S]
  PROVE  e \in Seq(S) /\ Len(e) = n
<1>1. e \in Seq(S)  BY SeqDef
<1>2. Len(e) \in Nat /\ DOMAIN e = 1 .. Len(e)  BY <1>1, LenProperties
<1>3. DOMAIN e = 1 .. n  OBVIOUS
<1> QED  BY <1>1, <1>2, <1>3

\* Running the log's next n bundles keeps the run a prefix of it.
LEMMA RunPrefix ==
  ASSUME NEW w \in Seq(Bundles), NEW l \in Seq(Bundles), Prefix(w, l),
         NEW n \in Nat, Len(w) + n <= Len(l),
         NEW e \in [1 .. n -> Bundles], \A i \in 1 .. n : e[i] = l[Len(w) + i]
  PROVE  /\ w \o e \in Seq(Bundles)
         /\ Len(w \o e) = Len(w) + n
         /\ Prefix(w \o e, l)
<1>1. e \in Seq(Bundles)  BY TypedSeq
<1>2. Len(w) \in Nat /\ Len(l) \in Nat  BY LenProperties
<1>3. Len(e) = n  BY TypedSeq
<1>4. /\ w \o e \in Seq(Bundles)
      /\ Len(w \o e) = Len(w) + n
      /\ \A i \in 1 .. Len(w) + n : (w \o e)[i] = IF i <= Len(w) THEN w[i] ELSE e[i - Len(w)]
  BY <1>1, <1>3, ConcatProperties
<1>5. \A i \in 1 .. Len(w) + n : (w \o e)[i] = l[i]
  <2> TAKE i \in 1 .. Len(w) + n
  <2>1. CASE i <= Len(w)  BY <1>2, <1>4, <2>1 DEF Prefix
  <2>2. CASE i > Len(w)
    <3>1. i - Len(w) \in 1 .. n /\ Len(w) + (i - Len(w)) = i  BY <1>2, <2>2
    <3>2. (w \o e)[i] = e[i - Len(w)]  BY <1>2, <1>4, <2>2
    <3>3. e[i - Len(w)] = l[Len(w) + (i - Len(w))]  BY <3>1
    <3> QED  BY <3>1, <3>2, <3>3
  <2> QED  BY <1>2, <2>1, <2>2
<1> QED  BY <1>4, <1>5 DEF Prefix

\* A prefix, as RanIsLog and TicLog write it.
LEMMA PrefixIsSubSeq ==
  ASSUME NEW w \in Seq(Bundles), NEW l \in Seq(Bundles), Prefix(w, l)
  PROVE  w = SubSeq(l, 1, Len(w))
<1> DEFINE s == SubSeq(l, 1, Len(w))
<1>1. Len(w) \in Nat /\ Len(l) \in Nat /\ Len(w) <= Len(l)  BY LenProperties DEF Prefix
<1>2. \A i \in 1 .. Len(w) : l[i] \in Bundles
  <2> TAKE i \in 1 .. Len(w)
  <2>1. i \in 1 .. Len(l)  BY <1>1
  <2> QED  BY <2>1, ElementOfSeq
<1>3. /\ s \in Seq(Bundles)
      /\ Len(s) = IF 1 <= Len(w) THEN Len(w) - 1 + 1 ELSE 0
      /\ \A i \in 1 .. Len(w) - 1 + 1 : s[i] = l[1 + i - 1]
  <2>1. 1 \in Int /\ Len(w) \in Int  BY <1>1
  <2> HIDE DEF s
  <2> QED  BY <1>2, <2>1, SubSeqProperties DEF s
<1> HIDE DEF s
<1>4. Len(s) = Len(w)  BY <1>1, <1>3
<1>5. \A i \in 1 .. Len(w) : w[i] = s[i]
  <2> TAKE i \in 1 .. Len(w)
  <2>1. 1 + i - 1 = i /\ Len(w) - 1 + 1 = Len(w)  BY <1>1
  <2>2. s[i] = l[i]  BY <1>3, <2>1
  <2> QED  BY <2>2 DEF Prefix
<1>6. w = s  BY <1>3, <1>4, <1>5, SeqEqual
<1> QED  BY <1>6 DEF s

-----------------------------------------------------------------------------
\* The initial states and the actions.

\* offer() moves the cut between the queue and the ring.
LEMMA OfferOK ==
  ASSUME Shapes, NEW q \in Seq(Item), Follows(q, nettic, log),
         gametic <= nettic, nettic <= gametic + Ring,
         Written(ring, gametic, nettic, log), Offer(q)
  PROVE  /\ queue' \in Seq(Item) /\ nettic' \in Nat
         /\ nettic' + Len(queue') = nettic + Len(q)
         /\ nettic <= nettic' /\ nettic' <= gametic + Ring
         /\ Follows(queue', nettic', log)
         /\ Written(ring', gametic, nettic', log)
<1> DEFINE n == Taken(q, gametic)
<1>1. gametic \in Nat /\ nettic \in Nat /\ Len(q) \in Nat
  BY LenProperties DEF Shapes, gametic
<1>2. \A i \in 1 .. Len(q) : q[i].tic = nettic + i - 1  BY DEF Follows
<1>3. n \in 0 .. Len(q) /\ nettic + n <= gametic + Ring  BY <1>1, <1>2, TakenIs
<1>4. /\ queue' = SubSeq(q, n + 1, Len(q))
      /\ ring' = Put(ring, q, n)
      /\ nettic' = IF n = 0 THEN nettic ELSE q[n].tic + 1
  BY DEF Offer
<1> HIDE DEF n
<1>5. nettic' = nettic + n
  <2>1. CASE n = 0  BY <1>1, <1>4, <2>1
  <2>2. CASE n # 0
    <3>1. n \in 1 .. Len(q)  BY <1>1, <1>3, <2>2
    <3> QED  BY <1>1, <1>2, <1>4, <2>2, <3>1
  <2> QED  BY <2>1, <2>2
<1>6. /\ queue' \in Seq(Item) /\ Len(queue') = Len(q) - n
      /\ Follows(queue', nettic', log)
  BY <1>1, <1>3, <1>4, <1>5, RestFollows
<1>7. Written(ring', gametic, nettic', log)  BY <1>1, <1>3, <1>4, <1>5, PutWrites
<1> QED  BY <1>1, <1>3, <1>5, <1>6, <1>7

\* Before anything is received, the four parts are empty.
LEMMA InitOK == Init => IInv
<1> SUFFICES ASSUME Init PROVE IInv  OBVIOUS
<1>1. Len(<<>>) = 0 /\ <<>> \in Seq(Bundles) /\ <<>> \in Seq(Item)  BY EmptySeq
<1>2. Shapes  BY <1>1 DEF Init, Shapes
<1> QED
  BY <1>1, <1>2, Place DEF Init, IInv, Received, Follows, Written, Prefix, gametic

\* A step that leaves the log, the cuts and the phase alone: a lost session, a stutter.
LEMMA SameOK ==
  ASSUME IInv, UNCHANGED <<log, next, queue, phase, ring, nettic, world>>
  PROVE  IInv'
  BY DEF IInv, Shapes, Received, Follows, Written, Prefix, gametic

\* The relay seals a tic: nothing before it changes.
LEMMA SealTicOK == IInv /\ SealTic => IInv'
<1> SUFFICES ASSUME IInv, SealTic PROVE IInv'  OBVIOUS
<1>1. PICK b \in Bundles : log' = Append(log, b)  BY DEF SealTic
<1>2. UNCHANGED <<next, queue, phase, ring, nettic, world>>
  BY DEF SealTic, pumpVars, engineVars
<1>3. /\ log' \in Seq(Bundles) /\ Len(log') = Len(log) + 1
      /\ \A i \in 1 .. Len(log) : log'[i] = log[i]
  BY <1>1, AppendProperties DEF IInv, Shapes
<1>4. /\ Len(log) \in Nat /\ Len(queue) \in Nat /\ gametic \in Nat /\ nettic \in Nat
      /\ nettic + Len(queue) <= Len(log)
  BY LenProperties DEF IInv, Shapes, gametic
<1>5. Shapes'  BY <1>2, <1>3 DEF IInv, Shapes
<1>6. Follows(queue', nettic', log')
  <2> SUFFICES ASSUME NEW i \in 1 .. Len(queue)
               PROVE  queue[i].tic = nettic + i - 1 /\ queue[i].b = log'[nettic + i]
    BY <1>2 DEF Follows
  <2>1. nettic + i \in 1 .. Len(log)  BY <1>4
  <2> QED  BY <1>3, <2>1 DEF IInv, Follows
<1>7. Written(ring', gametic', nettic', log')
  <2> SUFFICES ASSUME NEW t \in gametic .. nettic - 1
               PROVE  ring[t % Ring] = log'[t + 1]
    BY <1>2 DEF Written, gametic
  <2>1. t + 1 \in 1 .. Len(log)  BY <1>4
  <2> QED  BY <1>3, <2>1 DEF IInv, Written
<1>8. Prefix(world', log')
  <2>1. Len(world) <= Len(log) /\ Len(world) \in Nat  BY <1>4 DEF IInv, Prefix, gametic
  <2>2. \A i \in 1 .. Len(world) : world[i] = log'[i]
    BY <1>3, <1>4, <2>1 DEF IInv, Prefix
  <2> QED  BY <1>2, <1>3, <1>4, <2>1, <2>2 DEF Prefix
<1>9. Received' <= Len(log') /\ nettic' + Len(queue') = Received'
  BY <1>2, <1>3, <1>4 DEF IInv, Received
<1> QED  BY <1>2, <1>5, <1>6, <1>7, <1>8, <1>9 DEF IInv, gametic

\* The engine comes up with nothing received, run or queued.
LEMMA BootOK == IInv /\ Boot => IInv'
<1> SUFFICES ASSUME IInv, Boot PROVE IInv'  OBVIOUS
<1>1. phase = "boot" /\ UNCHANGED <<log, next, queue, ring, nettic, world>>
  BY DEF Boot, engineVars
<1>2. phase' \in {"catchup", "live"}  BY DEF Boot
<1> QED
  BY <1>1, <1>2 DEF IInv, Shapes, Received, Follows, Written, Prefix, gametic

\* A bundle is queued behind the others, and offered with them.
LEMMA ArriveOK == IInv /\ Arrive => IInv'
<1> SUFFICES ASSUME IInv, Arrive PROVE IInv'  OBVIOUS
<1> DEFINE tic == Received
           e == [tic |-> tic, b |-> log[tic + 1]]
           q == Append(queue, e)
<1>1. Up /\ tic < Len(log) /\ (Accept(tic) \/ Lose("behind"))  BY DEF Arrive, Received
<1>2. CASE Lose("behind")
  BY <1>2, SameOK DEF Lose, engineVars
<1>3. CASE Accept(tic)
  <2>1. /\ tic \in Nat /\ Len(log) \in Nat /\ Len(queue) \in Nat
        /\ nettic \in Nat /\ gametic \in Nat /\ nettic + Len(queue) = tic
    BY LenProperties DEF IInv, Shapes, Received, gametic
  <2>2. e \in Item
    <3>1. tic + 1 \in 1 .. Len(log)  BY <1>1, <2>1
    <3>2. log[tic + 1] \in Bundles  BY <3>1, ElementOfSeq DEF IInv, Shapes
    <3> QED  BY <2>1, <3>2 DEF Item
  <2>3. /\ q \in Seq(Item) /\ Len(q) = Len(queue) + 1
        /\ \A i \in 1 .. Len(queue) : q[i] = queue[i]
        /\ q[Len(queue) + 1] = e
    BY <2>2, AppendProperties DEF IInv, Shapes
  <2>4. /\ next' = tic + 1 /\ UNCHANGED <<log, phase, world>>
        /\ IF phase = "live" THEN Offer(q)
           ELSE queue' = q /\ UNCHANGED <<ring, nettic>>
    BY <1>3 DEF Accept
  <2>5. e.tic = tic /\ e.b = log[tic + 1]  OBVIOUS
  <2> HIDE DEF q, e
  <2>6. Follows(q, nettic, log)
    <3> SUFFICES ASSUME NEW i \in 1 .. Len(q)
                 PROVE  q[i].tic = nettic + i - 1 /\ q[i].b = log[nettic + i]
      BY DEF Follows
    <3>1. CASE i \in 1 .. Len(queue)  BY <2>3, <3>1 DEF IInv, Follows
    <3>2. CASE i = Len(queue) + 1
      <4>1. nettic + i - 1 = tic /\ nettic + i = tic + 1  BY <2>1, <3>2
      <4> QED  BY <2>3, <2>5, <3>2, <4>1
    <3> QED  BY <2>1, <2>3, <3>1, <3>2
  <2>7. Received' = tic + 1 /\ next' \in Int /\ next' >= -1
    BY <2>1, <2>4 DEF Received
  <2>8. phase # "boot"  BY <1>1 DEF Up
  <2>9. CASE phase = "live"
    <3>1. Offer(q)  BY <2>4, <2>9
    <3>2. /\ queue' \in Seq(Item) /\ nettic' \in Nat
          /\ nettic' + Len(queue') = nettic + Len(q)
          /\ nettic <= nettic' /\ nettic' <= gametic + Ring
          /\ Follows(queue', nettic', log)
          /\ Written(ring', gametic, nettic', log)
      BY <2>3, <2>6, <3>1, OfferOK DEF IInv
    <3>3. Shapes'  BY <2>4, <2>7, <3>2 DEF IInv, Shapes
    <3>4. gametic' = gametic  BY <2>4 DEF gametic
    <3>5. /\ Received' <= Len(log') /\ nettic' + Len(queue') = Received'
          /\ gametic' <= nettic' /\ nettic' <= gametic' + Ring
      <4>1. Received' <= Len(log')  BY <1>1, <2>1, <2>4, <2>7
      <4>2. nettic' + Len(queue') = Received'  BY <2>1, <2>3, <2>7, <3>2
      <4>3. gametic <= nettic /\ nettic \in Nat /\ gametic \in Nat  BY <2>1 DEF IInv
      <4>4. gametic' <= nettic' /\ nettic' <= gametic' + Ring
        BY <3>2, <3>4, <4>3
      <4> QED  BY <4>1, <4>2, <4>4
    <3> QED  BY <2>4, <2>9, <3>2, <3>3, <3>4, <3>5 DEF IInv
  <2>10. CASE phase # "live"
    <3>1. queue' = q /\ UNCHANGED <<ring, nettic>>  BY <2>4, <2>10
    <3>2. Shapes'  BY <2>3, <2>4, <2>7, <3>1 DEF IInv, Shapes
    <3>3. gametic' = gametic  BY <2>4 DEF gametic
    <3>4. Received' <= Len(log') /\ nettic' + Len(queue') = Received'
      BY <1>1, <2>1, <2>3, <2>4, <2>7, <3>1
    <3> QED  BY <2>4, <2>6, <2>8, <3>1, <3>2, <3>3, <3>4 DEF IInv
  <2> QED  BY <2>9, <2>10
<1> QED  BY <1>1, <1>2, <1>3

\* A repeated tic is dropped; what waits in the queue is offered all the same.
LEMMA MisorderOK == IInv /\ Misorder => IInv'
<1> SUFFICES ASSUME IInv, Misorder PROVE IInv'  OBVIOUS
<1>1. \/ Lose("skipped")
      \/ UNCHANGED <<log, next, phase, queue, ring, nettic, world>>
      \/ phase = "live" /\ Offer(queue) /\ UNCHANGED <<log, next, phase, world>>
  BY DEF Misorder
<1>2. CASE Lose("skipped")  BY <1>2, SameOK DEF Lose, engineVars
<1>3. CASE UNCHANGED <<log, next, phase, queue, ring, nettic, world>>  BY <1>3, SameOK
<1>4. CASE phase = "live" /\ Offer(queue) /\ UNCHANGED <<log, next, phase, world>>
  <2>1. /\ queue' \in Seq(Item) /\ nettic' \in Nat
        /\ nettic' + Len(queue') = nettic + Len(queue)
        /\ nettic <= nettic' /\ nettic' <= gametic + Ring
        /\ Follows(queue', nettic', log)
        /\ Written(ring', gametic, nettic', log)
    BY <1>4, OfferOK DEF IInv, Shapes
  <2>2. Shapes'  BY <1>4, <2>1 DEF IInv, Shapes
  <2>3. gametic' = gametic /\ gametic \in Nat /\ nettic \in Nat
    BY <1>4, LenProperties DEF IInv, Shapes, gametic
  <2>4. Received' = Received  BY <1>4 DEF Received
  <2>5. gametic' <= nettic'  BY <2>1, <2>3 DEF IInv
  <2> QED  BY <1>4, <2>1, <2>2, <2>3, <2>4, <2>5 DEF IInv
<1> QED  BY <1>1, <1>2, <1>3, <1>4

\* catchUp runs what it takes: each bundle is run before the next is put.
LEMMA TurnOK == IInv /\ Turn => IInv' /\ gametic <= gametic' /\ log' = log
<1> SUFFICES ASSUME IInv, Turn PROVE IInv' /\ gametic <= gametic' /\ log' = log
  OBVIOUS
<1> DEFINE n == Min({Chunk, Len(queue)})
           e == [i \in 1 .. n |-> Put(ring, queue, i)[(gametic + i - 1) % Ring]]
<1>1. /\ phase = "catchup"
      /\ nettic' = IF n = 0 THEN nettic ELSE queue[n].tic + 1
      /\ world' = world \o e
      /\ queue' = SubSeq(queue, n + 1, Len(queue))
      /\ UNCHANGED <<log, next>>
      /\ phase' \in {"catchup", "live"}
  BY DEF Turn
<1>2. /\ gametic \in Nat /\ nettic \in Nat /\ Len(queue) \in Nat /\ Len(log) \in Nat
      /\ gametic = nettic /\ nettic + Len(queue) = Received /\ Received <= Len(log)
  BY <1>1, LenProperties DEF IInv, Shapes, gametic
<1>3. n \in 0 .. Len(queue)
  <2>1. Chunk \in Nat  BY ClientAssumption
  <2>2. Chunk \in Int /\ Len(queue) \in Int  BY <1>2, <2>1
  <2>3. n \in {Chunk, Len(queue)} /\ n <= Len(queue)  BY <2>2, MinOfTwo, Zenon
  <2> HIDE DEF n
  <2> QED  BY <1>2, <2>1, <2>3
<1>4. \A i \in 1 .. Len(queue) : queue[i].tic = nettic + i - 1 /\ queue[i].b = log[nettic + i]
  BY DEF IInv, Follows
<1>5. queue \in Seq(Item) /\ log \in Seq(Bundles) /\ world \in Seq(Bundles)
  BY DEF IInv, Shapes
<1> HIDE DEF n
<1>6. \A i \in 1 .. n : Put(ring, queue, i)[(gametic + i - 1) % Ring] = log[gametic + i]
  <2> TAKE i \in 1 .. n
  <2>1. i \in 1 .. Len(queue) /\ i \in 0 .. Len(queue) /\ i \in 1 .. i  BY <1>2, <1>3
  <2>2. queue[i].tic = gametic + i - 1 /\ queue[i].b = log[gametic + i]
    BY <1>2, <1>4, <2>1
  <2>3. \A k \in i + 1 .. i : queue[k].tic % Ring # queue[i].tic % Ring  BY <2>1
  <2>4. Put(ring, queue, i)[queue[i].tic % Ring] = queue[i].b
    BY <1>5, <2>1, <2>3, PutLast
  <2> QED  BY <2>2, <2>4
<1>7. \A i \in 1 .. n : e[i] = log[Len(world) + i]  BY <1>6 DEF gametic
<1>8. e \in [1 .. n -> Bundles]
  <2>1. \A i \in 1 .. n : log[gametic + i] \in Bundles
    <3> TAKE i \in 1 .. n
    <3>1. gametic + i \in 1 .. Len(log)  BY <1>2, <1>3
    <3> QED  BY <1>5, <3>1, ElementOfSeq
  <2> QED  BY <1>6, <2>1
<1> HIDE DEF e
<1>9. world' \in Seq(Bundles) /\ Len(world') = Len(world) + n /\ Prefix(world', log)
  <2>1. n \in Nat /\ Len(world) + n <= Len(log)  BY <1>2, <1>3 DEF gametic
  <2>2. Prefix(world, log)  BY DEF IInv
  <2> QED  BY <1>1, <1>5, <1>7, <1>8, <2>1, <2>2, RunPrefix
<1>10. nettic' = nettic + n /\ gametic' = gametic + n
  <2>1. CASE n = 0  BY <1>1, <1>2, <1>9, <2>1 DEF gametic
  <2>2. CASE n # 0
    <3>1. n \in 1 .. Len(queue)  BY <1>2, <1>3, <2>2
    <3>2. queue[n].tic = nettic + n - 1  BY <1>4, <3>1
    <3> QED  BY <1>1, <1>2, <1>3, <1>9, <2>2, <3>2 DEF gametic
  <2> QED  BY <2>1, <2>2
<1>11. /\ queue' \in Seq(Item) /\ Len(queue') = Len(queue) - n
       /\ Follows(queue', nettic', log)
  <2>1. Follows(queue, nettic, log)  BY DEF IInv
  <2> QED  BY <1>1, <1>2, <1>3, <1>5, <1>10, <2>1, RestFollows
<1>12. Shapes'
  <2>1. nettic' \in Nat  BY <1>2, <1>3, <1>10
  <2>2. next' \in Int /\ next' >= -1  BY <1>1 DEF IInv, Shapes
  <2> QED  BY <1>1, <1>5, <1>9, <1>11, <2>1, <2>2 DEF Shapes
<1>13. gametic' = nettic' /\ gametic' \in Nat /\ nettic' <= gametic' + Ring
  BY <1>2, <1>3, <1>10, Place
<1>14. Written(ring', gametic', nettic', log')
  <2>1. Written(ring', gametic', gametic', log')  BY <1>13, WrittenNothing
  <2> QED  BY <1>13, <2>1
<1>15. Received' <= Len(log') /\ nettic' + Len(queue') = Received'
  <2>1. Received' = Received /\ log' = log  BY <1>1 DEF Received
  <2>2. nettic' + Len(queue') = nettic + Len(queue)  BY <1>2, <1>3, <1>10, <1>11
  <2> QED  BY <1>2, <2>1, <2>2
<1>16. IInv'  BY <1>1, <1>9, <1>11, <1>12, <1>13, <1>14, <1>15 DEF IInv
<1> QED  BY <1>1, <1>2, <1>3, <1>10, <1>16

\* A frame offers what waits and runs tics that are sealed and in the ring.
LEMMA FrameOK ==
  ASSUME NEW r \in Elapsed, IInv, Frame(r)
  PROVE  IInv' /\ gametic <= gametic' /\ log' = log
<1> DEFINE n == Counts(nettic', r)
           e == [i \in 1 .. n |-> ring'[(gametic + i - 1) % Ring]]
<1>1. /\ phase = "live" /\ Offer(queue) /\ world' = world \o e
      /\ UNCHANGED <<log, next, phase>>
  BY DEF Frame, OfferWaiting
<1>2. /\ gametic \in Nat /\ nettic \in Nat /\ Len(queue) \in Nat /\ Len(log) \in Nat
      /\ gametic <= nettic /\ nettic + Len(queue) = Received /\ Received <= Len(log)
  BY LenProperties DEF IInv, Shapes, gametic
<1>3. /\ queue' \in Seq(Item) /\ nettic' \in Nat
      /\ nettic' + Len(queue') = nettic + Len(queue)
      /\ nettic <= nettic' /\ nettic' <= gametic + Ring
      /\ Follows(queue', nettic', log)
      /\ Written(ring', gametic, nettic', log)
  BY <1>1, OfferOK DEF IInv, Shapes
<1>4. /\ Len(queue') \in Nat /\ nettic' \in Nat /\ Ring \in Nat
      /\ gametic <= nettic' /\ nettic' <= Len(log) /\ nettic' <= gametic + Ring
  <2>1. Len(queue') \in Nat  BY <1>3, LenProperties
  <2>2. nettic' \in Nat /\ nettic <= nettic' /\ nettic' + Len(queue') = Received
    BY <1>2, <1>3
  <2>3. gametic <= nettic' /\ nettic' <= Len(log)  BY <1>2, <2>1, <2>2
  <2> QED  BY <1>3, <2>1, <2>3, Place
<1>5. n \in Nat /\ gametic + n <= nettic'
  <2>1. r \in Nat  BY ClientAssumption
  <2>2. gametic \in Nat /\ nettic' \in Nat /\ gametic <= nettic'  BY <1>2, <1>4
  <2> HIDE DEF e
  <2> QED  BY <2>1, <2>2, CountsBounds
<1>6. log \in Seq(Bundles) /\ world \in Seq(Bundles) /\ Prefix(world, log)
  BY DEF IInv, Shapes
<1> HIDE DEF n
<1>7. \A i \in 1 .. n : ring'[(gametic + i - 1) % Ring] = log[gametic + i]
  <2> TAKE i \in 1 .. n
  <2>1. gametic + i - 1 \in Nat /\ gametic <= gametic + i - 1 /\ gametic + i - 1 < nettic'
    BY <1>2, <1>4, <1>5
  <2>2. \A t \in Nat : gametic <= t /\ t < nettic' => ring'[t % Ring] = log[t + 1]
    <3>1. Written(ring', gametic, nettic', log)  BY <1>3
    <3>2. gametic \in Nat /\ nettic' \in Nat  BY <1>2, <1>4
    <3> HIDE DEF e
    <3> QED  BY <3>1, <3>2, WrittenAt
  <2>3. gametic + i - 1 + 1 = gametic + i  BY <1>2
  <2> QED  BY <2>1, <2>2, <2>3
<1>8. \A i \in 1 .. n : e[i] = log[Len(world) + i]  BY <1>7 DEF gametic
<1>9. e \in [1 .. n -> Bundles]
  <2>1. \A i \in 1 .. n : log[gametic + i] \in Bundles
    <3> TAKE i \in 1 .. n
    <3>1. gametic + i \in 1 .. Len(log)  BY <1>2, <1>4, <1>5
    <3> QED  BY <1>6, <3>1, ElementOfSeq
  <2> QED  BY <1>7, <2>1
<1> HIDE DEF e
<1>10. world' \in Seq(Bundles) /\ Len(world') = Len(world) + n /\ Prefix(world', log)
  <2>1. n \in Nat /\ Len(world) + n <= Len(log)
    BY <1>2, <1>4, <1>5 DEF gametic
  <2> QED  BY <1>1, <1>6, <1>8, <1>9, <2>1, RunPrefix
<1>11. gametic' = gametic + n  BY <1>10 DEF gametic
<1>12. Shapes'  BY <1>1, <1>3, <1>6, <1>10 DEF IInv, Shapes
<1>13. gametic' <= nettic' /\ nettic' <= gametic' + Ring
  BY <1>2, <1>4, <1>5, <1>11
<1>14. Written(ring', gametic', nettic', log')
  <2>1. gametic' \in Nat /\ gametic <= gametic'  BY <1>2, <1>5, <1>11
  <2>2. Written(ring', gametic', nettic', log)  BY <1>2, <1>3, <1>4, <2>1, WrittenFewer
  <2> QED  BY <1>1, <2>2
<1>15. Received' <= Len(log') /\ nettic' + Len(queue') = Received'
  BY <1>1, <1>2, <1>3 DEF Received
<1>16. IInv'  BY <1>1, <1>3, <1>10, <1>12, <1>13, <1>14, <1>15 DEF IInv
<1> QED  BY <1>1, <1>2, <1>5, <1>11, <1>16

-----------------------------------------------------------------------------
\* Every step keeps the invariant, and seals a tic or moves the run onward.
LEMMA NextOK ==
  ASSUME IInv, [Next]_vars
  PROVE  /\ IInv'
         /\ \/ UNCHANGED world /\ \E b \in Bundles : log' = Append(log, b)
            \/ log' = log /\ gametic <= gametic'
<1>0. gametic \in Nat  BY LenProperties DEF IInv, Shapes, gametic
<1>1. CASE SealTic
  BY <1>1, SealTicOK DEF SealTic, engineVars
<1>2. CASE Boot
  BY <1>0, <1>2, BootOK DEF Boot, engineVars, gametic
<1>3. CASE Arrive
  BY <1>0, <1>3, ArriveOK DEF Arrive, Accept, Lose, engineVars, gametic
<1>4. CASE Misorder
  BY <1>0, <1>4, MisorderOK DEF Misorder, Lose, engineVars, gametic
<1>5. CASE Disconnect
  BY <1>0, <1>5, SameOK DEF Disconnect, Lose, engineVars, gametic
<1>6. CASE Turn  BY <1>6, TurnOK
<1>7. CASE StallOut
  BY <1>0, <1>7, SameOK DEF StallOut, Lose, engineVars, gametic
<1>8. CASE \E r \in Elapsed : Frame(r)  BY <1>8, FrameOK
<1>9. CASE UNCHANGED vars  BY <1>0, <1>9, SameOK DEF vars, gametic
<1> QED  BY <1>1, <1>2, <1>3, <1>4, <1>5, <1>6, <1>7, <1>8, <1>9 DEF Next

\* The invariant holds in every reachable state.
THEOREM Invariance == Spec => []IInv
<1>1. Init => IInv  BY InitOK
<1>2. IInv /\ [Next]_vars => IInv'  BY NextOK
<1> QED  BY <1>1, <1>2, PTL DEF Spec

\* The simulation has run exactly the log's first tics (web_net_bundle and
\* TryRunTics of d_net.c, the catch-up of net.js).
THEOREM RunIsTheLog == Spec => []RanIsLog
<1>1. IInv => RanIsLog
  BY PrefixIsSubSeq DEF IInv, Shapes, RanIsLog, Prefix, gametic
<1> QED  BY <1>1, Invariance, PTL

\* Every tic received is run, in the ring or queued, in order (accept, offer
\* and catchUp of net.js).
THEOREM NothingIsLost == Spec => []NothingLost
<1>1. IInv => NothingLost
  <2> SUFFICES ASSUME IInv PROVE NothingLost  OBVIOUS
  <2>1. gametic \in Nat /\ nettic \in Nat /\ Ring \in Nat
    BY LenProperties, Place DEF IInv, Shapes, gametic
  <2>2. nettic - gametic <= Ring  BY <2>1 DEF IInv
  <2> QED  BY <2>2 DEF IInv, NothingLost, Received, Follows
<1> QED  BY <1>1, Invariance, PTL

\* Lockstep: a client is a replica of the relay's log; each of its steps seals
\* a tic, runs tics of the log that follow those it ran, or changes neither.
THEOREM Refinement == Spec => IsReplica
<1>1. Init => TicLog!Init  BY DEF Init, TicLog!Init
<1>2. IInv /\ [Next]_vars => [TicLog!Next]_(TicLog!vars)
  <2> SUFFICES ASSUME IInv, [Next]_vars PROVE [TicLog!Next]_(TicLog!vars)  OBVIOUS
  <2>1. IInv'  BY NextOK
  <2>2. CASE UNCHANGED world /\ \E b \in Bundles : log' = Append(log, b)
    BY <2>2 DEF TicLog!Next, TicLog!Seal
  <2>3. CASE log' = log /\ gametic <= gametic'
    <3>1. /\ world' \in Seq(Bundles) /\ log' \in Seq(Bundles) /\ Prefix(world', log')
          /\ world \in Seq(Bundles) /\ log \in Seq(Bundles) /\ Prefix(world, log)
      BY <2>1 DEF IInv, Shapes
    <3>2. /\ Len(world) \in Nat /\ Len(world') \in Nat /\ Len(log) \in Nat
          /\ Len(world) <= Len(world') /\ Len(world') <= Len(log)
      BY <2>3, <3>1, LenProperties DEF Prefix, gametic
    <3>3. world' = SubSeq(log, 1, Len(world')) /\ world = SubSeq(log, 1, Len(world))
      BY <2>3, <3>1, PrefixIsSubSeq
    <3>4. CASE Len(world') = Len(world)
      BY <2>3, <3>3, <3>4 DEF TicLog!vars
    <3>5. CASE Len(world') # Len(world)
      <4> DEFINE run == [s \in {1} |-> world]
      <4>1. Len(world') \in Len(run[1]) + 1 .. Len(log)  BY <3>2, <3>5
      <4>2. [s \in {1} |-> world'] = [run EXCEPT ![1] = SubSeq(log, 1, Len(world'))]
        BY <3>3
      <4>3. TicLog!Run(1)  BY <2>3, <4>1, <4>2 DEF TicLog!Run
      <4> QED  BY <4>3 DEF TicLog!Next
    <3> QED  BY <3>4, <3>5
  <2> QED  BY <2>2, <2>3, NextOK
<1> QED  BY <1>1, <1>2, Invariance, PTL DEF Spec, IsReplica, TicLog!Spec

-----------------------------------------------------------------------------
(* The clock: the cmds a frame builds.                                     *)

\* The least element of a set of naturals.
LEMMA LeastNat ==
  ASSUME NEW T \in SUBSET Nat, T # {}
  PROVE  \E m \in T : \A n \in T : m <= n
<1> DEFINE R == {ss \in Nat \X Nat : ss[1] < ss[2]}
<1>1. IsWellFoundedOn(R, Nat)
  BY NatLessThanWellFounded, Zenon DEF OpToRel
<1>2. PICK m \in T : \A n \in T : ~ (<<n, m>> \in R)
  <2> HIDE DEF R
  <2> QED  BY <1>1, WFMin
<1>3. ASSUME NEW n \in T, n < m  PROVE FALSE
  <2>1. <<n, m>> \in Nat \X Nat /\ <<n, m>>[1] < <<n, m>>[2]  BY <1>3
  <2>2. <<n, m>> \in R  BY <2>1, Zenon
  <2> QED  BY <1>2, <1>3, <2>2
<1>4. \A n \in T : m <= n  BY <1>3
<1> QED  BY <1>4

\* NetUpdate builds from where it stood, or from the simulation after a freeze,
\* up to no more than the lead past the simulation.
LEMMA BuiltBounds ==
  ASSUME NEW mk \in Nat, NEW g \in Nat, NEW n \in Nat
  PROVE  /\ From(mk, g, n) \in Nat /\ mk <= From(mk, g, n)
         /\ Built(mk, g, n) \in Nat /\ From(mk, g, n) <= Built(mk, g, n)
         /\ \A t \in From(mk, g, n) .. Built(mk, g, n) - 1 : t \in Nat /\ g <= t /\ t < g + Lead
<1> DEFINE from == From(mk, g, n)
           to == from + (IF n > Stall THEN 1 ELSE n)
           top == g + Lead
<1>1. from \in Nat /\ mk <= from /\ (n > 0 => g <= from)  BY DEF From
<1>2. Lead \in Int /\ top \in Int /\ to \in Int /\ (n = 0 => to = from)
  <2>1. Lead \in Int  BY ClientAssumption DEF Lead
  <2>2. Stall \in Nat \ {0}  BY ClientAssumption
  <2> HIDE DEF from
  <2> QED  BY <1>1, <2>1, <2>2
<1> HIDE DEF from, to, top
<1>3. Min({to, top}) \in {to, top} /\ Min({to, top}) <= to /\ Min({to, top}) <= top
  BY <1>2, MinOfTwo
<1> DEFINE least == Min({to, top})
<1>4. least \in Int /\ least <= to /\ least <= top  BY <1>2, <1>3
<1> HIDE DEF least
<1>5. Max({from, least}) \in {from, least} /\ from <= Max({from, least})
  <2>1. \E x \in {from, least} : \A y \in {from, least} : x >= y  BY <1>1, <1>4
  <2>2. Max({from, least}) \in {from, least} /\ Max({from, least}) >= from
    BY <2>1 DEF Max
  <2> QED  BY <1>1, <1>4, <2>2
<1>6. Built(mk, g, n) = Max({from, least})  BY DEF Built, from, to, top, least
<1> DEFINE high == Max({from, least})
<1>7. high \in {from, least} /\ from <= high  BY <1>5
<1>8. Built(mk, g, n) = high  BY <1>6
<1> HIDE DEF high
<1>9. high \in Nat  BY <1>1, <1>4, <1>7
<1>10. ASSUME NEW t \in from .. high - 1  PROVE t \in Nat /\ g <= t /\ t < g + Lead
  <2>1. t \in Nat /\ from <= t /\ t < high  BY <1>1, <1>9, <1>10
  <2>2. high = least  BY <1>1, <1>7, <2>1
  <2>3. n > 0
    <3>1. CASE n = 0  BY <1>1, <1>2, <1>4, <2>1, <2>2, <3>1
    <3> QED  BY <3>1
  <2>4. t < top  BY <1>2, <1>4, <2>1, <2>2
  <2> QED  BY <1>1, <2>1, <2>3, <2>4 DEF top
<1>11. from = From(mk, g, n)  BY DEF from
<1> QED  BY <1>1, <1>7, <1>8, <1>9, <1>10, <1>11

\* The marks a frame's clock goes through: f[i] is maketic after i tics.
Marks(f, c, m, g, new, more) ==
  f = [i \in 0 .. c |-> IF i = 0 THEN Built(m, g, new) ELSE Built(f[i - 1], g + i, more[i])]

\* There are such marks: each is made from the one before.
LEMMA MarksExist ==
  ASSUME NEW c \in Nat, NEW m, NEW g, NEW new, NEW more
  PROVE  \E f : Marks(f, c, m, g, new, more)
<1> DEFINE None(k) == \A f : ~ Marks(f, k, m, g, new, more)
           T == {k \in Nat : None(k)}
<1> SUFFICES ASSUME T # {} PROVE FALSE
  <2>1. c \notin T => ~ None(c)  OBVIOUS
  <2> QED  BY <2>1
<1>1. PICK k \in T : \A n \in T : k <= n
  <2>1. T \in SUBSET Nat  OBVIOUS
  <2> HIDE DEF T
  <2> QED  BY <2>1, LeastNat
<1>2. k \in Nat /\ None(k)  BY <1>1
<1>3. CASE k = 0
  <2> DEFINE f == [i \in 0 .. 0 |-> Built(m, g, new)]
  <2>1. Marks(f, 0, m, g, new, more)
    <3>1. f = [i \in 0 .. 0 |-> IF i = 0 THEN Built(m, g, new) ELSE Built(f[i - 1], g + i, more[i])]
      OBVIOUS
    <3> HIDE DEF f
    <3> QED  BY <3>1 DEF Marks
  <2> HIDE DEF f
  <2> QED  BY <1>2, <1>3, <2>1
<1>4. CASE k # 0
  <2>1. k - 1 \in Nat /\ k - 1 < k  BY <1>2, <1>4
  <2>2. k - 1 \notin T  BY <1>1, <1>2, <2>1
  <2>3. PICK f : Marks(f, k - 1, m, g, new, more)
    <3>1. ~ None(k - 1)  BY <2>1, <2>2
    <3> QED  BY <3>1
  <2> DEFINE h == [i \in 0 .. k |->
                    IF i < k THEN f[i]
                    ELSE IF i = 0 THEN Built(m, g, new) ELSE Built(f[i - 1], g + i, more[i])]
             V(i) == IF i = 0 THEN Built(m, g, new) ELSE Built(h[i - 1], g + i, more[i])
  <2>4. \A i \in 0 .. k - 1 : f[i] = IF i = 0 THEN Built(m, g, new) ELSE Built(f[i - 1], g + i, more[i])
    BY <2>3 DEF Marks
  <2>5. \A i \in 0 .. k - 1 : h[i] = f[i]
    <3> TAKE i \in 0 .. k - 1
    <3>1. i \in 0 .. k /\ i < k  BY <1>2
    <3> QED  BY <3>1
  <2>6. \A i \in 0 .. k : h[i] = V(i)
    <3> TAKE i \in 0 .. k
    <3>1. CASE i = 0
      <4>1. 0 \in 0 .. k - 1  BY <2>1
      <4>2. h[0] = f[0] /\ f[0] = Built(m, g, new)  BY <2>4, <2>5, <4>1
      <4> QED  BY <3>1, <4>2
    <3>2. CASE i # 0 /\ i < k
      <4>1. i \in 0 .. k - 1 /\ i - 1 \in 0 .. k - 1  BY <1>2, <3>2
      <4>2. h[i] = f[i] /\ h[i - 1] = f[i - 1]  BY <2>5, <4>1
      <4>3. f[i] = Built(f[i - 1], g + i, more[i])  BY <2>4, <3>2, <4>1
      <4> HIDE DEF h
      <4> QED  BY <3>2, <4>2, <4>3
    <3>3. CASE i = k
      <4>1. i - 1 \in 0 .. k - 1 /\ i # 0 /\ ~ (i < k)  BY <1>2, <1>4, <3>3
      <4>2. h[i] = Built(f[i - 1], g + i, more[i])  BY <4>1
      <4>3. h[i - 1] = f[i - 1]  BY <2>5, <4>1
      <4> HIDE DEF h
      <4> QED  BY <4>1, <4>2, <4>3
    <3> QED  BY <1>2, <3>1, <3>2, <3>3
  <2>7. h = [i \in 0 .. k |-> h[i]]  OBVIOUS
  <2>8. Marks(h, k, m, g, new, more)
    <3> HIDE DEF h
    <3> QED  BY <2>6, <2>7 DEF Marks
  <2> HIDE DEF h
  <2> QED  BY <1>2, <2>8
<1> QED  BY <1>3, <1>4

\* The marks never fall below where they began.
LEMMA MarksRise ==
  ASSUME NEW c \in Nat, NEW m \in Nat, NEW g \in Nat, NEW new \in Nat, NEW more \in [1 .. c -> {0, 1}],
         NEW f, Marks(f, c, m, g, new, more)
  PROVE  \A i \in 0 .. c : f[i] \in Nat /\ m <= f[i]
<1> DEFINE T == {i \in 0 .. c : ~ (f[i] \in Nat /\ m <= f[i])}
<1> SUFFICES ASSUME T # {} PROVE FALSE  OBVIOUS
<1>1. PICK k \in T : \A n \in T : k <= n
  <2>1. T \in SUBSET Nat  OBVIOUS
  <2> HIDE DEF T
  <2> QED  BY <2>1, LeastNat
<1>2. k \in 0 .. c /\ ~ (f[k] \in Nat /\ m <= f[k])  BY <1>1
<1>3. f[k] = IF k = 0 THEN Built(m, g, new) ELSE Built(f[k - 1], g + k, more[k])
  BY <1>2 DEF Marks
<1>4. CASE k = 0
  <2>1. Built(m, g, new) \in Nat /\ m <= Built(m, g, new)
    <3>1. /\ From(m, g, new) \in Nat /\ m <= From(m, g, new)
          /\ Built(m, g, new) \in Nat /\ From(m, g, new) <= Built(m, g, new)
      BY BuiltBounds
    <3> QED  BY <3>1
  <2> QED  BY <1>2, <1>3, <1>4, <2>1
<1>5. CASE k # 0
  <2>1. k - 1 \in 0 .. c /\ ~ (k <= k - 1) /\ k \in 1 .. c /\ g + k \in Nat  BY <1>2, <1>5
  <2>2. k - 1 \notin T  BY <1>1, <2>1
  <2>3. f[k - 1] \in Nat /\ m <= f[k - 1]  BY <2>1, <2>2
  <2>4. more[k] \in Nat  BY <2>1
  <2>5. /\ From(f[k - 1], g + k, more[k]) \in Nat /\ f[k - 1] <= From(f[k - 1], g + k, more[k])
        /\ Built(f[k - 1], g + k, more[k]) \in Nat
        /\ From(f[k - 1], g + k, more[k]) <= Built(f[k - 1], g + k, more[k])
    BY <2>1, <2>3, <2>4, BuiltBounds
  <2>6. f[k] = Built(f[k - 1], g + k, more[k])  BY <1>3, <1>5
  <2> QED  BY <1>2, <2>3, <2>5, <2>6
<1> QED  BY <1>4, <1>5

\* A frame runs the tics due and builds cmds along its marks.
LEMMA FrameMarks ==
  ASSUME NEW r \in Elapsed, IInv, Frame(r)
  PROVE  \E c \in Nat, new \in Nat : \E more \in [1 .. c -> {0, 1}] : \E f :
           /\ Marks(f, c, maketic, gametic, new, more)
           /\ gametic' = gametic + c /\ maketic' = f[c]
           /\ built' = (From(maketic, gametic, new) .. f[0] - 1) \cup
                       UNION {From(f[i - 1], gametic + i, more[i]) .. f[i] - 1 : i \in 1 .. c}
<1> DEFINE c == Counts(nettic', r)
<1>1. c \in Nat /\ gametic \in Nat
  <2>1. gametic \in Nat /\ nettic \in Nat /\ gametic <= nettic /\ nettic <= gametic + Ring
    BY LenProperties DEF IInv, Shapes, gametic
  <2>2. nettic' \in Nat /\ nettic <= nettic'
    BY <2>1, OfferOK DEF Frame, OfferWaiting, IInv, Shapes
  <2>3. gametic <= nettic'  BY <2>1, <2>2
  <2>4. r \in Nat  BY ClientAssumption
  <2> QED  BY <2>1, <2>2, <2>3, <2>4, CountsBounds
<1>2. PICK new \in {n \in Elapsed : n <= r}, more \in [1 .. c -> {0, 1}] :
        LET mk[i \in 0 .. c] ==
              IF i = 0 THEN Built(maketic, gametic, new)
              ELSE Built(mk[i - 1], gametic + i, more[i])
        IN
        /\ world' = world \o [i \in 1 .. c |-> ring'[(gametic + i - 1) % Ring]]
        /\ maketic' = mk[c]
        /\ built' = (From(maketic, gametic, new) .. mk[0] - 1) \cup
                    UNION {From(mk[i - 1], gametic + i, more[i]) .. mk[i] - 1 : i \in 1 .. c}
  BY DEF Frame
<1> DEFINE mk[i \in 0 .. c] ==
             IF i = 0 THEN Built(maketic, gametic, new)
             ELSE Built(mk[i - 1], gametic + i, more[i])
<1>3. /\ world' = world \o [i \in 1 .. c |-> ring'[(gametic + i - 1) % Ring]]
      /\ maketic' = mk[c]
      /\ built' = (From(maketic, gametic, new) .. mk[0] - 1) \cup
                  UNION {From(mk[i - 1], gametic + i, more[i]) .. mk[i] - 1 : i \in 1 .. c}
  BY <1>2
<1>4. Marks(mk, c, maketic, gametic, new, more)
  <2> DEFINE P(h) == h = [i \in 0 .. c |-> IF i = 0 THEN Built(maketic, gametic, new)
                                           ELSE Built(h[i - 1], gametic + i, more[i])]
  <2>1. \E h : P(h)
    <3>1. \E h : Marks(h, c, maketic, gametic, new, more)  BY <1>1, MarksExist
    <3> QED  BY <3>1 DEF Marks
  <2>2. P(CHOOSE h : P(h))  BY <2>1, Zenon
  <2>3. P(mk)  BY <2>2, Zenon
  <2> QED  BY <2>3 DEF Marks
<1>5. gametic' = gametic + c
  <2> DEFINE S == Bundles \cup {ring'[j] : j \in Int}
             e == [i \in 1 .. c |-> ring'[(gametic + i - 1) % Ring]]
  <2>1. \A i \in 1 .. c : ring'[(gametic + i - 1) % Ring] \in S
    <3> TAKE i \in 1 .. c
    <3>1. gametic + i - 1 \in Nat  BY <1>1
    <3>2. (gametic + i - 1) % Ring \in Int  BY <3>1, Place
    <3> QED  BY <3>2
  <2>2. world \in Seq(Bundles)  BY DEF IInv, Shapes
  <2>3. world \in Seq(S)
    <3> HIDE DEF e
    <3>1. Bundles \subseteq S  OBVIOUS
    <3> HIDE DEF S
    <3> QED  BY <2>2, <3>1, SeqMonotonic
  <2>4. e \in [1 .. c -> S]
    <3> HIDE DEF S
    <3> QED  BY <2>1
  <2> HIDE DEF S, e, c
  <2>5. e \in Seq(S) /\ Len(e) = c
    <3>1. c \in Nat  BY <1>1
    <3> QED  BY <2>4, <3>1, TypedSeq
  <2>6. Len(world \o e) = Len(world) + c  BY <2>3, <2>5, ConcatProperties
  <2>7. world' = world \o e  BY <1>3 DEF e, c
  <2> QED  BY <2>6, <2>7 DEF gametic
<1>6. new \in Nat  BY ClientAssumption
<1> HIDE DEF mk, c
<1> USE <1>1, <1>6
<1> WITNESS c \in Nat, new \in Nat
<1> WITNESS more \in [1 .. c -> {0, 1}]
<1> WITNESS mk
<1> QED  BY <1>3, <1>4, <1>5

\* What a frame's clock does: it never falls, and cmds are built ahead of it, for
\* tics not run, within the lead.
Ahead(t) == t \in Nat /\ maketic <= t /\ gametic <= t /\ t < gametic' + Lead

LEMMA FrameBuilds ==
  ASSUME NEW r \in Elapsed, IInv, maketic \in Nat, Frame(r)
  PROVE  maketic' \in Nat /\ maketic <= maketic' /\ \A t \in built' : Ahead(t)
<1>1. gametic \in Nat  BY LenProperties DEF IInv, Shapes, gametic
<1>2. PICK c \in Nat, new \in Nat : \E more \in [1 .. c -> {0, 1}] : \E f :
        /\ Marks(f, c, maketic, gametic, new, more)
        /\ gametic' = gametic + c /\ maketic' = f[c]
        /\ built' = (From(maketic, gametic, new) .. f[0] - 1) \cup
                    UNION {From(f[i - 1], gametic + i, more[i]) .. f[i] - 1 : i \in 1 .. c}
  BY FrameMarks
<1>2a. PICK more \in [1 .. c -> {0, 1}] : \E f :
        /\ Marks(f, c, maketic, gametic, new, more)
        /\ gametic' = gametic + c /\ maketic' = f[c]
        /\ built' = (From(maketic, gametic, new) .. f[0] - 1) \cup
                    UNION {From(f[i - 1], gametic + i, more[i]) .. f[i] - 1 : i \in 1 .. c}
  BY <1>2
<1>3. PICK f :
        /\ Marks(f, c, maketic, gametic, new, more)
        /\ gametic' = gametic + c /\ maketic' = f[c]
        /\ built' = (From(maketic, gametic, new) .. f[0] - 1) \cup
                    UNION {From(f[i - 1], gametic + i, more[i]) .. f[i] - 1 : i \in 1 .. c}
  BY <1>2a
<1>4. \A i \in 0 .. c : f[i] \in Nat /\ maketic <= f[i]
  BY <1>1, <1>3, MarksRise
<1>5. maketic' \in Nat /\ maketic <= maketic'  BY <1>3, <1>4
<1>6. Lead \in Int  BY ClientAssumption DEF Lead
<1>7. ASSUME NEW t \in From(maketic, gametic, new) .. f[0] - 1  PROVE Ahead(t)
  <2>1. f[0] = Built(maketic, gametic, new)  BY <1>3 DEF Marks
  <2>2. /\ From(maketic, gametic, new) \in Nat /\ maketic <= From(maketic, gametic, new)
        /\ \A u \in From(maketic, gametic, new) .. Built(maketic, gametic, new) - 1 :
             u \in Nat /\ gametic <= u /\ u < gametic + Lead
    BY <1>1, BuiltBounds
  <2>3. t \in Nat /\ gametic <= t /\ t < gametic + Lead  BY <1>7, <2>1, <2>2
  <2>4. f[0] \in Nat  BY <1>4
  <2>5. From(maketic, gametic, new) <= t  BY <1>7, <2>2, <2>4
  <2> QED  BY <1>1, <1>3, <1>6, <2>2, <2>3, <2>5 DEF Ahead
<1>8. ASSUME NEW i \in 1 .. c, NEW t \in From(f[i - 1], gametic + i, more[i]) .. f[i] - 1
      PROVE  Ahead(t)
  <2> DEFINE b == f[i - 1]
             g == gametic + i
             from == From(b, g, more[i])
  <2>1. f[i] = Built(b, g, more[i])
    <3>1. i \in 0 .. c /\ i # 0  OBVIOUS
    <3> QED  BY <1>3, <3>1 DEF Marks
  <2>2. b \in Nat /\ maketic <= b /\ f[i] \in Nat
    <3>1. i - 1 \in 0 .. c /\ i \in 0 .. c  OBVIOUS
    <3> QED  BY <1>4, <3>1
  <2>3. g \in Nat /\ gametic <= g /\ g <= gametic + c  BY <1>1
  <2>4. more[i] \in Nat  OBVIOUS
  <2> HIDE DEF b, g
  <2>5. /\ from \in Nat /\ b <= from
        /\ \A u \in from .. Built(b, g, more[i]) - 1 : u \in Nat /\ g <= u /\ u < g + Lead
    BY <2>2, <2>3, <2>4, BuiltBounds
  <2>6. t \in from .. f[i] - 1  BY DEF b, g
  <2> HIDE DEF from
  <2>7. t \in Nat /\ g <= t /\ t < g + Lead  BY <2>1, <2>5, <2>6
  <2>8. from <= t  BY <2>2, <2>5, <2>6
  <2>9. maketic <= t  BY <2>2, <2>5, <2>7, <2>8
  <2>10. gametic <= t /\ t < gametic' + Lead
    <3>1. gametic <= t /\ t < gametic + c + Lead  BY <1>1, <1>6, <2>3, <2>7
    <3>2. gametic' = gametic + c  BY <1>3
    <3> QED  BY <3>1, <3>2
  <2> QED  BY <2>7, <2>9, <2>10 DEF Ahead
<1>9. \A t \in built' : Ahead(t)
  <2> SUFFICES ASSUME NEW t \in built'  PROVE Ahead(t)  OBVIOUS
  <2>1. \/ t \in From(maketic, gametic, new) .. f[0] - 1
        \/ \E i \in 1 .. c : t \in From(f[i - 1], gametic + i, more[i]) .. f[i] - 1
    BY <1>3
  <2> QED  BY <1>7, <1>8, <2>1
<1> QED  BY <1>5, <1>9

\* No cmd is built before a client is live, so that the end of a catch-up does not
\* turn the clock back.
Clocked == maketic \in Nat /\ (phase # "live" => maketic = 0)

LEMMA ClockStep ==
  ASSUME IInv, Clocked, [Next]_vars
  PROVE  /\ Clocked' /\ maketic <= maketic'
         /\ (\A t \in built' : Ahead(t)) \/ UNCHANGED vars
<1>1. gametic \in Nat /\ maketic \in Nat  BY LenProperties DEF IInv, Shapes, gametic, Clocked
<1>2. CASE \E r \in Elapsed : Frame(r)
  <2>1. PICK r \in Elapsed : Frame(r)  BY <1>2
  <2>2. maketic' \in Nat /\ maketic <= maketic' /\ \A t \in built' : Ahead(t)
    BY <1>1, <2>1, FrameBuilds
  <2>3. phase' = "live"  BY <2>1 DEF Frame
  <2> QED  BY <2>2, <2>3 DEF Clocked
<1>3. CASE Turn
  <2> DEFINE n == Min({Chunk, Len(queue)})
  <2>1. /\ phase = "catchup" /\ built' = {}
        /\ \/ phase' = "live" /\ maketic' = gametic + n
           \/ UNCHANGED <<phase, maketic>>
    BY <1>3 DEF Turn
  <2>2. n \in Nat
    <3>1. Chunk \in Nat /\ Len(queue) \in Nat  BY ClientAssumption, LenProperties DEF IInv, Shapes
    <3>2. n \in {Chunk, Len(queue)}  BY <3>1, MinOfTwo
    <3> QED  BY <3>1, <3>2
  <2>3. maketic = 0  BY <2>1 DEF Clocked
  <2> HIDE DEF n
  <2> QED  BY <1>1, <2>1, <2>2, <2>3 DEF Clocked
<1>4. CASE SealTic \/ Boot \/ Arrive \/ Misorder \/ Disconnect \/ StallOut
  <2>1. built' = {} /\ UNCHANGED maketic
    BY <1>4 DEF SealTic, Boot, Arrive, Accept, Misorder, Disconnect, StallOut, Lose, engineVars
  <2>2. phase' # "live" => phase # "live"
    BY <1>4 DEF SealTic, Boot, Arrive, Accept, Misorder, Disconnect, StallOut, Lose, pumpVars
  <2> QED  BY <1>1, <2>1, <2>2 DEF Clocked
<1>5. CASE UNCHANGED vars  BY <1>1, <1>5 DEF vars, pumpVars, engineVars, Clocked
<1> QED  BY <1>2, <1>3, <1>4, <1>5 DEF Next

\* Cmds are built once, ahead of the simulation, and within the lead (NetUpdate
\* and TryRunTics of d_net.c).
THEOREM CmdsStayFresh == Spec => CmdsAreFresh
<1>1. Init => Clocked  BY DEF Init, Clocked
<1>2. IInv /\ Clocked /\ [Next]_vars => Clocked'  BY ClockStep
<1>3. Spec => []Clocked  BY <1>1, <1>2, Invariance, PTL DEF Spec
<1>4. IInv /\ Clocked /\ [Next]_vars =>
        [/\ \A t \in built' : maketic <= t /\ gametic <= t /\ t < gametic' + Lead
         /\ maketic <= maketic']_vars
  <2> SUFFICES ASSUME IInv, Clocked, [Next]_vars
               PROVE  \/ /\ \A t \in built' : maketic <= t /\ gametic <= t /\ t < gametic' + Lead
                         /\ maketic <= maketic'
                      \/ UNCHANGED vars
    OBVIOUS
  <2> QED  BY ClockStep DEF Ahead
<1> QED  BY <1>3, <1>4, Invariance, PTL DEF Spec, CmdsAreFresh

-----------------------------------------------------------------------------
(* Types and bounds.                                                       *)

\* The engine takes some of the queue.
LEMMA TakenSome ==
  ASSUME NEW q \in Seq(Item), NEW g
  PROVE  Taken(q, g) \in 0 .. Len(q)
<1> DEFINE T == {i \in 1 .. Len(q) : HasRoom(q[i].tic, g)}
<1>1. Len(q) \in Nat  BY LenProperties
<1>2. IsFiniteSet(1 .. Len(q)) /\ Cardinality(1 .. Len(q)) = Len(q)  BY <1>1, FS_Interval
<1>3. T \subseteq 1 .. Len(q)  OBVIOUS
<1> HIDE DEF T
<1>4. IsFiniteSet(T) /\ Cardinality(T) <= Len(q) /\ Cardinality(T) \in Nat
  BY <1>2, <1>3, FS_Subset, FS_CardinalityType
<1>5. Taken(q, g) = Cardinality(T)  BY DEF Taken, T
<1> QED  BY <1>1, <1>4, <1>5

Held == [0 .. Ring - 1 -> Bundles \cup {Blank}]

\* What is put into the ring is bundles.
LEMMA PutTyped ==
  ASSUME NEW r \in Held, NEW q \in Seq(Item), NEW n \in 0 .. Len(q)
  PROVE  Put(r, q, n) \in Held
<1>1. ASSUME NEW i \in 0 .. Ring - 1, NEW T, T = {j \in 1 .. n : q[j].tic % Ring = i}, T # {}
      PROVE  q[Max(T)].b \in Bundles
  <2>0. Len(q) \in Nat /\ n \in Nat  BY LenProperties
  <2>1. T \subseteq 1 .. Len(q) /\ T \subseteq 0 .. n  BY <1>1, <2>0
  <2>2. \E x \in T : \A y \in T : x >= y
    <3> DEFINE D == {n - y : y \in T}
    <3>1. D \in SUBSET Nat /\ D # {}  BY <1>1, <2>0, <2>1
    <3> HIDE DEF D
    <3>2. PICK d \in D : \A e \in D : d <= e  BY <3>1, LeastNat
    <3>3. PICK x \in T : d = n - x  BY <3>2 DEF D
    <3>4. \A y \in T : x >= y
      <4> TAKE y \in T
      <4>1. n - y \in D  BY DEF D
      <4>2. n - x <= n - y  BY <3>2, <3>3, <4>1
      <4> QED  BY <2>0, <2>1, <4>2
    <3> QED  BY <3>4
  <2>3. Max(T) \in T  BY <2>2 DEF Max
  <2>4. q[Max(T)] \in Item  BY <2>1, <2>3, ElementOfSeq
  <2> QED  BY <2>4 DEF Item
<1>2. ASSUME NEW i \in 0 .. Ring - 1  PROVE Put(r, q, n)[i] \in Bundles \cup {Blank}
  <2> DEFINE T == {j \in 1 .. n : q[j].tic % Ring = i}
  <2>1. Put(r, q, n)[i] = IF T = {} THEN r[i] ELSE q[Max(T)].b  BY DEF Put
  <2>2. T # {} => q[Max(T)].b \in Bundles  BY <1>1
  <2>3. r[i] \in Bundles \cup {Blank}  BY DEF Held
  <2> HIDE DEF T
  <2> QED  BY <2>1, <2>2, <2>3
<1>3. Put(r, q, n) = [i \in 0 .. Ring - 1 |-> Put(r, q, n)[i]]  BY DEF Put
<1> QED  BY <1>2, <1>3 DEF Held

LEMMA OfferBounds ==
  ASSUME NEW q \in Seq(Item), ring \in Held, Offer(q)
  PROVE  ring' \in Held /\ Len(queue') <= Len(q)
<1> DEFINE n == Taken(q, gametic)
<1>1. ring' = Put(ring, q, n) /\ queue' = SubSeq(q, n + 1, Len(q))  BY DEF Offer
<1>2. n \in 0 .. Len(q) /\ Len(q) \in Nat  BY TakenSome, LenProperties
<1> HIDE DEF n
<1>3. ring' \in Held  BY <1>1, <1>2, PutTyped
<1>4. Len(queue') <= Len(q)  BY <1>1, <1>2, SubSeqProperties
<1> QED  BY <1>3, <1>4

Bounds ==
  /\ Len(log) <= MaxTic /\ Len(queue) <= Backlog
  /\ phase \in {"boot", "catchup", "live"} /\ frontier \in 0 .. MaxTic
  /\ lost \in {"no", "behind", "skipped", "closed", "stalled"}
  /\ ring \in Held /\ built \in SUBSET Nat

LEMMA BoundsStep ==
  ASSUME IInv, Clocked, Bounds, [Next]_vars
  PROVE  Bounds'
<1>0. /\ Len(queue) \in Nat /\ Len(log) \in Nat /\ Backlog \in Nat /\ MaxTic \in Nat /\ Chunk \in Nat
      /\ queue \in Seq(Item) /\ log \in Seq(Bundles)
  BY LenProperties, ClientAssumption DEF IInv, Shapes
<1>1. built' \in SUBSET Nat
  <2>1. CASE UNCHANGED vars  BY <2>1 DEF vars, Bounds
  <2>2. CASE \A t \in built' : Ahead(t)  BY <2>2 DEF Ahead
  <2> QED  BY <2>1, <2>2, ClockStep
<1>2. CASE SealTic
  <2>1. PICK b \in Bundles : log' = Append(log, b)  BY <1>2 DEF SealTic
  <2>2. Len(log') = Len(log) + 1  BY <1>0, <2>1, AppendProperties
  <2>3. Len(log) < MaxTic /\ UNCHANGED <<queue, phase, frontier, lost, ring>>
    BY <1>2 DEF SealTic, pumpVars, engineVars
  <2> QED  BY <1>0, <1>1, <2>2, <2>3 DEF Bounds
<1>3. CASE Boot
  <2>1. /\ UNCHANGED <<log, queue, lost, ring>> /\ phase' \in {"catchup", "live"}
        /\ \E f \in 0 .. Len(log) : frontier' \in {f, 0}
    BY <1>3 DEF Boot, engineVars
  <2>2. frontier' \in 0 .. MaxTic  BY <1>0, <2>1 DEF Bounds
  <2> QED  BY <1>1, <2>1, <2>2 DEF Bounds
<1>4. ASSUME NEW why \in {"behind", "skipped", "closed", "stalled"}, Lose(why)  PROVE Bounds'
  BY <1>1, <1>4 DEF Lose, engineVars, Bounds
<1>5. CASE Arrive
  <2> DEFINE t == Received
             e == [tic |-> t, b |-> log[t + 1]]
             q == Append(queue, e)
  <2>1. Up /\ t < Len(log) /\ (Accept(t) \/ Lose("behind"))  BY <1>5 DEF Arrive, Received
  <2>2. CASE Lose("behind")  BY <1>4, <2>2
  <2>3. CASE Accept(t)
    <3>1. t \in Nat /\ t + 1 \in 1 .. Len(log)  BY <1>0, <2>1 DEF Received, IInv, Shapes
    <3>2. e \in Item  BY <1>0, <3>1, ElementOfSeq DEF Item
    <3>3. q \in Seq(Item) /\ Len(q) = Len(queue) + 1
      <4> HIDE DEF e
      <4> QED  BY <1>0, <3>2, AppendProperties
    <3>4. /\ Len(queue) < Backlog
          /\ IF phase = "live" THEN Offer(q) ELSE queue' = q /\ UNCHANGED <<ring, nettic>>
          /\ UNCHANGED <<log, phase, frontier, lost>>
      BY <2>3 DEF Accept
    <3> HIDE DEF q
    <3>5. CASE phase = "live"
      <4>1. ring' \in Held /\ Len(queue') <= Len(q)  BY <3>3, <3>4, <3>5, OfferBounds DEF Bounds
      <4>2. queue' \in Seq(Item)
        <5>1. IInv'  BY NextOK
        <5> QED  BY <5>1 DEF IInv, Shapes
      <4>3. Len(queue') <= Backlog
        <5>1. Len(queue') \in Nat  BY <4>2, LenProperties
        <5> QED  BY <1>0, <3>3, <3>4, <4>1, <5>1
      <4> QED  BY <1>1, <3>4, <4>1, <4>3 DEF Bounds
    <3>6. CASE phase # "live"
      <4>1. queue' = q /\ ring' = ring  BY <3>4, <3>6
      <4>2. Len(queue') <= Backlog  BY <1>0, <3>3, <3>4, <4>1
      <4> QED  BY <1>1, <3>4, <4>1, <4>2 DEF Bounds
    <3> QED  BY <3>5, <3>6
  <2> QED  BY <2>1, <2>2, <2>3
<1>6. ASSUME Offer(queue), UNCHANGED <<log, phase, frontier, lost>>  PROVE Bounds'
  <2>1. ring' \in Held /\ Len(queue') <= Len(queue)  BY <1>0, <1>6, OfferBounds DEF Bounds
  <2>2. Len(queue') \in Nat
    <3>1. IInv'  BY NextOK
    <3> QED  BY <3>1, LenProperties DEF IInv, Shapes
  <2>3. Len(queue') <= Backlog  BY <1>0, <2>1, <2>2 DEF Bounds
  <2> QED  BY <1>1, <1>6, <2>1, <2>3 DEF Bounds
<1>7. CASE Misorder
  <2>1. \/ Lose("skipped")
        \/ UNCHANGED <<log, phase, frontier, lost, queue, ring>>
        \/ Offer(queue) /\ UNCHANGED <<log, phase, frontier, lost>>
    BY <1>7 DEF Misorder
  <2>2. CASE UNCHANGED <<log, phase, frontier, lost, queue, ring>>  BY <1>1, <2>2 DEF Bounds
  <2> QED  BY <1>4, <1>6, <2>1, <2>2
<1>8. CASE Disconnect  BY <1>4, <1>8 DEF Disconnect
<1>9. CASE StallOut  BY <1>4, <1>9 DEF StallOut
<1>10. CASE Turn
  <2> DEFINE n == Min({Chunk, Len(queue)})
  <2>1. /\ ring' = Put(ring, queue, n) /\ queue' = SubSeq(queue, n + 1, Len(queue))
        /\ phase' \in {phase, "live"} /\ UNCHANGED <<log, frontier, lost>>
    BY <1>10 DEF Turn
  <2>2. n \in 0 .. Len(queue)
    <3>1. Chunk \in Int /\ Len(queue) \in Int  BY <1>0
    <3>2. n \in {Chunk, Len(queue)} /\ n <= Len(queue)  BY <3>1, MinOfTwo, Zenon
    <3> HIDE DEF n
    <3> QED  BY <1>0, <3>2
  <2> HIDE DEF n
  <2>3. ring' \in Held  BY <1>0, <2>1, <2>2, PutTyped DEF Bounds
  <2>4. Follows(queue, nettic, log) /\ nettic \in Nat  BY DEF IInv, Shapes
  <2>5. Len(queue') = Len(queue) - n  BY <1>0, <2>1, <2>2, <2>4, RestFollows
  <2>6. Len(queue') <= Backlog  BY <1>0, <2>2, <2>5 DEF Bounds
  <2> QED  BY <1>1, <2>1, <2>3, <2>6 DEF Bounds
<1>11. CASE \E r \in Elapsed : Frame(r)
  <2>1. Offer(queue) /\ UNCHANGED <<log, phase, frontier, lost>>  BY <1>11 DEF Frame, OfferWaiting
  <2> QED  BY <1>6, <2>1
<1>12. CASE UNCHANGED vars  BY <1>1, <1>12 DEF vars, pumpVars, engineVars, Bounds
<1> QED  BY <1>2, <1>3, <1>5, <1>7, <1>8, <1>9, <1>10, <1>11, <1>12 DEF Next

\* Every variable has its type; the queue stays within the backlog, and nothing
\* waits beyond the tics there are (accept of net.js, web_net_bundle of d_net.c).
THEOREM Typing == Spec => []TypeOK
<1>1. Init => Bounds /\ Clocked
  <2> SUFFICES ASSUME Init PROVE Bounds /\ Clocked  OBVIOUS
  <2>1. Len(<<>>) = 0 /\ MaxTic \in Nat /\ Backlog \in Nat  BY ClientAssumption
  <2> QED  BY <2>1 DEF Init, Bounds, Clocked, Held
<1>2. IInv /\ Clocked /\ Bounds /\ [Next]_vars => Bounds' /\ Clocked'  BY BoundsStep, ClockStep
<1>3. IInv /\ Clocked /\ Bounds => TypeOK
  <2> SUFFICES ASSUME IInv, Clocked, Bounds PROVE TypeOK  OBVIOUS
  <2>1. /\ Len(queue) \in Nat /\ Len(log) \in Nat /\ MaxTic \in Nat /\ nettic \in Nat
        /\ nettic + Len(queue) = Received /\ Received <= Len(log) /\ Len(log) <= MaxTic
    BY LenProperties, ClientAssumption DEF IInv, Shapes, Bounds
  <2>2. next \in -1 .. MaxTic
    <3>1. next \in Int /\ next >= -1  BY DEF IInv, Shapes
    <3>2. next <= MaxTic  BY <2>1, <3>1 DEF Received
    <3> QED  BY <2>1, <3>1, <3>2
  <2>3. nettic \in 0 .. MaxTic  BY <2>1
  <2>4. queue \in Seq(Entry)
    <3>1. \A i \in 1 .. Len(queue) : queue[i] \in Entry
      <4> TAKE i \in 1 .. Len(queue)
      <4>1. queue[i] \in Item  BY ElementOfSeq DEF IInv, Shapes
      <4>2. queue[i].tic = nettic + i - 1  BY DEF IInv, Follows
      <4>3. queue[i].tic \in 0 .. MaxTic - 1  BY <2>1, <4>2
      <4> QED  BY <4>1, <4>3 DEF Item, Entry
    <3>2. queue \in [1 .. Len(queue) -> Item]  BY LenProperties DEF IInv, Shapes
    <3>3. queue \in [1 .. Len(queue) -> Entry]  BY <3>1, <3>2
    <3> QED  BY <2>1, <3>3, TypedSeq
  <2>5. world \in Seq(Bundles \cup {Blank})
    <3>1. world \in Seq(Bundles) /\ Bundles \subseteq Bundles \cup {Blank}  BY DEF IInv, Shapes
    <3> QED  BY <3>1, SeqMonotonic
  <2>6. log \in Seq(Bundles)  BY DEF IInv, Shapes
  <2> QED  BY <2>1, <2>2, <2>3, <2>4, <2>5, <2>6 DEF TypeOK, Bounds, Clocked, Held
<1>4. Spec => [](Bounds /\ Clocked)  BY <1>1, <1>2, Invariance, PTL DEF Spec
<1> QED  BY <1>3, <1>4, Invariance, PTL
=============================================================================
