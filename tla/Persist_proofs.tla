---------------------------- MODULE Persist_proofs ----------------------------
(***************************************************************************)
(* Proofs about what is stored: about Persist, for every number of games,  *)
(* saves, failures and crashes, that the requests that wait always include *)
(* the one that makes a file's stored bytes the ones that were written     *)
(* last, and that a game's load comes after whatever the game before it    *)
(* still has on its way; and about DemoStore, for all demos and quotas,    *)
(* that it keeps to its quota and drops the oldest first.                  *)
(***************************************************************************)
EXTENDS Persist, DemoStore, WellFoundedInduction, TLAPS

IsWrite(j, f) == j.kind = "write" /\ j.file = f

\* A write-through of f waits in q, past i.
Follows(q, i, f) == \E k \in 1 .. Len(q) : k > i /\ IsWrite(q[k], f)

\* j would leave other bytes of f than v.
Off(j, f, v) == j.kind # "load" /\ j.file = f /\ j.ver # v

\* With o and t waiting, and stored in the store, f ends up as v: whatever is,
\* or will be, stored instead has a write-through of f behind it.
Arrives(o, t, stored, f, v) ==
  /\ stored # v => Follows(t, 0, f) \/ Follows(o, 0, f)
  /\ \A i \in 1 .. Len(t) : Off(t[i], f, v) => Follows(t, i, f) \/ Follows(o, 0, f)
  /\ \A i \in 1 .. Len(o) : Off(o[i], f, v) => Follows(o, i, f)

\* A job of game s that stores: one file, or a file and at most the other.
Stores(j, s) ==
  /\ j.kind # "load" /\ j.ses = s /\ j.file \notin j.rest
  /\ j.kind = "write" => j.rest = {}
LastRound(j, s) == Stores(j, s) /\ j.kind # "write" /\ j.rest = {}

\* What waits while a game loads: its load is behind everything the last game
\* asked for, takes two transactions, and no other job takes more.
LoadOpens ==
  /\ opens # <<>> /\ opens[Len(opens)] = Load(ses)
  /\ \A i \in 1 .. Len(opens) - 1 : Stores(opens[i], ses - 1)
  /\ \A i \in 1 .. Len(txs) : Stores(txs[i], ses - 1)
LoadFirst ==
  /\ opens = <<>>
  /\ \E n \in 1 .. Len(txs) :
       /\ txs[n].kind = "load" /\ txs[n].ses = ses
       /\ txs[n].file = "save" /\ txs[n].rest = {CONFIG}
       /\ \A i \in 1 .. n - 1 : Stores(txs[i], ses - 1)
       /\ \A i \in n + 1 .. Len(txs) : LastRound(txs[i], ses - 1)
LoadLast ==
  /\ opens = <<>> /\ Len(txs) > 0
  /\ LET j == txs[Len(txs)] IN
       j.kind = "load" /\ j.ses = ses /\ j.file = CONFIG /\ j.rest = {}
  /\ \A i \in 1 .. Len(txs) - 1 : LastRound(txs[i], ses - 1)

Queues ==
  /\ stage = "loading" => LoadOpens \/ LoadFirst \/ LoadLast
  /\ stage # "loading" => \A q \in {opens, txs} : \A i \in 1 .. Len(q) :
       Stores(q[i], ses) /\ (stage = "running" => q[i].kind # "flush")

\* Who wrote what can be where.
Written ==
  /\ \A s \in 1 .. MaxSessions, f \in Files :
       mem[s][f][1] <= s /\ (s > ses => mem[s][f] = Absent)
  /\ stage = "loading" => \A f \in Files : mem[ses][f][1] < ses
  /\ \A f \in Files : idb[f][1] <= ses /\ (stage = "loading" => idb[f][1] < ses)
  /\ \A q \in {opens, txs} : \A i \in 1 .. Len(q) : q[i].kind # "load" => q[i].ver[1] <= q[i].ses

\* What the running game wrote arrives, unless the player was told.
OwnArrive ==
  stage = "running" /\ ~ warned =>
    \A f \in Files : mem[ses][f][1] = ses => Arrives(opens, txs, idb[f], f, mem[ses][f])

\* Without a failure, so does all that the last game holds, and the next game
\* has read it by the time its load is in its last round.
AllArrive ==
  /\ stage # "loading" => \A f \in Files : Arrives(opens, txs, idb[f], f, mem[ses][f])
  /\ stage = "loading" /\ ses > 1 =>
       /\ \A f \in Files : Arrives(opens, txs, idb[f], f, mem[ses - 1][f])
       /\ LoadLast => mem[ses]["save"] = mem[ses - 1]["save"]

IInv ==
  /\ PersistTypeOK
  /\ "load" \notin failed => Queues /\ Written /\ OwnArrive
  /\ failed = {} => AllArrive

-----------------------------------------------------------------------------
(* The queues.                                                             *)

LEMMA Appended ==
  ASSUME NEW S, NEW q \in Seq(S), NEW e \in S
  PROVE  /\ Append(q, e) \in Seq(S) /\ Len(Append(q, e)) = Len(q) + 1 /\ Len(q) \in Nat
         /\ \A i \in 1 .. Len(q) : Append(q, e)[i] = q[i]
         /\ Append(q, e)[Len(q) + 1] = e
OBVIOUS

LEMMA Beheaded ==
  ASSUME NEW S, NEW q \in Seq(S), q # <<>>
  PROVE  /\ Tail(q) \in Seq(S) /\ Len(Tail(q)) = Len(q) - 1 /\ Len(q) \in Nat /\ Len(q) > 0
         /\ \A i \in 1 .. Len(q) - 1 : Tail(q)[i] = q[i + 1]
         /\ Head(q) = q[1] /\ Head(q) \in S
OBVIOUS

LEMMA LaterAppended ==
  ASSUME NEW S, NEW q \in Seq(S), NEW e \in S, NEW i, NEW f, Follows(q, i, f)
  PROVE  Follows(Append(q, e), i, f)
<1> DEFINE r == Append(q, e)
<1>1. /\ Len(r) = Len(q) + 1 /\ Len(q) \in Nat /\ \A k \in 1 .. Len(q) : r[k] = q[k]
  BY Appended
<1> HIDE DEF r
<1>2. Follows(r, i, f)  BY <1>1 DEF Follows
<1> QED  BY <1>2 DEF r

LEMMA LaterWritten ==
  ASSUME NEW S, NEW q \in Seq(S), NEW e \in S, NEW f, IsWrite(e, f),
         NEW i \in Nat, i <= Len(q)
  PROVE  Follows(Append(q, e), i, f)
<1> DEFINE r == Append(q, e)
<1>1. Len(r) = Len(q) + 1 /\ Len(q) \in Nat /\ r[Len(q) + 1] = e  BY Appended
<1> HIDE DEF r
<1>2. Follows(r, i, f)  BY <1>1 DEF Follows
<1> QED  BY <1>2 DEF r

LEMMA LaterBeheaded ==
  ASSUME NEW S, NEW q \in Seq(S), q # <<>>, NEW f, NEW i \in Nat, Follows(q, i, f),
         i > 0 \/ ~ IsWrite(q[1], f)
  PROVE  Follows(Tail(q), IF i = 0 THEN 0 ELSE i - 1, f)
<1> DEFINE r == Tail(q)
<1>1. /\ Len(r) = Len(q) - 1 /\ Len(q) \in Nat /\ Len(q) > 0
      /\ \A k \in 1 .. Len(q) - 1 : r[k] = q[k + 1]
  BY Beheaded
<1> HIDE DEF r
<1>2. PICK k \in 1 .. Len(q) : k > i /\ IsWrite(q[k], f)  BY DEF Follows
<1>3. k - 1 \in 1 .. Len(r) /\ r[k - 1] = q[k]  BY <1>1, <1>2
<1>4. (IF i = 0 THEN 0 ELSE i - 1) < k - 1 \/ (i = 0 /\ k = 1)  BY <1>2
<1>5. ~ (i = 0 /\ k = 1)  BY <1>2
<1>6. Follows(r, IF i = 0 THEN 0 ELSE i - 1, f)  BY <1>2, <1>3, <1>4, <1>5 DEF Follows
<1> QED  BY <1>6 DEF r

-----------------------------------------------------------------------------
(* What arrives, arrives still.                                            *)

\* A write-through of the bytes it is about, asked for last.
LEMMA ArrivesWritten ==
  ASSUME NEW o \in Seq(Jobs), NEW t \in Seq(Jobs), NEW j \in Jobs, NEW stored, NEW f, NEW v,
         IsWrite(j, f), j.ver = v
  PROVE  Arrives(Append(o, j), t, stored, f, v)
<1> DEFINE r == Append(o, j)
<1>1. /\ Len(r) = Len(o) + 1 /\ Len(o) \in Nat /\ r[Len(o) + 1] = j
  BY Appended
<1>2. \A i \in Nat : i <= Len(o) => Follows(r, i, f)  BY LaterWritten
<1> HIDE DEF r
<1>3. \A i \in 1 .. Len(r) : Off(r[i], f, v) => Follows(r, i, f)
  <2> SUFFICES ASSUME NEW i \in 1 .. Len(r), Off(r[i], f, v)  PROVE Follows(r, i, f)
    OBVIOUS
  <2>1. i # Len(o) + 1  BY <1>1 DEF Off
  <2> QED  BY <1>1, <1>2, <2>1
<1>4. Follows(r, 0, f)  BY <1>1, <1>2
<1>5. Arrives(r, t, stored, f, v)  BY <1>3, <1>4 DEF Arrives
<1> QED  BY <1>5 DEF r

\* Any other job that would leave the same bytes, or is of another file.
LEMMA ArrivesAsked ==
  ASSUME NEW o \in Seq(Jobs), NEW t \in Seq(Jobs), NEW j \in Jobs, NEW stored, NEW f, NEW v,
         Arrives(o, t, stored, f, v), ~ Off(j, f, v)
  PROVE  Arrives(Append(o, j), t, stored, f, v)
<1> DEFINE r == Append(o, j)
<1>1. /\ Len(r) = Len(o) + 1 /\ Len(o) \in Nat /\ \A i \in 1 .. Len(o) : r[i] = o[i]
      /\ r[Len(o) + 1] = j
  BY Appended
<1>2. \A i : Follows(o, i, f) => Follows(r, i, f)  BY LaterAppended
<1> HIDE DEF r
<1>3. \A i \in 1 .. Len(r) : Off(r[i], f, v) => Follows(r, i, f)
  <2> SUFFICES ASSUME NEW i \in 1 .. Len(r), Off(r[i], f, v)  PROVE Follows(r, i, f)
    OBVIOUS
  <2>1. i \in 1 .. Len(o)  BY <1>1
  <2> QED  BY <1>1, <1>2, <2>1 DEF Arrives
<1>4. Arrives(r, t, stored, f, v)  BY <1>2, <1>3 DEF Arrives
<1> QED  BY <1>4 DEF r

LEMMA ArrivesGoesOn ==
  ASSUME NEW o \in Seq(Jobs), NEW t \in Seq(Jobs), NEW j \in Jobs, NEW stored, NEW f, NEW v,
         Arrives(o, t, stored, f, v), ~ Off(j, f, v)
  PROVE  Arrives(o, Append(t, j), stored, f, v)
<1> DEFINE r == Append(t, j)
<1>1. /\ Len(r) = Len(t) + 1 /\ Len(t) \in Nat /\ \A i \in 1 .. Len(t) : r[i] = t[i]
      /\ r[Len(t) + 1] = j
  BY Appended
<1>2. \A i : Follows(t, i, f) => Follows(r, i, f)  BY LaterAppended
<1> HIDE DEF r
<1>3. \A i \in 1 .. Len(r) : Off(r[i], f, v) => Follows(r, i, f) \/ Follows(o, 0, f)
  <2> SUFFICES ASSUME NEW i \in 1 .. Len(r), Off(r[i], f, v)
               PROVE  Follows(r, i, f) \/ Follows(o, 0, f)
    OBVIOUS
  <2>1. i \in 1 .. Len(t)  BY <1>1
  <2> QED  BY <1>1, <1>2, <2>1 DEF Arrives
<1>4. Arrives(o, r, stored, f, v)  BY <1>2, <1>3 DEF Arrives
<1> QED  BY <1>4 DEF r

\* The first connection is granted.
LEMMA ArrivesOpened ==
  ASSUME NEW o \in Seq(Jobs), NEW t \in Seq(Jobs), NEW stored, NEW f, NEW v,
         Arrives(o, t, stored, f, v), o # <<>>
  PROVE  Arrives(Tail(o), Append(t, Head(o)), stored, f, v)
<1> DEFINE r == Append(t, Head(o))
           q == Tail(o)
<1>0. Head(o) \in Jobs /\ Head(o) = o[1] /\ Len(q) = Len(o) - 1 /\ Len(o) \in Nat /\ Len(o) > 0
      /\ \A i \in 1 .. Len(o) - 1 : q[i] = o[i + 1]
  BY Beheaded
<1>1. /\ Len(r) = Len(t) + 1 /\ Len(t) \in Nat /\ \A i \in 1 .. Len(t) : r[i] = t[i]
      /\ r[Len(t) + 1] = o[1]
  BY <1>0, Appended
<1>2. \A i : Follows(t, i, f) => Follows(r, i, f)  BY <1>0, LaterAppended
<1>3. \A i \in 1 .. Len(o) : Follows(o, i, f) => Follows(q, i - 1, f)
  <2> SUFFICES ASSUME NEW i \in 1 .. Len(o), Follows(o, i, f)  PROVE Follows(q, i - 1, f)
    OBVIOUS
  <2>1. i \in Nat /\ i > 0 /\ i - 1 \in Nat  OBVIOUS
  <2> QED  BY <2>1, LaterBeheaded
<1>4. Follows(o, 0, f) => Follows(q, 0, f) \/ \A i \in 0 .. Len(t) : Follows(r, i, f)
  <2>1. CASE IsWrite(o[1], f)
    <3>1. \A i \in Nat : i <= Len(t) => Follows(r, i, f)  BY <1>0, <2>1, LaterWritten
    <3> QED  BY <3>1
  <2>2. CASE ~ IsWrite(o[1], f)
    <3>1. Follows(o, 0, f) => Follows(q, 0, f)  BY <2>2, LaterBeheaded
    <3> QED  BY <3>1
  <2> QED  BY <2>1, <2>2
<1> HIDE DEF r, q
<1>5. stored # v => Follows(r, 0, f) \/ Follows(q, 0, f)
  <2>1. 0 \in 0 .. Len(t)  BY <1>1
  <2> QED  BY <1>2, <1>4, <2>1 DEF Arrives
<1>6. \A i \in 1 .. Len(r) : Off(r[i], f, v) => Follows(r, i, f) \/ Follows(q, 0, f)
  <2> SUFFICES ASSUME NEW i \in 1 .. Len(r), Off(r[i], f, v)
               PROVE  Follows(r, i, f) \/ Follows(q, 0, f)
    OBVIOUS
  <2>1. CASE i \in 1 .. Len(t)
    <3>1. i \in 0 .. Len(t)  BY <2>1
    <3> QED  BY <1>1, <1>2, <1>4, <2>1, <3>1 DEF Arrives
  <2>2. CASE i = Len(t) + 1
    <3>1. 1 \in 1 .. Len(o) /\ Off(o[1], f, v)  BY <1>0, <1>1, <2>2
    <3>2. Follows(o, 1, f)  BY <3>1 DEF Arrives
    <3> QED  BY <1>3, <3>1, <3>2
  <2> QED  BY <1>1, <2>1, <2>2
<1>7. \A i \in 1 .. Len(q) : Off(q[i], f, v) => Follows(q, i, f)
  <2> SUFFICES ASSUME NEW i \in 1 .. Len(q), Off(q[i], f, v)  PROVE Follows(q, i, f)
    OBVIOUS
  <2>1. i + 1 \in 1 .. Len(o) /\ Off(o[i + 1], f, v)  BY <1>0
  <2>2. Follows(q, (i + 1) - 1, f)  BY <1>3, <2>1 DEF Arrives
  <2> QED  BY <2>2
<1>8. Arrives(q, r, stored, f, v)  BY <1>5, <1>6, <1>7 DEF Arrives
<1> QED  BY <1>8 DEF q, r

\* The first transaction ends, or only leaves the queue.
LEMMA ArrivesDone ==
  ASSUME NEW o \in Seq(Jobs), NEW t \in Seq(Jobs), NEW old, NEW stored, NEW f, NEW v,
         Arrives(o, t, old, f, v), t # <<>>,
         stored = IF Head(t).kind # "load" /\ Head(t).file = f THEN Head(t).ver ELSE old
  PROVE  Arrives(o, Tail(t), stored, f, v)
<1> DEFINE r == Tail(t)
<1>1. /\ Head(t) = t[1] /\ Len(r) = Len(t) - 1 /\ Len(t) \in Nat /\ Len(t) > 0
      /\ \A i \in 1 .. Len(t) - 1 : r[i] = t[i + 1]
  BY Beheaded
<1>2. \A i \in 1 .. Len(t) : Follows(t, i, f) => Follows(r, i - 1, f)
  <2> SUFFICES ASSUME NEW i \in 1 .. Len(t), Follows(t, i, f)  PROVE Follows(r, i - 1, f)
    OBVIOUS
  <2>1. i \in Nat /\ i > 0 /\ i - 1 \in Nat  OBVIOUS
  <2> QED  BY <2>1, LaterBeheaded
<1>3. ~ IsWrite(t[1], f) /\ Follows(t, 0, f) => Follows(r, 0, f)  BY LaterBeheaded
<1> HIDE DEF r
<1>4. stored # v => Follows(r, 0, f) \/ Follows(o, 0, f)
  <2> SUFFICES ASSUME stored # v  PROVE Follows(r, 0, f) \/ Follows(o, 0, f)
    OBVIOUS
  <2>1. CASE Off(t[1], f, v)
    <3>1. 1 \in 1 .. Len(t)  BY <1>1
    <3> QED  BY <1>2, <2>1, <3>1 DEF Arrives
  <2>2. CASE ~ Off(t[1], f, v)
    <3>1. stored = old /\ ~ IsWrite(t[1], f)  BY <1>1, <2>2 DEF Off, IsWrite
    <3> QED  BY <1>3, <3>1 DEF Arrives
  <2> QED  BY <2>1, <2>2
<1>5. \A i \in 1 .. Len(r) : Off(r[i], f, v) => Follows(r, i, f) \/ Follows(o, 0, f)
  <2> SUFFICES ASSUME NEW i \in 1 .. Len(r), Off(r[i], f, v)
               PROVE  Follows(r, i, f) \/ Follows(o, 0, f)
    OBVIOUS
  <2>1. i + 1 \in 1 .. Len(t) /\ Off(t[i + 1], f, v)  BY <1>1
  <2>2. Follows(t, i + 1, f) \/ Follows(o, 0, f)  BY <2>1 DEF Arrives
  <2>3. (i + 1) - 1 = i  OBVIOUS
  <2> QED  BY <1>2, <2>1, <2>2, <2>3
<1>6. Arrives(o, r, stored, f, v)  BY <1>4, <1>5 DEF Arrives
<1> QED  BY <1>6 DEF r

\* What nothing is on its way for is there.
LEMMA Arrived ==
  ASSUME NEW o, NEW t, NEW stored, NEW f, NEW v, Arrives(o, t, stored, f, v),
         ~ Follows(t, 0, f), ~ Follows(o, 0, f)
  PROVE  stored = v
BY DEF Arrives

-----------------------------------------------------------------------------
(* The running game.                                                       *)

LEMMA FilesAre == "save" \in Files /\ CONFIG \in Files /\ "save" # CONFIG /\ Absent \in Versions
BY PersistAssumption DEF Files, CONFIG, Absent, Versions

LEMMA InitHolds == PersistInit => IInv
<1> SUFFICES ASSUME PersistInit  PROVE IInv
  OBVIOUS
<1> USE PersistAssumption DEF PersistInit
<1>1. Load(1) \in Jobs  BY FilesAre DEF Load, Job, Jobs
<1>2. PersistTypeOK
  <2>1. mem \in [1 .. MaxSessions -> [Files -> Versions]]  BY FilesAre
  <2>2. opens \in Seq(Jobs) /\ txs \in Seq(Jobs)
    <3> DEFINE j == Load(1)
    <3>1. j \in Jobs  BY <1>1
    <3> HIDE DEF j
    <3>2. <<j>> \in Seq(Jobs)  BY <3>1
    <3> QED  BY <3>2 DEF j
  <2>3. ses \in 1 .. MaxSessions /\ stage \in {"loading", "running", "ended"}  OBVIOUS
  <2>4. idb \in [Files -> Versions] /\ lastConfig \in Versions  BY FilesAre
  <2>5. dirty \subseteq Files /\ warned \in BOOLEAN  OBVIOUS
  <2> HIDE DEF PersistInit
  <2> QED  BY <2>1, <2>2, <2>3, <2>4, <2>5 DEF PersistTypeOK
<1>3. Queues  BY DEF Queues, LoadOpens
<1>4. Written  BY DEF Written, Absent, Load, Job
<1> QED  BY <1>2, <1>3, <1>4 DEF IInv, OwnArrive, AllArrive

\* The next version of a file is one that its game wrote.
LEMMA NewerIs ==
  ASSUME PersistTypeOK, NEW f \in Files, Newer(ses, f)[2] <= MaxVersion
  PROVE  Newer(ses, f) \in Versions /\ Newer(ses, f)[1] = ses
<1>1. mem[ses][f] \in Versions /\ ses \in 1 .. MaxSessions  BY DEF PersistTypeOK
<1>2. Version(ses, f)[2] \in Nat  BY <1>1, PersistAssumption DEF Version, Versions, Absent
<1>3. Newer(ses, f)[2] = Version(ses, f)[2] + 1 /\ Newer(ses, f)[1] = ses  BY DEF Newer
<1> QED  BY <1>1, <1>2, <1>3, PersistAssumption DEF Newer, Versions

\* The game writes one file, v from now on.
LEMMA MemWritten ==
  ASSUME PersistTypeOK, NEW f \in Files, NEW v \in Versions, mem' = [mem EXCEPT ![ses][f] = v]
  PROVE  /\ mem' \in [1 .. MaxSessions -> [Files -> Versions]]
         /\ mem'[ses][f] = v
         /\ \A s \in 1 .. MaxSessions, g \in Files : s # ses \/ g # f => mem'[s][g] = mem[s][g]
BY DEF PersistTypeOK

LEMMA SaveKeeps ==
  ASSUME IInv, Save
  PROVE  IInv'
<1> USE PersistAssumption
<1> DEFINE v == Newer(ses, "save")
           j == Job("write", ses, "save", v, {})
<1>0. PersistTypeOK /\ ses \in 1 .. MaxSessions /\ opens \in Seq(Jobs) /\ txs \in Seq(Jobs)
  BY DEF IInv, PersistTypeOK
<1>1. v \in Versions /\ v[1] = ses
  <2>1. Version(ses, "save")[2] < MaxVersion  BY DEF Save
  <2>2. mem[ses]["save"] \in Versions  BY <1>0, FilesAre DEF PersistTypeOK
  <2>3. Version(ses, "save")[2] \in Nat  BY <2>2 DEF Version, Versions, Absent
  <2>4. v[2] <= MaxVersion  BY <2>1, <2>3 DEF Newer
  <2> QED  BY <1>0, <2>4, NewerIs, FilesAre
<1>2. /\ mem' = [mem EXCEPT ![ses]["save"] = v] /\ stage = "running" /\ dirty' = dirty \cup {"save"}
      /\ opens' = Append(opens, Job("write", ses, "save", mem'[ses]["save"], {}))
      /\ UNCHANGED <<ses, stage, warned, lastConfig, idb, txs, faults, failed>>
  BY DEF Save
<1> HIDE DEF v
<1>3. /\ mem' \in [1 .. MaxSessions -> [Files -> Versions]] /\ mem'[ses]["save"] = v
      /\ \A s \in 1 .. MaxSessions, g \in Files : s # ses \/ g # "save" => mem'[s][g] = mem[s][g]
  BY <1>0, <1>1, <1>2, FilesAre, MemWritten
<1>4. opens' = Append(opens, j)  BY <1>2, <1>3
<1>5. /\ j \in Jobs /\ j.kind = "write" /\ j.file = "save" /\ j.ver = v /\ j.ses = ses /\ j.rest = {}
  BY <1>0, <1>1, FilesAre DEF Job, Jobs
<1> HIDE DEF j
<1>6. /\ opens' \in Seq(Jobs) /\ Len(opens') = Len(opens) + 1 /\ Len(opens) \in Nat
      /\ \A i \in 1 .. Len(opens) : opens'[i] = opens[i]
      /\ opens'[Len(opens) + 1] = j
  BY <1>0, <1>4, <1>5, Appended
<1>7. PersistTypeOK'  BY <1>0, <1>2, <1>3, <1>6, FilesAre DEF PersistTypeOK
<1>8. \A f \in Files : Arrives(opens, txs, idb[f], f, mem[ses][f]) \/ f = "save" =>
                       Arrives(opens', txs', idb'[f], f, mem'[ses][f])
  <2> SUFFICES ASSUME NEW f \in Files, Arrives(opens, txs, idb[f], f, mem[ses][f]) \/ f = "save"
               PROVE  Arrives(opens', txs, idb[f], f, mem'[ses][f])
    BY <1>2
  <2>1. CASE f = "save"
    <3>1. IsWrite(j, f) /\ j.ver = mem'[ses][f]  BY <1>3, <1>5, <2>1 DEF IsWrite
    <3> QED  BY <1>0, <1>4, <1>5, <3>1, ArrivesWritten
  <2>2. CASE f # "save"
    <3>1. mem'[ses][f] = mem[ses][f] /\ ~ Off(j, f, mem[ses][f])
      BY <1>0, <1>3, <1>5, <2>2 DEF Off
    <3> QED  BY <1>0, <1>4, <1>5, <2>2, <3>1, ArrivesAsked
  <2> QED  BY <2>1, <2>2
<1>9. ASSUME "load" \notin failed  PROVE Queues' /\ Written' /\ OwnArrive'
  <2>0. Queues /\ Written /\ OwnArrive  BY <1>9 DEF IInv
  <2>1. Queues'
    <3>1. \A i \in 1 .. Len(opens') : i \in 1 .. Len(opens) \/ opens'[i] = j  BY <1>6
    <3>2. Stores(j, ses) /\ j.kind # "flush"  BY <1>5 DEF Stores
    <3> QED  BY <1>2, <1>6, <2>0, <3>1, <3>2 DEF Queues, Stores
  <2>2. Written'
    <3>1. \A i \in 1 .. Len(opens') : opens'[i].kind # "load" => opens'[i].ver[1] <= opens'[i].ses
      <4> SUFFICES ASSUME NEW i \in 1 .. Len(opens'), opens'[i].kind # "load"
                   PROVE  opens'[i].ver[1] <= opens'[i].ses
        OBVIOUS
      <4>1. CASE i \in 1 .. Len(opens)  BY <1>6, <2>0, <4>1 DEF Written
      <4>2. CASE i = Len(opens) + 1  BY <1>0, <1>1, <1>5, <1>6, <4>2
      <4> QED  BY <1>6, <4>1, <4>2
    <3>2. \A s \in 1 .. MaxSessions, f \in Files :
            mem'[s][f][1] <= s /\ (s > ses => mem'[s][f] = Absent)
      <4> SUFFICES ASSUME NEW s \in 1 .. MaxSessions, NEW f \in Files
                   PROVE  mem'[s][f][1] <= s /\ (s > ses => mem'[s][f] = Absent)
        OBVIOUS
      <4>1. CASE s = ses /\ f = "save"  BY <1>0, <1>1, <1>3, <4>1
      <4>2. CASE s # ses \/ f # "save"  BY <1>3, <2>0, <4>2 DEF Written
      <4> QED  BY <4>1, <4>2
    <3> QED  BY <1>2, <2>0, <3>1, <3>2 DEF Written
  <2>3. OwnArrive'
    <3> SUFFICES ASSUME ~ warned, NEW f \in Files, mem'[ses][f][1] = ses
                 PROVE  Arrives(opens', txs', idb'[f], f, mem'[ses][f])
      BY <1>2 DEF OwnArrive
    <3>1. f # "save" => mem'[ses][f] = mem[ses][f]  BY <1>0, <1>3
    <3> QED  BY <1>2, <1>8, <2>0, <3>1 DEF OwnArrive
  <2> QED  BY <2>1, <2>2, <2>3
<1>10. ASSUME failed = {}  PROVE AllArrive'
  BY <1>2, <1>8, <1>10 DEF IInv, AllArrive
<1> QED  BY <1>2, <1>7, <1>9, <1>10 DEF IInv
\* A job that is asked for when nothing loads, after jobs of its game.
LEMMA QueuesAsked ==
  ASSUME NEW o \in Seq(Jobs), NEW j \in Jobs, NEW s,
         \A i \in 1 .. Len(o) : Stores(o[i], s), Stores(j, s)
  PROVE  \A i \in 1 .. Len(Append(o, j)) : Stores(Append(o, j)[i], s)
<1> DEFINE r == Append(o, j)
<1>1. /\ Len(r) = Len(o) + 1 /\ Len(o) \in Nat /\ \A i \in 1 .. Len(o) : r[i] = o[i]
      /\ r[Len(o) + 1] = j
  BY Appended
<1> HIDE DEF r
<1>2. \A i \in 1 .. Len(r) : i \in 1 .. Len(o) \/ r[i] = j  BY <1>1
<1>3. \A i \in 1 .. Len(r) : Stores(r[i], s)  BY <1>1, <1>2
<1> QED  BY <1>3 DEF r

LEMMA SyncKeeps ==
  ASSUME IInv, Sync
  PROVE  IInv'
<1> USE PersistAssumption
<1>0. PersistTypeOK /\ ses \in 1 .. MaxSessions /\ opens \in Seq(Jobs) /\ txs \in Seq(Jobs)
  BY DEF IInv, PersistTypeOK
<1>1. PICK v \in {mem[ses][CONFIG], Newer(ses, CONFIG)} :
        v[2] \in 1 .. MaxVersion /\ mem' = [mem EXCEPT ![ses][CONFIG] = v]
  BY DEF Sync
<1>2. v \in Versions /\ (v = mem[ses][CONFIG] \/ v[1] = ses)
  <2>1. mem[ses][CONFIG] \in Versions  BY <1>0, FilesAre DEF PersistTypeOK
  <2>2. CASE v = mem[ses][CONFIG]  BY <2>1, <2>2
  <2>3. CASE v = Newer(ses, CONFIG)
    <3>1. Newer(ses, CONFIG)[2] <= MaxVersion  BY <1>1, <2>3
    <3> QED  BY <1>0, <2>3, <3>1, NewerIs, FilesAre
  <2> QED  BY <2>2, <2>3
<1>3. /\ mem' \in [1 .. MaxSessions -> [Files -> Versions]] /\ mem'[ses][CONFIG] = v
      /\ \A s \in 1 .. MaxSessions, g \in Files : s # ses \/ g # CONFIG => mem'[s][g] = mem[s][g]
  BY <1>0, <1>1, <1>2, FilesAre, MemWritten
<1>4. dirty' \subseteq Files /\ stage = "running"
      /\ UNCHANGED <<ses, stage, warned, lastConfig, idb, txs, faults, failed>>
  BY <1>0, FilesAre DEF Sync, PersistTypeOK
<1>5. PICK h \in dirty' :
        opens' = opens \o <<Job("write", ses, CONFIG, mem'[ses][CONFIG], {}),
                            Job("sync", ses, h, mem'[ses][h], dirty' \ {h})>>
  BY DEF Sync
<1> DEFINE a == Job("write", ses, CONFIG, v, {})
           b == Job("sync", ses, h, mem'[ses][h], dirty' \ {h})
           mid == Append(opens, a)
<1>6. /\ a \in Jobs /\ a.kind = "write" /\ a.file = CONFIG /\ a.ver = v /\ a.ses = ses
      /\ a.rest = {}
  BY <1>0, <1>2, FilesAre DEF Job, Jobs
<1>7. /\ b \in Jobs /\ b.kind = "sync" /\ b.file = h /\ b.ver = mem'[ses][h] /\ b.ses = ses
      /\ h \notin b.rest
  <2>1. h \in Files /\ mem'[ses][h] \in Versions  BY <1>0, <1>3, <1>4, <1>5
  <2> QED  BY <1>0, <1>4, <2>1 DEF Job, Jobs
<1>8. opens' = Append(mid, b)
  <2>1. opens' = opens \o <<a, b>>  BY <1>3, <1>5
  <2> HIDE DEF a, b
  <2>2. opens \o <<a, b>> = Append(Append(opens, a), b)  BY <1>0, <1>6, <1>7
  <2> QED  BY <2>1, <2>2
<1> HIDE DEF a, b
<1>9. mid \in Seq(Jobs)  BY <1>0, <1>6, Appended
<1>10. opens' \in Seq(Jobs)  BY <1>7, <1>8, <1>9, Appended
<1>11. PersistTypeOK'  BY <1>0, <1>3, <1>4, <1>10 DEF PersistTypeOK
<1>12. \A f \in Files : Arrives(opens, txs, idb[f], f, mem[ses][f]) \/ f = CONFIG =>
                        Arrives(opens', txs', idb'[f], f, mem'[ses][f])
  <2> SUFFICES ASSUME NEW f \in Files, Arrives(opens, txs, idb[f], f, mem[ses][f]) \/ f = CONFIG
               PROVE  Arrives(opens', txs, idb[f], f, mem'[ses][f])
    BY <1>4
  <2>0. ~ Off(b, f, mem'[ses][f])  BY <1>7 DEF Off
  <2>1. Arrives(mid, txs, idb[f], f, mem'[ses][f])
    <3>1. CASE f = CONFIG
      <4>1. IsWrite(a, f) /\ a.ver = mem'[ses][f]  BY <1>3, <1>6, <3>1 DEF IsWrite
      <4> QED  BY <1>0, <1>6, <4>1, ArrivesWritten
    <3>2. CASE f # CONFIG
      <4>1. mem'[ses][f] = mem[ses][f] /\ ~ Off(a, f, mem[ses][f])
        BY <1>0, <1>3, <1>6, <3>2 DEF Off
      <4> QED  BY <1>0, <1>6, <3>2, <4>1, ArrivesAsked
    <3> QED  BY <3>1, <3>2
  <2> HIDE DEF mid
  <2> QED  BY <1>0, <1>7, <1>8, <1>9, <2>0, <2>1, ArrivesAsked
<1>13. ASSUME "load" \notin failed  PROVE Queues' /\ Written' /\ OwnArrive'
  <2>0. Queues /\ Written /\ OwnArrive  BY <1>13 DEF IInv
  <2>1. /\ Len(opens') = Len(opens) + 2 /\ Len(opens) \in Nat
        /\ \A i \in 1 .. Len(opens) : opens'[i] = opens[i]
        /\ opens'[Len(opens) + 1] = a /\ opens'[Len(opens) + 2] = b
    <3>1. /\ Len(mid) = Len(opens) + 1 /\ Len(opens) \in Nat /\ mid[Len(opens) + 1] = a
          /\ \A i \in 1 .. Len(opens) : mid[i] = opens[i]
      BY <1>0, <1>6, Appended
    <3> HIDE DEF mid
    <3>2. /\ Len(opens') = Len(mid) + 1 /\ opens'[Len(mid) + 1] = b
          /\ \A i \in 1 .. Len(mid) : opens'[i] = mid[i]
      BY <1>7, <1>8, <1>9, Appended
    <3> QED  BY <3>1, <3>2
  <2>2. \A i \in 1 .. Len(opens') : i \in 1 .. Len(opens) \/ opens'[i] = a \/ opens'[i] = b
    <3> SUFFICES ASSUME NEW i \in 1 .. Len(opens')
                 PROVE  i \in 1 .. Len(opens) \/ opens'[i] = a \/ opens'[i] = b
      OBVIOUS
    <3>1. i \in 1 .. Len(opens) \/ i = Len(opens) + 1 \/ i = Len(opens) + 2  BY <2>1
    <3> QED  BY <2>1, <3>1
  <2>3. Queues'
    <3>1. Stores(a, ses) /\ a.kind # "flush" /\ Stores(b, ses) /\ b.kind # "flush"
      BY <1>6, <1>7 DEF Stores
    <3>2. \A i \in 1 .. Len(opens) : Stores(opens[i], ses) /\ opens[i].kind # "flush"
      BY <1>4, <2>0 DEF Queues
    <3>3. \A i \in 1 .. Len(opens') : Stores(opens'[i], ses) /\ opens'[i].kind # "flush"
      BY <2>1, <2>2, <3>1, <3>2
    <3> QED  BY <1>4, <2>0, <3>3 DEF Queues
  <2>4. Written'
    <3>1. v[1] <= ses
      BY <1>0, <1>2, <2>0, FilesAre DEF Written
    <3>2. \A s \in 1 .. MaxSessions, f \in Files :
            mem'[s][f][1] <= s /\ (s > ses => mem'[s][f] = Absent)
      <4> SUFFICES ASSUME NEW s \in 1 .. MaxSessions, NEW f \in Files
                   PROVE  mem'[s][f][1] <= s /\ (s > ses => mem'[s][f] = Absent)
        OBVIOUS
      <4>1. CASE s = ses /\ f = CONFIG  BY <1>0, <1>3, <3>1, <4>1
      <4>2. CASE s # ses \/ f # CONFIG  BY <1>3, <2>0, <4>2 DEF Written
      <4> QED  BY <4>1, <4>2
    <3>3. a.ver[1] <= a.ses /\ b.ver[1] <= b.ses
      <4>1. h \in Files  BY <1>4, <1>5
      <4> QED  BY <1>0, <1>6, <1>7, <3>1, <3>2, <4>1
    <3>4. \A i \in 1 .. Len(opens) : opens[i].kind # "load" => opens[i].ver[1] <= opens[i].ses
      BY <2>0 DEF Written
    <3>5. \A i \in 1 .. Len(opens') : opens'[i].kind # "load" => opens'[i].ver[1] <= opens'[i].ses
      BY <2>1, <2>2, <3>3, <3>4
    <3> QED  BY <1>4, <2>0, <3>2, <3>5 DEF Written
  <2>5. OwnArrive'
    <3> SUFFICES ASSUME ~ warned, NEW f \in Files, mem'[ses][f][1] = ses
                 PROVE  Arrives(opens', txs', idb'[f], f, mem'[ses][f])
      BY <1>4 DEF OwnArrive
    <3>1. f # CONFIG => mem'[ses][f] = mem[ses][f]  BY <1>0, <1>3
    <3> QED  BY <1>4, <1>12, <2>0, <3>1 DEF OwnArrive
  <2> QED  BY <2>3, <2>4, <2>5
<1>14. ASSUME failed = {}  PROVE AllArrive'
  BY <1>4, <1>12, <1>14 DEF IInv, AllArrive
<1> QED  BY <1>4, <1>11, <1>13, <1>14 DEF IInv

LEMMA EndKeeps ==
  ASSUME IInv, End
  PROVE  IInv'
<1> USE PersistAssumption
<1> DEFINE kept == {f \in Files : mem[ses][f] # Absent}
           first == IF "save" \in kept THEN "save" ELSE CONFIG
           j == Job("flush", ses, first, mem[ses][first], kept \ {first})
<1>0. PersistTypeOK /\ ses \in 1 .. MaxSessions /\ opens \in Seq(Jobs) /\ txs \in Seq(Jobs)
  BY DEF IInv, PersistTypeOK
<1>1. /\ stage = "running" /\ stage' = "ended" /\ (opens' = opens \/ opens' = Append(opens, j))
      /\ UNCHANGED <<ses, mem, dirty, warned, lastConfig, idb, txs, faults, failed>>
  BY DEF End
<1>2. first \in Files /\ mem[ses][first] \in Versions  BY <1>0, FilesAre DEF PersistTypeOK
<1>3. kept \ {first} \subseteq Files  OBVIOUS
<1> HIDE DEF first, kept
<1>4. /\ j \in Jobs /\ j.kind = "flush" /\ j.file = first /\ j.ver = mem[ses][first] /\ j.ses = ses
      /\ first \notin j.rest
  BY <1>0, <1>2, <1>3 DEF Job, Jobs
<1> HIDE DEF j
<1>5. opens' \in Seq(Jobs)
  <2>1. Append(opens, j) \in Seq(Jobs)  BY <1>0, <1>4, Appended
  <2> QED  BY <1>0, <1>1, <2>1
<1>6. PersistTypeOK'  BY <1>0, <1>1, <1>5 DEF PersistTypeOK
<1>7. ASSUME "load" \notin failed  PROVE Queues' /\ Written' /\ OwnArrive'
  <2>0. Queues /\ Written  BY <1>7 DEF IInv
  <2>1. Queues'
    <3>1. \A i \in 1 .. Len(opens) : Stores(opens[i], ses)  BY <1>1, <2>0 DEF Queues
    <3>2. Stores(j, ses)  BY <1>4 DEF Stores
    <3>3. \A i \in 1 .. Len(opens') : Stores(opens'[i], ses)
      BY <1>0, <1>1, <1>4, <3>1, <3>2, QueuesAsked
    <3> QED  BY <1>1, <2>0, <3>3 DEF Queues
  <2>2. Written'
    <3>1. j.ver[1] <= j.ses  BY <1>0, <1>2, <1>4, <2>0 DEF Written
    <3>2. \A i \in 1 .. Len(opens) : opens[i].kind # "load" => opens[i].ver[1] <= opens[i].ses
      BY <2>0 DEF Written
    <3>3. \A i \in 1 .. Len(opens') : opens'[i].kind # "load" => opens'[i].ver[1] <= opens'[i].ses
      <4>1. CASE opens' = opens  BY <3>2, <4>1
      <4>2. CASE opens' = Append(opens, j)
        <5>1. /\ Len(opens') = Len(opens) + 1 /\ Len(opens) \in Nat
              /\ \A i \in 1 .. Len(opens) : opens'[i] = opens[i]
              /\ opens'[Len(opens) + 1] = j
          BY <1>0, <1>4, <4>2, Appended
        <5>2. \A i \in 1 .. Len(opens') : i \in 1 .. Len(opens) \/ opens'[i] = j  BY <5>1
        <5> QED  BY <3>1, <3>2, <5>1, <5>2
      <4> QED  BY <1>1, <4>1, <4>2
    <3> QED  BY <1>1, <2>0, <3>3 DEF Written
  <2>3. OwnArrive'  BY <1>1 DEF OwnArrive
  <2> QED  BY <2>1, <2>2, <2>3
<1>8. ASSUME failed = {}  PROVE AllArrive'
  <2> SUFFICES ASSUME NEW f \in Files  PROVE Arrives(opens', txs, idb[f], f, mem[ses][f])
    BY <1>1 DEF AllArrive
  <2>1. Arrives(opens, txs, idb[f], f, mem[ses][f])  BY <1>1, <1>8 DEF IInv, AllArrive
  <2>2. ~ Off(j, f, mem[ses][f])  BY <1>4 DEF Off
  <2>3. opens \in Seq(Jobs) /\ txs \in Seq(Jobs) /\ j \in Jobs  BY <1>0, <1>4
  <2>4. Arrives(Append(opens, j), txs, idb[f], f, mem[ses][f])
    BY <2>1, <2>2, <2>3, ArrivesAsked
  <2>5. opens' = opens \/ opens' = Append(opens, j)  BY <1>1
  <2> QED  BY <2>1, <2>4, <2>5
<1> QED  BY <1>1, <1>6, <1>7, <1>8 DEF IInv

-----------------------------------------------------------------------------
(* The next game.                                                          *)

LEMMA LoadIs ==
  ASSUME NEW s \in 1 .. MaxSessions
  PROVE  Load(s) \in Jobs /\ Load(s).kind = "load" /\ Load(s).ses = s
         /\ Load(s).file = "save" /\ Load(s).rest = {CONFIG}
BY FilesAre DEF Load, Job, Jobs

LEMMA EnterKeeps ==
  ASSUME IInv, Enter
  PROVE  IInv'
<1> USE PersistAssumption
<1>0. PersistTypeOK /\ ses \in 1 .. MaxSessions /\ opens \in Seq(Jobs) /\ txs \in Seq(Jobs)
  BY DEF IInv, PersistTypeOK
<1>1. /\ stage = "ended" /\ stage' = "loading" /\ ses' = ses + 1 /\ ses' \in 1 .. MaxSessions
      /\ dirty' = {} /\ warned' = FALSE /\ lastConfig' = Absent
      /\ UNCHANGED <<mem, idb, txs, faults, failed>>
  BY <1>0 DEF Enter
<1> DEFINE j == Load(ses')
<1>2. opens' = Append(opens, j)  BY DEF Enter
<1>3. j \in Jobs /\ j.kind = "load"  BY <1>1, LoadIs
<1> HIDE DEF j
<1>4. /\ opens' \in Seq(Jobs) /\ Len(opens') = Len(opens) + 1 /\ Len(opens) \in Nat
      /\ opens'[Len(opens) + 1] = j /\ \A i \in 1 .. Len(opens) : opens'[i] = opens[i]
  BY <1>0, <1>2, <1>3, Appended
<1>5. PersistTypeOK'  BY <1>0, <1>1, <1>4, FilesAre DEF PersistTypeOK
<1>6. opens' # <<>>  BY <1>4
<1>7. ASSUME "load" \notin failed  PROVE Queues' /\ Written' /\ OwnArrive'
  <2>0. Queues /\ Written  BY <1>7 DEF IInv
  <2>1. Queues'
    <3>1. opens'[Len(opens')] = Load(ses')  BY <1>4 DEF j
    <3>2. ses' - 1 = ses  BY <1>0, <1>1
    <3>3. /\ \A i \in 1 .. Len(opens) : Stores(opens[i], ses)
          /\ \A i \in 1 .. Len(txs) : Stores(txs[i], ses)
      BY <1>1, <2>0 DEF Queues
    <3>4. \A i \in 1 .. Len(opens') - 1 : Stores(opens'[i], ses' - 1)  BY <1>4, <3>2, <3>3
    <3>5. LoadOpens'  BY <1>1, <1>6, <3>1, <3>2, <3>3, <3>4 DEF LoadOpens
    <3> QED  BY <1>1, <3>5 DEF Queues
  <2>2. Written'
    <3>1. \A s \in 1 .. MaxSessions, f \in Files :
            mem[s][f][1] <= s /\ (s > ses' => mem[s][f] = Absent)
      BY <1>0, <1>1, <2>0 DEF Written
    <3>2. \A f \in Files : mem[ses'][f][1] < ses' /\ idb[f][1] <= ses' /\ idb[f][1] < ses'
      <4> TAKE f \in Files
      <4>1. mem[ses'][f] = Absent  BY <1>0, <1>1, <2>0 DEF Written
      <4>2. idb[f] \in Versions /\ idb[f][1] <= ses  BY <1>0, <2>0 DEF Written, PersistTypeOK
      <4>3. idb[f][1] \in Nat  BY <4>2 DEF Versions, Absent
      <4> QED  BY <1>0, <1>1, <4>1, <4>2, <4>3 DEF Absent
    <3>3. \A i \in 1 .. Len(opens') : opens'[i].kind # "load" => opens'[i].ver[1] <= opens'[i].ses
      <4>1. \A i \in 1 .. Len(opens') : i \in 1 .. Len(opens) \/ opens'[i] = j  BY <1>4
      <4>2. \A i \in 1 .. Len(opens) : opens[i].kind # "load" => opens[i].ver[1] <= opens[i].ses
        BY <2>0 DEF Written
      <4> QED  BY <1>3, <1>4, <4>1, <4>2
    <3> QED  BY <1>1, <2>0, <3>1, <3>2, <3>3 DEF Written
  <2>3. OwnArrive'  BY <1>1 DEF OwnArrive
  <2> QED  BY <2>1, <2>2, <2>3
<1>8. ASSUME failed = {}  PROVE AllArrive'
  <2>1. ~ LoadLast'  BY <1>6 DEF LoadLast
  <2>2. \A f \in Files : Arrives(opens', txs, idb[f], f, mem[ses][f])
    <3> TAKE f \in Files
    <3>1. Arrives(opens, txs, idb[f], f, mem[ses][f])  BY <1>1, <1>8 DEF IInv, AllArrive
    <3>2. ~ Off(j, f, mem[ses][f])  BY <1>3 DEF Off
    <3> QED  BY <1>0, <1>2, <1>3, <3>1, <3>2, ArrivesAsked
  <2>3. ses' - 1 = ses  BY <1>0, <1>1
  <2> QED  BY <1>1, <2>1, <2>2, <2>3 DEF AllArrive
<1> QED  BY <1>1, <1>5, <1>7, <1>8 DEF IInv

LEMMA CrashKeeps ==
  ASSUME IInv, Crash
  PROVE  IInv'
<1> USE PersistAssumption
<1>0. PersistTypeOK /\ ses \in 1 .. MaxSessions
  BY DEF IInv, PersistTypeOK
<1>1. /\ stage' = "loading" /\ ses' = ses + 1 /\ ses' \in 1 .. MaxSessions
      /\ dirty' = {} /\ warned' = FALSE /\ lastConfig' = Absent /\ txs' = <<>>
      /\ failed' = failed \cup {"crash"}
      /\ UNCHANGED <<mem, idb>>
  BY <1>0 DEF Crash
<1> DEFINE j == Load(ses')
<1>2. opens' = <<j>>  BY DEF Crash
<1>3. j \in Jobs /\ j.kind = "load"  BY <1>1, LoadIs
<1> HIDE DEF j
<1>4. /\ opens' \in Seq(Jobs) /\ Len(opens') = 1 /\ opens'[1] = j /\ opens' # <<>>
      /\ txs' \in Seq(Jobs) /\ Len(txs') = 0
  BY <1>1, <1>2, <1>3
<1>5. PersistTypeOK'  BY <1>0, <1>1, <1>4, FilesAre DEF PersistTypeOK
<1>7. ASSUME "load" \notin failed  PROVE Queues' /\ Written' /\ OwnArrive'
  <2>0. Queues /\ Written  BY <1>7 DEF IInv
  <2>1. Queues'
    <3>1. LoadOpens'  BY <1>1, <1>4 DEF LoadOpens, j
    <3> QED  BY <1>1, <3>1 DEF Queues
  <2>2. Written'
    <3>1. \A s \in 1 .. MaxSessions, f \in Files :
            mem[s][f][1] <= s /\ (s > ses' => mem[s][f] = Absent)
      BY <1>0, <1>1, <2>0 DEF Written
    <3>2. \A f \in Files : mem[ses'][f][1] < ses' /\ idb[f][1] <= ses' /\ idb[f][1] < ses'
      <4> TAKE f \in Files
      <4>1. mem[ses'][f] = Absent  BY <1>0, <1>1, <2>0 DEF Written
      <4>2. idb[f] \in Versions /\ idb[f][1] <= ses  BY <1>0, <2>0 DEF Written, PersistTypeOK
      <4>3. idb[f][1] \in Nat  BY <4>2 DEF Versions, Absent
      <4> QED  BY <1>0, <1>1, <4>1, <4>2, <4>3 DEF Absent
    <3>3. \A q \in {opens', txs'} : \A i \in 1 .. Len(q) : q[i].kind # "load" => q[i].ver[1] <= q[i].ses
      BY <1>3, <1>4
    <3> QED  BY <1>1, <3>1, <3>2, <3>3 DEF Written
  <2>3. OwnArrive'  BY <1>1 DEF OwnArrive
  <2> QED  BY <2>1, <2>2, <2>3
<1>8. failed' # {} /\ ("load" \notin failed' => "load" \notin failed)  BY <1>1
<1> QED  BY <1>1, <1>5, <1>7, <1>8 DEF IInv
-----------------------------------------------------------------------------
(* A connection is granted, a transaction ends, a request fails.           *)

LEMMA OpenedKeeps ==
  ASSUME IInv, Opened
  PROVE  IInv'
<1> USE PersistAssumption
<1>0. PersistTypeOK /\ ses \in 1 .. MaxSessions /\ opens \in Seq(Jobs) /\ txs \in Seq(Jobs)
  BY DEF IInv, PersistTypeOK
<1>1. /\ opens # <<>> /\ opens' = Tail(opens) /\ txs' = Append(txs, Head(opens))
      /\ UNCHANGED <<ses, stage, mem, dirty, warned, lastConfig, idb, faults, failed>>
  BY DEF Opened
<1>2. /\ opens' \in Seq(Jobs) /\ Len(opens') = Len(opens) - 1 /\ Len(opens) \in Nat /\ Len(opens) > 0
      /\ \A i \in 1 .. Len(opens) - 1 : opens'[i] = opens[i + 1]
      /\ Head(opens) = opens[1] /\ Head(opens) \in Jobs
  BY <1>0, <1>1, Beheaded
<1>3. /\ txs' \in Seq(Jobs) /\ Len(txs') = Len(txs) + 1 /\ Len(txs) \in Nat
      /\ txs'[Len(txs) + 1] = opens[1] /\ \A i \in 1 .. Len(txs) : txs'[i] = txs[i]
  BY <1>0, <1>1, <1>2, Appended
<1>4. PersistTypeOK'  BY <1>0, <1>1, <1>2, <1>3 DEF PersistTypeOK
<1>5. \A f \in Files : \A v : Arrives(opens, txs, idb[f], f, v) => Arrives(opens', txs', idb'[f], f, v)
  BY <1>0, <1>1, ArrivesOpened
<1>6. 1 \in 1 .. Len(opens) /\ \A i \in 1 .. Len(opens') : i + 1 \in 1 .. Len(opens) /\ opens'[i] = opens[i + 1]
  BY <1>2
<1>7. \A i \in 1 .. Len(txs') : i \in 1 .. Len(txs) \/ i = Len(txs) + 1  BY <1>3
<1>8. ASSUME "load" \notin failed  PROVE Queues' /\ Written' /\ OwnArrive'
  <2>0. Queues /\ Written /\ OwnArrive  BY <1>8 DEF IInv
  <2>1. Queues'
    <3>1. CASE stage = "loading"
      <4>1. LoadOpens  BY <1>1, <2>0, <3>1 DEF Queues, LoadFirst, LoadLast
      <4>2. CASE Len(opens) = 1
        <5>1. opens[1] = Load(ses) /\ opens' = <<>>  BY <1>2, <4>1, <4>2 DEF LoadOpens
        <5>2. txs'[Len(txs')].kind = "load" /\ txs'[Len(txs')].ses = ses
              /\ txs'[Len(txs')].file = "save" /\ txs'[Len(txs')].rest = {CONFIG}
          BY <1>0, <1>3, <5>1, LoadIs
        <5>3. \A i \in 1 .. Len(txs') - 1 : Stores(txs'[i], ses - 1)
          BY <1>3, <4>1 DEF LoadOpens
        <5>4. /\ Len(txs') \in 1 .. Len(txs')
              /\ \A i \in Len(txs') + 1 .. Len(txs') : LastRound(txs'[i], ses - 1)
          BY <1>3
        <5>5. LoadFirst'  BY <1>1, <5>1, <5>2, <5>3, <5>4 DEF LoadFirst
        <5> QED  BY <1>1, <3>1, <5>5 DEF Queues
      <4>3. CASE Len(opens) # 1
        <5>1. opens' # <<>> /\ opens'[Len(opens')] = Load(ses)
          BY <1>2, <4>1, <4>3 DEF LoadOpens
        <5>2. \A i \in 1 .. Len(opens') - 1 : Stores(opens'[i], ses - 1)
          <6> TAKE i \in 1 .. Len(opens') - 1
          <6>1. i + 1 \in 1 .. Len(opens) - 1 /\ opens'[i] = opens[i + 1]  BY <1>2
          <6> QED  BY <4>1, <6>1 DEF LoadOpens
        <5>3. \A i \in 1 .. Len(txs') : Stores(txs'[i], ses - 1)
          <6>1. 1 \in 1 .. Len(opens) - 1  BY <1>2, <4>3
          <6> QED  BY <1>3, <1>7, <4>1, <6>1 DEF LoadOpens
        <5>4. LoadOpens'  BY <1>1, <5>1, <5>2, <5>3 DEF LoadOpens
        <5> QED  BY <1>1, <3>1, <5>4 DEF Queues
      <4> QED  BY <4>2, <4>3
    <3>2. CASE stage # "loading"
      <4>1. \A q \in {opens, txs} : \A i \in 1 .. Len(q) :
              Stores(q[i], ses) /\ (stage = "running" => q[i].kind # "flush")
        BY <2>0, <3>2 DEF Queues
      <4>2. \A i \in 1 .. Len(opens') :
              Stores(opens'[i], ses) /\ (stage = "running" => opens'[i].kind # "flush")
        BY <1>6, <4>1
      <4>3. \A i \in 1 .. Len(txs') :
              Stores(txs'[i], ses) /\ (stage = "running" => txs'[i].kind # "flush")
        BY <1>3, <1>6, <1>7, <4>1
      <4> QED  BY <1>1, <3>2, <4>2, <4>3 DEF Queues
    <3> QED  BY <3>1, <3>2
  <2>2. Written'
    <3>1. \A q \in {opens, txs} : \A i \in 1 .. Len(q) : q[i].kind # "load" => q[i].ver[1] <= q[i].ses
      BY <2>0 DEF Written
    <3>2. \A i \in 1 .. Len(opens') : opens'[i].kind # "load" => opens'[i].ver[1] <= opens'[i].ses
      BY <1>6, <3>1
    <3>3. \A i \in 1 .. Len(txs') : txs'[i].kind # "load" => txs'[i].ver[1] <= txs'[i].ses
      BY <1>3, <1>6, <1>7, <3>1
    <3> QED  BY <1>1, <2>0, <3>2, <3>3 DEF Written
  <2>3. OwnArrive'  BY <1>1, <1>5, <2>0 DEF OwnArrive
  <2> QED  BY <2>1, <2>2, <2>3
<1>9. ASSUME failed = {}  PROVE AllArrive'
  <2>0. AllArrive /\ Queues  BY <1>9 DEF IInv
  <2>1. CASE stage # "loading"  BY <1>1, <1>5, <2>0, <2>1 DEF AllArrive
  <2>2. CASE stage = "loading"
    <3>1. ~ LoadLast'
      <4>1. LoadOpens  BY <1>1, <2>0, <2>2 DEF Queues, LoadFirst, LoadLast
      <4>2. CASE Len(opens) = 1
        <5>1. opens[1].file = "save"  BY <1>0, <4>1, <4>2, LoadIs DEF LoadOpens
        <5>2. txs'[Len(txs')].file # CONFIG  BY <1>3, <5>1, FilesAre
        <5> QED  BY <5>2 DEF LoadLast
      <4>3. CASE Len(opens) # 1
        <5>1. opens' # <<>>  BY <1>2, <4>3
        <5> QED  BY <5>1 DEF LoadLast
      <4> QED  BY <4>2, <4>3
    <3> QED  BY <1>1, <1>5, <2>0, <2>2, <3>1 DEF AllArrive
  <2> QED  BY <2>1, <2>2
<1> QED  BY <1>1, <1>4, <1>8, <1>9 DEF IInv

\* A request that fails, and its job with it.
LEMMA FailedKeeps ==
  ASSUME IInv, OpenFails \/ TxFails
  PROVE  IInv'
<1> USE PersistAssumption
<1>0. PersistTypeOK /\ ses \in 1 .. MaxSessions /\ opens \in Seq(Jobs) /\ txs \in Seq(Jobs)
  BY DEF IInv, PersistTypeOK
<1>1. PICK j \in Jobs :
        /\ Failed(j)
        /\ \/ opens # <<>> /\ j = Head(opens) /\ opens' = Tail(opens) /\ txs' = txs
           \/ txs # <<>> /\ j = Head(txs) /\ txs' = Tail(txs) /\ opens' = opens
  <2>1. CASE OpenFails
    <3>1. opens # <<>> /\ Failed(Head(opens)) /\ opens' = Tail(opens) /\ txs' = txs
      BY <2>1 DEF OpenFails
    <3> HIDE DEF Failed
    <3> QED  BY <1>0, <3>1, Beheaded
  <2>2. CASE TxFails
    <3>1. txs # <<>> /\ Failed(Head(txs)) /\ txs' = Tail(txs) /\ opens' = opens
      BY <2>2 DEF TxFails
    <3> QED  BY <1>0, <3>1, Beheaded
  <2> QED  BY <2>1, <2>2
<1>2. /\ failed' = failed \cup {j.kind} /\ warned' = (warned \/ (j.kind \in {"write", "sync"} /\ j.ses = ses))
      /\ stage' = IF j.kind = "load" THEN "running" ELSE stage
      /\ UNCHANGED <<ses, mem, dirty, lastConfig, idb>>
  BY <1>1 DEF Failed
<1>3. /\ opens' \in Seq(Jobs) /\ txs' \in Seq(Jobs)
  BY <1>0, <1>1, Beheaded
<1>4. PersistTypeOK'
  <2>1. warned' \in BOOLEAN  BY <1>2
  <2>2. stage' \in {"loading", "running", "ended"}  BY <1>0, <1>2 DEF PersistTypeOK
  <2> QED  BY <1>0, <1>2, <1>3, <2>1, <2>2 DEF PersistTypeOK
<1>5. ASSUME "load" \notin failed'  PROVE Queues' /\ Written' /\ OwnArrive'
  <2>0. Queues /\ Written /\ j.kind # "load" /\ stage' = stage
    BY <1>2, <1>5 DEF IInv
  <2>2. /\ \/ opens' = opens
           \/ /\ Len(opens) \in Nat /\ Len(opens) > 0 /\ Len(opens') = Len(opens) - 1 /\ j = opens[1]
              /\ \A i \in 1 .. Len(opens) - 1 : opens'[i] = opens[i + 1]
        /\ \/ txs' = txs
           \/ /\ Len(txs) \in Nat /\ Len(txs) > 0 /\ Len(txs') = Len(txs) - 1 /\ j = txs[1]
              /\ \A i \in 1 .. Len(txs) - 1 : txs'[i] = txs[i + 1]
    BY <1>0, <1>1, Beheaded
  <2>3. \A i \in 1 .. Len(opens') : \E k \in 1 .. Len(opens) : opens'[i] = opens[k]
    <3> TAKE i \in 1 .. Len(opens')
    <3>1. CASE opens' = opens  BY <3>1
    <3>2. CASE opens' # opens
      <4>1. i + 1 \in 1 .. Len(opens) /\ opens'[i] = opens[i + 1]  BY <2>2, <3>2
      <4> QED  BY <4>1
    <3> QED  BY <3>1, <3>2
  <2>4. \A i \in 1 .. Len(txs') : \E k \in 1 .. Len(txs) : txs'[i] = txs[k]
    <3> TAKE i \in 1 .. Len(txs')
    <3>1. CASE txs' = txs  BY <3>1
    <3>2. CASE txs' # txs
      <4>1. i + 1 \in 1 .. Len(txs) /\ txs'[i] = txs[i + 1]  BY <2>2, <3>2
      <4> QED  BY <4>1
    <3> QED  BY <3>1, <3>2
  <2>5. Queues'
    <3>1. CASE stage # "loading"
      <4>1. \A q \in {opens, txs} : \A i \in 1 .. Len(q) :
              Stores(q[i], ses) /\ (stage = "running" => q[i].kind # "flush")
        BY <2>0, <3>1 DEF Queues
      <4>2. \A i \in 1 .. Len(opens') :
              Stores(opens'[i], ses) /\ (stage = "running" => opens'[i].kind # "flush")
        BY <2>3, <4>1
      <4>3. \A i \in 1 .. Len(txs') :
              Stores(txs'[i], ses) /\ (stage = "running" => txs'[i].kind # "flush")
        BY <2>4, <4>1
      <4> QED  BY <1>2, <2>0, <3>1, <4>2, <4>3 DEF Queues
    <3>2. CASE stage = "loading" /\ LoadOpens
      <4>1. opens'[Len(opens')] = Load(ses) /\ opens' # <<>>
        <5>1. CASE opens' = opens  BY <3>2, <5>1 DEF LoadOpens
        <5>2. CASE opens' # opens
          <6>1. Len(opens) # 1
            <7>1. Load(ses).kind = "load"  BY <1>0, LoadIs
            <7> QED  BY <2>0, <2>2, <3>2, <5>2, <7>1 DEF LoadOpens
          <6>2. /\ Len(opens) \in Nat /\ Len(opens) > 0 /\ Len(opens') = Len(opens) - 1
                /\ \A i \in 1 .. Len(opens) - 1 : opens'[i] = opens[i + 1]
            BY <2>2, <5>2
          <6>3. Len(opens') \in 1 .. Len(opens) - 1 /\ Len(opens') + 1 = Len(opens)  BY <6>1, <6>2
          <6>4. opens'[Len(opens')] = opens[Len(opens)]  BY <6>2, <6>3
          <6>5. opens' # <<>>  BY <6>3
          <6> QED  BY <3>2, <6>4, <6>5 DEF LoadOpens
        <5> QED  BY <5>1, <5>2
      <4>2. \A i \in 1 .. Len(opens') - 1 : Stores(opens'[i], ses - 1)
        <5> TAKE i \in 1 .. Len(opens') - 1
        <5>1. CASE opens' = opens  BY <3>2, <5>1 DEF LoadOpens
        <5>2. CASE opens' # opens
          <6>1. i + 1 \in 1 .. Len(opens) - 1 /\ opens'[i] = opens[i + 1]  BY <2>2, <5>2
          <6> QED  BY <3>2, <6>1 DEF LoadOpens
        <5> QED  BY <5>1, <5>2
      <4>3. \A i \in 1 .. Len(txs') : Stores(txs'[i], ses - 1)  BY <2>4, <3>2 DEF LoadOpens
      <4>4. LoadOpens'  BY <1>2, <4>1, <4>2, <4>3 DEF LoadOpens
      <4> QED  BY <2>0, <3>2, <4>4 DEF Queues
    <3>3. CASE stage = "loading" /\ LoadFirst
      <4>1. PICK n \in 1 .. Len(txs) :
              /\ txs[n].kind = "load" /\ txs[n].ses = ses
              /\ txs[n].file = "save" /\ txs[n].rest = {CONFIG}
              /\ \A i \in 1 .. n - 1 : Stores(txs[i], ses - 1)
              /\ \A i \in n + 1 .. Len(txs) : LastRound(txs[i], ses - 1)
        BY <3>3 DEF LoadFirst
      <4>2. opens = <<>> /\ opens' = <<>> /\ txs # <<>> /\ txs' = Tail(txs) /\ j = Head(txs)
        BY <1>1, <3>3 DEF LoadFirst
      <4>3. /\ Len(txs) \in Nat /\ Len(txs) > 0 /\ Len(txs') = Len(txs) - 1 /\ j = txs[1]
            /\ \A i \in 1 .. Len(txs) - 1 : txs'[i] = txs[i + 1]
        BY <1>0, <4>2, Beheaded
      <4>4. n # 1  BY <2>0, <4>1, <4>3
      <4>5. n - 1 \in 1 .. Len(txs') /\ txs'[n - 1] = txs[n]  BY <4>3, <4>4
      <4>6. \A i \in 1 .. (n - 1) - 1 : Stores(txs'[i], ses - 1)
        <5> TAKE i \in 1 .. (n - 1) - 1
        <5>1. i + 1 \in 1 .. n - 1 /\ txs'[i] = txs[i + 1]  BY <4>3
        <5> QED  BY <4>1, <5>1
      <4>7. \A i \in (n - 1) + 1 .. Len(txs') : LastRound(txs'[i], ses - 1)
        <5> TAKE i \in (n - 1) + 1 .. Len(txs')
        <5>1. i + 1 \in n + 1 .. Len(txs) /\ txs'[i] = txs[i + 1]  BY <4>3
        <5> QED  BY <4>1, <5>1
      <4>8. LoadFirst'  BY <1>2, <4>1, <4>2, <4>5, <4>6, <4>7 DEF LoadFirst
      <4> QED  BY <2>0, <3>3, <4>8 DEF Queues
    <3>4. CASE stage = "loading" /\ LoadLast
      <4>1. opens = <<>> /\ opens' = <<>> /\ txs # <<>> /\ txs' = Tail(txs) /\ j = Head(txs)
        BY <1>1, <3>4 DEF LoadLast
      <4>2. /\ Len(txs) \in Nat /\ Len(txs) > 0 /\ Len(txs') = Len(txs) - 1 /\ j = txs[1]
            /\ \A i \in 1 .. Len(txs) - 1 : txs'[i] = txs[i + 1]
        BY <1>0, <4>1, Beheaded
      <4>3. Len(txs) # 1  BY <2>0, <3>4, <4>2 DEF LoadLast
      <4>4. txs'[Len(txs')] = txs[Len(txs)]  BY <4>2, <4>3
      <4>5. \A i \in 1 .. Len(txs') - 1 : LastRound(txs'[i], ses - 1)
        <5> TAKE i \in 1 .. Len(txs') - 1
        <5>1. i + 1 \in 1 .. Len(txs) - 1 /\ txs'[i] = txs[i + 1]  BY <4>2
        <5> QED  BY <3>4, <5>1 DEF LoadLast
      <4>6. LoadLast'  BY <1>2, <3>4, <4>1, <4>2, <4>3, <4>4, <4>5 DEF LoadLast
      <4> QED  BY <2>0, <3>4, <4>6 DEF Queues
    <3> QED  BY <2>0, <3>1, <3>2, <3>3, <3>4 DEF Queues
  <2>6. Written'
    <3>1. \A q \in {opens, txs} : \A i \in 1 .. Len(q) : q[i].kind # "load" => q[i].ver[1] <= q[i].ses
      BY <2>0 DEF Written
    <3>2. \A i \in 1 .. Len(opens') : opens'[i].kind # "load" => opens'[i].ver[1] <= opens'[i].ses
      BY <2>3, <3>1
    <3>3. \A i \in 1 .. Len(txs') : txs'[i].kind # "load" => txs'[i].ver[1] <= txs'[i].ses
      BY <2>4, <3>1
    <3> QED  BY <1>2, <2>0, <3>2, <3>3 DEF Written
  <2>7. OwnArrive'
    <3> SUFFICES ASSUME stage = "running"  PROVE warned'
      BY <2>0 DEF OwnArrive
    <3>1. j.kind # "flush" /\ j.ses = ses
      <4>1. \A q \in {opens, txs} : \A i \in 1 .. Len(q) : Stores(q[i], ses) /\ q[i].kind # "flush"
        BY <2>0 DEF Queues
      <4>2. \E q \in {opens, txs} : \E i \in 1 .. Len(q) : j = q[i]
        BY <1>0, <1>1, Beheaded
      <4> QED  BY <4>1, <4>2 DEF Stores
    <3>2. j.kind \in {"write", "sync"}  BY <2>0, <3>1 DEF Jobs
    <3> QED  BY <1>2, <3>1, <3>2
  <2> QED  BY <2>5, <2>6, <2>7
<1>6. failed' # {}  BY <1>2
<1> QED  BY <1>4, <1>5, <1>6 DEF IInv
\* A transaction of what is not a load ends: a file is stored, and the job goes on
\* to the other one if it was to write both.
LEMMA PutKeeps ==
  ASSUME IInv, Done, Head(txs).kind # "load"
  PROVE  IInv'
<1> USE PersistAssumption
<1> DEFINE j == Head(txs)
<1>0. PersistTypeOK /\ ses \in 1 .. MaxSessions /\ opens \in Seq(Jobs) /\ txs \in Seq(Jobs)
  BY DEF IInv, PersistTypeOK
<1>1. /\ txs # <<>> /\ PutFile(j) /\ GoesOn(j) /\ UNCHANGED <<ses, warned, opens, faults, failed>>
  BY DEF Done
<1>2. /\ idb' = [idb EXCEPT ![j.file] = j.ver] /\ UNCHANGED <<stage, mem>>
      /\ (dirty' = dirty \ {j.file} \/ dirty' = dirty)
      /\ (lastConfig' = j.ver \/ lastConfig' = lastConfig)
  BY <1>1 DEF PutFile
<1> DEFINE r == Tail(txs)
<1>3. /\ r \in Seq(Jobs) /\ Len(r) = Len(txs) - 1 /\ Len(txs) \in Nat /\ Len(txs) > 0
      /\ \A i \in 1 .. Len(txs) - 1 : r[i] = txs[i + 1]
      /\ j = txs[1] /\ j \in Jobs
  BY <1>0, <1>1, Beheaded
<1>4. /\ j.kind # "load" /\ j.ses \in 1 .. MaxSessions /\ j.file \in Files /\ j.ver \in Versions
      /\ j.rest \subseteq Files
  BY <1>3 DEF Jobs
<1>5. \/ j.rest = {} /\ txs' = r
      \/ \E f \in j.rest :
           txs' = Append(r, [j EXCEPT !.file = f, !.ver = mem[j.ses][f], !.rest = @ \ {f}])
  BY <1>1 DEF GoesOn
<1> HIDE DEF r
<1> DEFINE Rest(f, k) == /\ k \in Jobs /\ k.kind = j.kind /\ k.ses = j.ses /\ k.file = f
                         /\ k.ver = mem[j.ses][f] /\ k.rest = j.rest \ {f}
                         /\ f \in j.rest
<1>6. txs' = r \/ \E f \in Files, k \in Jobs : Rest(f, k) /\ txs' = Append(r, k)
  <2>1. CASE txs' = r  BY <2>1
  <2>2. CASE txs' # r
    <3>1. PICK f \in j.rest :
            txs' = Append(r, [j EXCEPT !.file = f, !.ver = mem[j.ses][f], !.rest = @ \ {f}])
      BY <1>5, <2>2
    <3> DEFINE k == [j EXCEPT !.file = f, !.ver = mem[j.ses][f], !.rest = @ \ {f}]
    <3>2. f \in Files /\ mem[j.ses][f] \in Versions  BY <1>0, <1>4, <3>1 DEF PersistTypeOK
    <3>3. /\ k.kind = j.kind /\ k.ses = j.ses /\ k.file = f
          /\ k.ver = mem[j.ses][f] /\ k.rest = j.rest \ {f}
      BY <1>3 DEF Jobs
    <3>4. k \in Jobs  BY <1>3, <1>4, <3>2 DEF Jobs
    <3> HIDE DEF k
    <3>5. Rest(f, k)  BY <3>1, <3>3, <3>4
    <3> HIDE DEF Rest
    <3>6. txs' = Append(r, k)  BY <3>1 DEF k
    <3> QED  BY <3>2, <3>4, <3>5, <3>6
  <2> QED  BY <2>1, <2>2
<1>7. txs' \in Seq(Jobs)
  <2>1. CASE txs' = r  BY <1>3, <2>1
  <2>2. CASE txs' # r
    <3>1. PICK f \in Files, k \in Jobs : txs' = Append(r, k)  BY <1>6, <2>2
    <3> QED  BY <1>3, <3>1, Appended
  <2> QED  BY <2>1, <2>2
<1>8. PersistTypeOK'
  <2>1. idb' \in [Files -> Versions]  BY <1>0, <1>2, <1>4 DEF PersistTypeOK
  <2>2. dirty' \subseteq Files /\ lastConfig' \in Versions  BY <1>0, <1>2, <1>4 DEF PersistTypeOK
  <2> QED  BY <1>0, <1>1, <1>2, <1>7, <2>1, <2>2 DEF PersistTypeOK
\* What was to be stored of a file, of the game the job is of, still is.
<1>9. \A g \in Files : Arrives(opens, txs, idb[g], g, mem[j.ses][g]) =>
                       Arrives(opens', txs', idb'[g], g, mem'[j.ses][g])
  <2> SUFFICES ASSUME NEW g \in Files, Arrives(opens, txs, idb[g], g, mem[j.ses][g])
               PROVE  Arrives(opens, txs', idb'[g], g, mem[j.ses][g])
    BY <1>1, <1>2
  <2>1. idb'[g] = IF j.kind # "load" /\ j.file = g THEN j.ver ELSE idb[g]
    BY <1>0, <1>2, <1>4 DEF PersistTypeOK
  <2>2. Arrives(opens, r, idb'[g], g, mem[j.ses][g])
    BY <1>0, <1>1, <2>1, ArrivesDone DEF r
  <2>3. CASE txs' = r  BY <2>2, <2>3
  <2>4. CASE txs' # r
    <3>1. PICK f \in Files, k \in Jobs : Rest(f, k) /\ txs' = Append(r, k)  BY <1>6, <2>4
    <3>2. ~ Off(k, g, mem[j.ses][g])  BY <3>1 DEF Off
    <3> QED  BY <1>0, <1>3, <2>2, <3>1, <3>2, ArrivesGoesOn
  <2> QED  BY <2>3, <2>4
<1>10. \A i \in 1 .. Len(r) : i + 1 \in 1 .. Len(txs) /\ r[i] = txs[i + 1]
  <2> TAKE i \in 1 .. Len(r)
  <2>1. Len(txs) \in Nat /\ Len(r) = Len(txs) - 1  BY <1>3
  <2>2. i \in 1 .. Len(txs) - 1  BY <2>1
  <2>3. i + 1 \in 1 .. Len(txs)  BY <2>1, <2>2
  <2>4. r[i] = txs[i + 1]  BY <1>3, <2>2
  <2> QED  BY <2>3, <2>4
<1>11. 1 \in 1 .. Len(txs)  BY <1>3
\* The queue: what is left, and perhaps the job's last round.
<1>12. ASSUME NEW s, Stores(j, s)
       PROVE  /\ \A f, k : Rest(f, k) => LastRound(k, s) /\ k.kind = j.kind
              /\ \/ txs' = r
                 \/ /\ Len(txs') = Len(r) + 1 /\ Len(r) \in Nat
                    /\ \A i \in 1 .. Len(r) : txs'[i] = r[i]
                    /\ LastRound(txs'[Len(r) + 1], s) /\ txs'[Len(r) + 1].kind = j.kind
                    /\ j.rest # {}
  <2>1. ASSUME NEW f, NEW k, Rest(f, k)  PROVE LastRound(k, s) /\ k.kind = j.kind /\ j.rest # {}
    <3>1. j.file \notin j.rest /\ j.ses = s /\ j.kind # "load" /\ (j.kind = "write" => j.rest = {})
      BY <1>12 DEF Stores
    <3>2. j.rest = {f}  BY <1>4, <2>1, <3>1 DEF Files
    <3> HIDE DEF j
    <3> QED  BY <2>1, <3>1, <3>2 DEF LastRound, Stores
  <2>2. CASE txs' = r  BY <2>1, <2>2
  <2>3. CASE txs' # r
    <3>1. PICK f \in Files, k \in Jobs : Rest(f, k) /\ txs' = Append(r, k)  BY <1>6, <2>3
    <3>2. LastRound(k, s) /\ k.kind = j.kind /\ j.rest # {}  BY <2>1, <3>1
    <3>3. /\ Len(txs') = Len(r) + 1 /\ Len(r) \in Nat /\ txs'[Len(r) + 1] = k
          /\ \A i \in 1 .. Len(r) : txs'[i] = r[i]
      BY <1>3, <3>1, Appended
    <3> QED  BY <2>1, <3>2, <3>3
  <2> QED  BY <2>2, <2>3
<1> HIDE DEF Rest
<1>13. ASSUME "load" \notin failed, stage # "loading"
       PROVE  Queues' /\ OwnArrive' /\ j.ses = ses
  <2>0. Queues /\ OwnArrive  BY <1>13 DEF IInv
  <2>1. /\ \A i \in 1 .. Len(txs) : Stores(txs[i], ses) /\ (stage = "running" => txs[i].kind # "flush")
        /\ \A i \in 1 .. Len(opens) : Stores(opens[i], ses) /\ (stage = "running" => opens[i].kind # "flush")
    BY <1>13, <2>0 DEF Queues
  <2>2. Stores(j, ses) /\ (stage = "running" => j.kind # "flush") /\ j.ses = ses
    <3>1. Stores(txs[1], ses) /\ (stage = "running" => txs[1].kind # "flush")  BY <1>11, <2>1
    <3> QED  BY <1>3, <3>1 DEF Stores
  <2>3. \/ txs' = r
        \/ /\ Len(txs') = Len(r) + 1 /\ Len(r) \in Nat
           /\ \A i \in 1 .. Len(r) : txs'[i] = r[i]
           /\ LastRound(txs'[Len(r) + 1], ses) /\ txs'[Len(r) + 1].kind = j.kind
    BY <1>12, <2>2
  <2>4. \A i \in 1 .. Len(r) : Stores(r[i], ses) /\ (stage = "running" => r[i].kind # "flush")
    BY <1>10, <2>1
  <2>5. \A i \in 1 .. Len(txs') : Stores(txs'[i], ses) /\ (stage = "running" => txs'[i].kind # "flush")
    <3>1. CASE txs' = r  BY <2>4, <3>1
    <3>2. CASE txs' # r
      <4>1. \A i \in 1 .. Len(txs') : i \in 1 .. Len(r) \/ i = Len(r) + 1  BY <2>3, <3>2
      <4> QED  BY <2>2, <2>3, <2>4, <3>2, <4>1 DEF LastRound
    <3> QED  BY <3>1, <3>2
  <2>6. Queues'  BY <1>1, <1>2, <1>13, <2>1, <2>5 DEF Queues
  <2>7. OwnArrive'  BY <1>1, <1>2, <1>9, <2>0, <2>2 DEF OwnArrive
  <2> QED  BY <2>2, <2>6, <2>7
<1>14. ASSUME "load" \notin failed, stage = "loading"
       PROVE  Queues' /\ j.ses = ses - 1 /\ (LoadLast' => LoadLast)
  <2>0. Queues  BY <1>14 DEF IInv
  <2>1. CASE LoadOpens
    <3>1. Stores(j, ses - 1)  BY <1>3, <1>11, <2>1 DEF LoadOpens
    <3>2. \A i \in 1 .. Len(r) : Stores(r[i], ses - 1)  BY <1>10, <2>1 DEF LoadOpens
    <3>3. \A i \in 1 .. Len(txs') : Stores(txs'[i], ses - 1)
      <4>1. CASE txs' = r  BY <3>2, <4>1
      <4>2. CASE txs' # r
        <5>1. /\ Len(txs') = Len(r) + 1 /\ Len(r) \in Nat
              /\ \A i \in 1 .. Len(r) : txs'[i] = r[i]
              /\ LastRound(txs'[Len(r) + 1], ses - 1)
          BY <1>12, <3>1, <4>2
        <5>2. \A i \in 1 .. Len(txs') : i \in 1 .. Len(r) \/ i = Len(r) + 1  BY <5>1
        <5> QED  BY <3>2, <5>1, <5>2 DEF LastRound
      <4> QED  BY <4>1, <4>2
    <3>4. LoadOpens' /\ ~ LoadLast'  BY <1>1, <2>1, <3>3 DEF LoadOpens, LoadLast
    <3> QED  BY <1>1, <1>2, <1>14, <3>1, <3>4 DEF Queues, Stores
  <2>2. CASE LoadFirst
    <3>1. PICK n \in 1 .. Len(txs) :
            /\ txs[n].kind = "load" /\ txs[n].ses = ses
            /\ txs[n].file = "save" /\ txs[n].rest = {CONFIG}
            /\ \A i \in 1 .. n - 1 : Stores(txs[i], ses - 1)
            /\ \A i \in n + 1 .. Len(txs) : LastRound(txs[i], ses - 1)
      BY <2>2 DEF LoadFirst
    <3>2. n # 1 /\ Stores(j, ses - 1)
      <4>1. n # 1  BY <1>3, <1>4, <3>1
      <4>2. 1 \in 1 .. n - 1  BY <4>1
      <4> QED  BY <1>3, <3>1, <4>1, <4>2
    <3>3. n - 1 \in 1 .. Len(r) /\ r[n - 1] = txs[n]
      <4>1. n - 1 \in 1 .. Len(r)  BY <1>3, <3>2
      <4> QED  BY <1>10, <4>1
    <3>4. \A i \in 1 .. (n - 1) - 1 : Stores(r[i], ses - 1)
      <4> TAKE i \in 1 .. (n - 1) - 1
      <4>1. i + 1 \in 1 .. n - 1 /\ i \in 1 .. Len(r)  BY <1>3
      <4> QED  BY <1>10, <3>1, <4>1
    <3>5. \A i \in (n - 1) + 1 .. Len(r) : LastRound(r[i], ses - 1)
      <4> TAKE i \in (n - 1) + 1 .. Len(r)
      <4>1. i + 1 \in n + 1 .. Len(txs) /\ i \in 1 .. Len(r)  BY <1>3, <3>2
      <4> QED  BY <1>10, <3>1, <4>1
    <3>6. /\ n - 1 \in 1 .. Len(txs') /\ txs'[n - 1] = txs[n]
          /\ \A i \in 1 .. (n - 1) - 1 : Stores(txs'[i], ses - 1)
          /\ \A i \in (n - 1) + 1 .. Len(txs') : LastRound(txs'[i], ses - 1)
      <4>1. CASE txs' = r  BY <3>3, <3>4, <3>5, <4>1
      <4>2. CASE txs' # r
        <5>1. /\ Len(txs') = Len(r) + 1 /\ Len(r) \in Nat
              /\ \A i \in 1 .. Len(r) : txs'[i] = r[i]
              /\ LastRound(txs'[Len(r) + 1], ses - 1)
          BY <1>12, <3>2, <4>2
        <5>2. n - 1 \in 1 .. Len(txs') /\ txs'[n - 1] = txs[n]  BY <3>3, <5>1
        <5>3. \A i \in 1 .. (n - 1) - 1 : i \in 1 .. Len(r)  BY <3>3, <5>1
        <5>4. \A i \in (n - 1) + 1 .. Len(txs') :
                i = Len(r) + 1 \/ (i \in 1 .. Len(r) /\ i \in (n - 1) + 1 .. Len(r))
          BY <3>3, <5>1
        <5> QED  BY <3>4, <3>5, <5>1, <5>2, <5>3, <5>4
      <4> QED  BY <4>1, <4>2
    <3>7. LoadFirst'  BY <1>1, <2>2, <3>1, <3>6 DEF LoadFirst
    <3>8. ~ LoadLast'
      <4>1. CASE Len(txs') = n - 1
        <5>1. txs'[Len(txs')].file # CONFIG  BY <3>1, <3>6, <4>1, FilesAre
        <5> QED  BY <5>1 DEF LoadLast
      <4>2. CASE Len(txs') # n - 1
        <5>1. Len(txs') \in (n - 1) + 1 .. Len(txs')  BY <1>7, <3>6, <4>2
        <5> QED  BY <3>6, <5>1 DEF LoadLast, LastRound, Stores
      <4> QED  BY <4>1, <4>2
    <3> QED  BY <1>1, <1>2, <1>14, <3>2, <3>7, <3>8 DEF Queues, Stores
  <2>3. CASE LoadLast
    <3>1. Len(txs) # 1  BY <1>3, <1>4, <2>3 DEF LoadLast
    <3>2. LastRound(j, ses - 1)
      <4>1. 1 \in 1 .. Len(txs) - 1  BY <1>3, <3>1
      <4> QED  BY <1>3, <2>3, <4>1 DEF LoadLast
    <3>3. txs' = r  BY <1>12, <3>2 DEF LastRound
    <3>4. Len(r) \in 1 .. Len(r) /\ Len(r) + 1 = Len(txs)  BY <1>3, <3>1
    <3>5. txs'[Len(txs')] = txs[Len(txs)]  BY <1>10, <3>3, <3>4
    <3>6. \A i \in 1 .. Len(txs') - 1 : LastRound(txs'[i], ses - 1)
      <4> TAKE i \in 1 .. Len(txs') - 1
      <4>1. i + 1 \in 1 .. Len(txs) - 1 /\ i \in 1 .. Len(r)  BY <1>3, <3>3
      <4> QED  BY <1>10, <2>3, <3>3, <4>1 DEF LoadLast
    <3>7. LoadLast'  BY <1>1, <2>3, <3>3, <3>4, <3>5, <3>6 DEF LoadLast
    <3> QED  BY <1>1, <1>2, <1>14, <2>3, <3>2, <3>7 DEF Queues, LastRound, Stores
  <2> QED  BY <1>14, <2>0, <2>1, <2>2, <2>3 DEF Queues
<1>15. ASSUME "load" \notin failed  PROVE Written'
  <2>0. Written  BY <1>15 DEF IInv
  <2>1. \A i \in 1 .. Len(txs') : txs'[i].kind # "load" => txs'[i].ver[1] <= txs'[i].ses
    <3>1. \A i \in 1 .. Len(r) : r[i].kind # "load" => r[i].ver[1] <= r[i].ses
      BY <1>10, <2>0 DEF Written
    <3>2. CASE txs' = r  BY <3>1, <3>2
    <3>3. CASE txs' # r
      <4>1. PICK f \in Files, k \in Jobs : Rest(f, k) /\ txs' = Append(r, k)  BY <1>6, <3>3
      <4>2. k.ver[1] <= k.ses  BY <1>4, <2>0, <4>1 DEF Rest, Written
      <4>3. /\ Len(txs') = Len(r) + 1 /\ Len(r) \in Nat /\ txs'[Len(r) + 1] = k
            /\ \A i \in 1 .. Len(r) : txs'[i] = r[i]
        BY <1>3, <4>1, Appended
      <4>4. \A i \in 1 .. Len(txs') : i \in 1 .. Len(r) \/ i = Len(r) + 1  BY <4>3
      <4> QED  BY <3>1, <4>2, <4>3, <4>4
    <3> QED  BY <3>2, <3>3
  <2>2. j.ver[1] <= ses /\ (stage = "loading" => j.ver[1] < ses)
    <3>1. j.ver[1] <= j.ses  BY <1>3, <1>4, <1>11, <2>0 DEF Written
    <3>2. j.ver[1] \in Nat  BY <1>4 DEF Versions, Absent
    <3> QED  BY <1>0, <1>13, <1>14, <1>15, <3>1, <3>2
  <2>3. \A f \in Files : idb'[f][1] <= ses /\ (stage = "loading" => idb'[f][1] < ses)
    <3> TAKE f \in Files
    <3>1. idb'[f] = j.ver \/ idb'[f] = idb[f]  BY <1>0, <1>2 DEF PersistTypeOK
    <3> QED  BY <2>0, <2>2, <3>1 DEF Written
  <2> QED  BY <1>1, <1>2, <2>0, <2>1, <2>3 DEF Written
<1>16. ASSUME "load" \notin failed  PROVE OwnArrive'
  BY <1>2, <1>13, <1>16 DEF OwnArrive
<1>17. ASSUME failed = {}  PROVE AllArrive'
  <2>0. AllArrive  BY <1>17 DEF IInv
  <2>1. CASE stage # "loading"  BY <1>1, <1>2, <1>9, <1>13, <1>17, <2>0, <2>1 DEF AllArrive
  <2>2. CASE stage = "loading"  BY <1>1, <1>2, <1>9, <1>14, <1>17, <2>0, <2>2 DEF AllArrive
  <2> QED  BY <2>1, <2>2
<1> QED  BY <1>1, <1>8, <1>13, <1>14, <1>15, <1>16, <1>17 DEF IInv
\* A load that ends a round: its game is the one that loads, nothing waits for a
\* connection, and no write-through is behind it.
LEMMA LoadsAlone ==
  ASSUME IInv, Done, Head(txs).kind = "load", "load" \notin failed
  PROVE  /\ stage = "loading" /\ Head(txs).ses = ses /\ opens = <<>>
         /\ \A i \in 1 .. Len(Tail(txs)) : LastRound(Tail(txs)[i], ses - 1)
         /\ \/ Head(txs).file = "save" /\ Head(txs).rest = {CONFIG} /\ ~ LoadLast
            \/ Head(txs).file = CONFIG /\ Head(txs).rest = {} /\ Len(Tail(txs)) = 0 /\ LoadLast
<1> DEFINE j == Head(txs)
           r == Tail(txs)
<1>6. /\ Len(r) = Len(txs) - 1 /\ Len(txs) \in Nat /\ Len(txs) > 0
      /\ \A i \in 1 .. Len(txs) - 1 : r[i] = txs[i + 1]
      /\ j = txs[1]
  <2>1. txs \in Seq(Jobs) /\ txs # <<>>  BY DEF IInv, PersistTypeOK, Done
  <2> QED  BY <2>1, Beheaded
<1>7. j.kind = "load"  OBVIOUS
<1> HIDE DEF j, r
<1>0. Queues  BY  DEF IInv
<1>1. 1 \in 1 .. Len(txs)  BY <1>6
<1>2. stage = "loading" /\ ~ LoadOpens
  BY <1>6, <1>7, <1>0, <1>1 DEF Queues, LoadOpens, Stores
<1>3. \A i \in 1 .. Len(r) : i + 1 \in 2 .. Len(txs) /\ r[i] = txs[i + 1]
  <2> TAKE i \in 1 .. Len(r)
  <2>1. i \in 1 .. Len(txs) - 1  BY <1>6
  <2> QED  BY <1>6, <2>1
<1>4. CASE LoadFirst
  <2>1. PICK n \in 1 .. Len(txs) :
          /\ txs[n].kind = "load" /\ txs[n].ses = ses
          /\ txs[n].file = "save" /\ txs[n].rest = {CONFIG}
          /\ \A i \in 1 .. n - 1 : Stores(txs[i], ses - 1)
          /\ \A i \in n + 1 .. Len(txs) : LastRound(txs[i], ses - 1)
    BY <1>4 DEF LoadFirst
  <2>2. n = 1
    <3>1. n # 1 => 1 \in 1 .. n - 1  OBVIOUS
    <3> QED  BY <1>6, <1>7, <2>1, <3>1 DEF Stores
  <2>3. j.ses = ses /\ j.file = "save" /\ j.rest = {CONFIG}  BY <1>6, <2>1, <2>2
  <2>4. \A i \in 2 .. Len(txs) : LastRound(txs[i], ses - 1)  BY <2>1, <2>2
  <2>5. ~ LoadLast
    <3>1. CASE Len(txs) = 1  BY <1>6, <2>3, <3>1, FilesAre DEF LoadLast
    <3>2. CASE Len(txs) # 1
      <4>1. 1 \in 1 .. Len(txs) - 1  BY <1>6, <3>2
      <4> QED  BY <1>6, <1>7, <4>1 DEF LoadLast, LastRound, Stores
    <3> QED  BY <3>1, <3>2
  <2> QED  BY <1>2, <1>3, <1>4, <2>3, <2>4, <2>5 DEF LoadFirst, j, r
<1>5. CASE LoadLast
  <2>1. Len(txs) = 1
    <3>1. Len(txs) # 1 => 1 \in 1 .. Len(txs) - 1  BY <1>6
    <3> QED  BY <1>6, <1>7, <1>5, <3>1 DEF LoadLast, LastRound, Stores
  <2>2. j.ses = ses /\ j.file = CONFIG /\ j.rest = {}  BY <1>6, <1>5, <2>1 DEF LoadLast
  <2>3. Len(r) = 0  BY <1>6, <2>1
  <2>4. \A i \in 1 .. Len(r) : LastRound(r[i], ses - 1)  BY <2>3
  <2> QED  BY <1>2, <1>5, <2>2, <2>3, <2>4 DEF LoadLast, j, r
<1> QED  BY <1>0, <1>2, <1>4, <1>5 DEF Queues

\* A transaction of a load ends: the game has one file, and goes on to the other
\* or runs.
LEMMA GotKeeps ==
  ASSUME IInv, Done, Head(txs).kind = "load"
  PROVE  IInv'
<1> USE PersistAssumption
<1> DEFINE j == Head(txs)
           r == Tail(txs)
<1>0. /\ PersistTypeOK /\ ses \in 1 .. MaxSessions /\ opens \in Seq(Jobs) /\ txs \in Seq(Jobs)
      /\ stage \in {"loading", "running", "ended"}
  BY DEF IInv, PersistTypeOK
<1>1. /\ txs # <<>> /\ Got(j) /\ GoesOn(j) /\ UNCHANGED <<ses, warned, opens, faults, failed>>
  BY DEF Done
<1>2. /\ mem' = [mem EXCEPT ![j.ses][j.file] = idb[j.file]] /\ UNCHANGED <<idb, dirty, lastConfig>>
      /\ stage' = IF j.rest = {} THEN "running" ELSE stage
  BY <1>1 DEF Got
<1>3. /\ r \in Seq(Jobs) /\ Len(r) = Len(txs) - 1 /\ Len(txs) \in Nat /\ Len(txs) > 0
      /\ \A i \in 1 .. Len(txs) - 1 : r[i] = txs[i + 1]
      /\ j = txs[1] /\ j \in Jobs
  BY <1>0, <1>1, Beheaded
<1>4. /\ j.kind = "load" /\ j.ses \in 1 .. MaxSessions /\ j.file \in Files
      /\ j.rest \subseteq Files
  BY <1>3 DEF Jobs
<1>5. mem' \in [1 .. MaxSessions -> [Files -> Versions]]
  <2>1. idb[j.file] \in Versions  BY <1>0, <1>4 DEF PersistTypeOK
  <2> QED  BY <1>0, <1>2, <1>4, <2>1 DEF PersistTypeOK
<1>6. /\ mem'[j.ses][j.file] = idb[j.file]
      /\ \A s \in 1 .. MaxSessions, g \in Files : s # j.ses \/ g # j.file => mem'[s][g] = mem[s][g]
  BY <1>0, <1>2, <1>4 DEF PersistTypeOK
<1>7. \/ j.rest = {} /\ txs' = r
      \/ \E f \in j.rest :
           txs' = Append(r, [j EXCEPT !.file = f, !.ver = mem[j.ses][f], !.rest = @ \ {f}])
  BY <1>1 DEF GoesOn
<1> HIDE DEF r
<1> DEFINE Rest(f, k) == /\ k \in Jobs /\ k.kind = j.kind /\ k.ses = j.ses /\ k.file = f
                         /\ k.rest = j.rest \ {f} /\ f \in j.rest
<1>8. \/ j.rest = {} /\ txs' = r
      \/ \E f \in Files, k \in Jobs : Rest(f, k) /\ txs' = Append(r, k)
  <2>1. CASE j.rest = {} /\ txs' = r  BY <2>1
  <2>2. CASE ~ (j.rest = {} /\ txs' = r)
    <3>1. PICK f \in j.rest :
            txs' = Append(r, [j EXCEPT !.file = f, !.ver = mem[j.ses][f], !.rest = @ \ {f}])
      BY <1>7, <2>2
    <3> DEFINE k == [j EXCEPT !.file = f, !.ver = mem[j.ses][f], !.rest = @ \ {f}]
    <3>2. f \in Files /\ mem[j.ses][f] \in Versions  BY <1>0, <1>4, <3>1 DEF PersistTypeOK
    <3>3. k.kind = j.kind /\ k.ses = j.ses /\ k.file = f /\ k.rest = j.rest \ {f}
      BY <1>3 DEF Jobs
    <3>4. k \in Jobs  BY <1>3, <1>4, <3>2 DEF Jobs
    <3> HIDE DEF k
    <3>5. Rest(f, k)  BY <3>1, <3>3, <3>4
    <3> HIDE DEF Rest
    <3>6. txs' = Append(r, k)  BY <3>1 DEF k
    <3> QED  BY <3>2, <3>4, <3>5, <3>6
  <2> QED  BY <2>1, <2>2
<1>9. txs' \in Seq(Jobs)
  <2>1. CASE txs' = r  BY <1>3, <2>1
  <2>2. CASE txs' # r
    <3>1. PICK f \in Files, k \in Jobs : txs' = Append(r, k)  BY <1>8, <2>2
    <3> QED  BY <1>3, <3>1, Appended
  <2> QED  BY <2>1, <2>2
<1>10. PersistTypeOK'  BY <1>0, <1>1, <1>2, <1>5, <1>9 DEF PersistTypeOK
<1>11. ASSUME "load" \notin failed
       PROVE  /\ stage = "loading" /\ j.ses = ses /\ opens = <<>>
              /\ \A i \in 1 .. Len(r) : LastRound(r[i], ses - 1)
              /\ \/ j.file = "save" /\ j.rest = {CONFIG} /\ ~ LoadLast
                 \/ j.file = CONFIG /\ j.rest = {} /\ Len(r) = 0 /\ LoadLast
  BY <1>11, LoadsAlone DEF r
<1>12. ASSUME "load" \notin failed, j.rest # {}
       PROVE  /\ stage' = "loading" /\ Len(txs') = Len(r) + 1 /\ Len(r) \in Nat /\ LoadLast'
              /\ \A i \in 1 .. Len(r) : txs'[i] = r[i]
              /\ \E k \in Jobs : k.kind = "load" /\ txs' = Append(r, k)
  <2>1. PICK f \in Files, k \in Jobs : Rest(f, k) /\ txs' = Append(r, k)  BY <1>8, <1>12
  <2>2. f = CONFIG /\ k.rest = {} /\ k.kind = "load" /\ k.ses = ses /\ k.file = CONFIG
    BY <1>4, <1>11, <1>12, <2>1
  <2>3. /\ Len(txs') = Len(r) + 1 /\ Len(r) \in Nat /\ txs'[Len(r) + 1] = k
        /\ \A i \in 1 .. Len(r) : txs'[i] = r[i]
    BY <1>3, <2>1, Appended
  <2>4. LoadLast'
    <3>1. txs'[Len(txs')] = k /\ Len(txs') > 0 /\ opens' = <<>>  BY <1>1, <1>11, <1>12, <2>3
    <3>2. \A i \in 1 .. Len(txs') - 1 : LastRound(txs'[i], ses - 1)  BY <1>11, <1>12, <2>3
    <3> QED  BY <1>1, <2>2, <3>1, <3>2 DEF LoadLast
  <2> QED  BY <1>2, <1>11, <1>12, <2>1, <2>2, <2>3, <2>4
<1>13. ASSUME "load" \notin failed, j.rest = {}
       PROVE  stage' = "running" /\ txs' = r /\ Len(txs') = 0 /\ Len(opens') = 0
  BY <1>1, <1>2, <1>8, <1>11, <1>13 DEF Rest
<1> HIDE DEF Rest
<1>14. ASSUME "load" \notin failed  PROVE Queues' /\ Written' /\ OwnArrive'
  <2>0. Written  BY <1>14 DEF IInv
  <2>1. Queues'
    <3>1. CASE j.rest # {}  BY <1>12, <1>14, <3>1 DEF Queues
    <3>2. CASE j.rest = {}
      <4>1. \A q \in {opens', txs'} : Len(q) = 0  BY <1>13, <1>14, <3>2
      <4>2. stage' # "loading"  BY <1>13, <1>14, <3>2
      <4> QED  BY <4>1, <4>2 DEF Queues
    <3> QED  BY <3>1, <3>2
  <2>2. idb[j.file][1] < ses /\ \A f \in Files : idb[f][1] < ses /\ mem[ses][f][1] < ses
    BY <1>4, <1>11, <1>14, <2>0 DEF Written
  <2>3. \A f \in Files : mem'[ses][f][1] < ses
    <3> TAKE f \in Files
    <3>1. mem'[ses][f] = idb[j.file] \/ mem'[ses][f] = mem[ses][f]  BY <1>0, <1>6, <1>11, <1>14
    <3> QED  BY <2>2, <3>1
  <2>4. \A s \in 1 .. MaxSessions, f \in Files :
          mem'[s][f][1] <= s /\ (s > ses => mem'[s][f] = Absent)
    <3> SUFFICES ASSUME NEW s \in 1 .. MaxSessions, NEW f \in Files
                 PROVE  mem'[s][f][1] <= s /\ (s > ses => mem'[s][f] = Absent)
      OBVIOUS
    <3>1. CASE s = ses
      <4>1. mem'[s][f][1] < s  BY <2>3, <3>1
      <4>2. mem'[s][f][1] \in Nat
        <5>1. mem'[s][f] \in Versions  BY <1>5
        <5> QED  BY <5>1 DEF Versions, Absent
      <4> QED  BY <1>0, <3>1, <4>1, <4>2
    <3>2. CASE s # ses
      <4>1. mem'[s][f] = mem[s][f]  BY <1>6, <1>11, <1>14, <3>2
      <4> QED  BY <2>0, <4>1 DEF Written
    <3> QED  BY <3>1, <3>2
  <2>5. \A q \in {opens', txs'} : \A i \in 1 .. Len(q) : q[i].kind # "load" => q[i].ver[1] <= q[i].ses
    <3>1. CASE j.rest # {}
      <4>1. \A i \in 1 .. Len(r) : r[i].kind # "load" => r[i].ver[1] <= r[i].ses
        <5> TAKE i \in 1 .. Len(r)
        <5>1. i + 1 \in 1 .. Len(txs) /\ r[i] = txs[i + 1]
          <6>1. i \in 1 .. Len(txs) - 1  BY <1>3
          <6> QED  BY <1>3, <6>1
        <5> QED  BY <2>0, <5>1 DEF Written
      <4>2. PICK k \in Jobs : k.kind = "load" /\ txs' = Append(r, k)  BY <1>12, <1>14, <3>1
      <4>3. /\ Len(txs') = Len(r) + 1 /\ Len(r) \in Nat /\ txs'[Len(r) + 1] = k
            /\ \A i \in 1 .. Len(r) : txs'[i] = r[i]
        BY <1>3, <4>2, Appended
      <4>4. \A i \in 1 .. Len(txs') : i \in 1 .. Len(r) \/ i = Len(r) + 1  BY <4>3
      <4>5. \A i \in 1 .. Len(txs') : txs'[i].kind # "load" => txs'[i].ver[1] <= txs'[i].ses
        BY <4>1, <4>2, <4>3, <4>4
      <4>6. Len(opens') = 0  BY <1>1, <1>11, <1>14
      <4> QED  BY <4>5, <4>6
    <3>2. CASE j.rest = {}
      <4>1. \A q \in {opens', txs'} : Len(q) = 0  BY <1>13, <1>14, <3>2
      <4> QED  BY <4>1
    <3> QED  BY <3>1, <3>2
  <2>6. Written'  BY <1>1, <1>2, <2>0, <2>2, <2>3, <2>4, <2>5 DEF Written
  <2>7. OwnArrive'
    <3>1. \A f \in Files : mem'[ses][f][1] # ses
      <4> TAKE f \in Files
      <4>1. mem'[ses][f][1] < ses  BY <2>3
      <4> QED  BY <1>0, <4>1
    <3> QED  BY <1>1, <3>1 DEF OwnArrive
  <2> QED  BY <2>1, <2>6, <2>7
<1>15. ASSUME failed = {}  PROVE AllArrive'
  <2>0. "load" \notin failed /\ AllArrive /\ Written  BY <1>15 DEF IInv
  \* Nothing that waits behind the load is a write-through.
  <2>1. \A f \in Files : ~ Follows(opens, 0, f) /\ ~ Follows(txs, 0, f)
    <3>1. \A k \in 1 .. Len(txs) : txs[k].kind # "write"
      <4> TAKE k \in 1 .. Len(txs)
      <4>1. CASE k = 1  BY <1>3, <1>4, <4>1
      <4>2. CASE k # 1
        <5>1. k - 1 \in 1 .. Len(r) /\ k - 1 \in 1 .. Len(txs) - 1 /\ (k - 1) + 1 = k  BY <1>3, <4>2
        <5>2. r[k - 1] = txs[k]  BY <1>3, <5>1
        <5> QED  BY <1>11, <2>0, <5>1, <5>2 DEF LastRound
      <4> QED  BY <4>1, <4>2
    <3>2. Len(opens) = 0  BY <1>11, <2>0
    <3> QED  BY <3>1, <3>2 DEF Follows, IsWrite
  <2>2. ASSUME ses > 1, NEW f \in Files
        PROVE  Arrives(opens, txs, idb[f], f, mem[ses - 1][f]) /\ idb[f] = mem[ses - 1][f]
    <3>1. Arrives(opens, txs, idb[f], f, mem[ses - 1][f])  BY <1>11, <2>0, <2>2 DEF AllArrive
    <3> QED  BY <2>1, <3>1, Arrived
  <2>3. CASE j.rest # {}
    <3>1. j.file = "save" /\ j.ses = ses /\ stage' = "loading"  BY <1>11, <1>12, <2>0, <2>3
    <3> SUFFICES ASSUME ses > 1
                 PROVE  /\ \A f \in Files : Arrives(opens', txs', idb'[f], f, mem'[ses - 1][f])
                        /\ mem'[ses]["save"] = mem'[ses - 1]["save"]
      BY <1>1, <3>1 DEF AllArrive
    <3>2. \A f \in Files : mem'[ses - 1][f] = mem[ses - 1][f]
      <4>1. ses - 1 \in 1 .. MaxSessions /\ ses - 1 # ses  BY <1>0
      <4> QED  BY <1>6, <3>1, <4>1
    <3>3. \A f \in Files : Arrives(opens', txs', idb'[f], f, mem'[ses - 1][f])
      <4> TAKE f \in Files
      <4> DEFINE v == mem[ses - 1][f]
      <4>1. Arrives(opens, txs, idb[f], f, v)  BY <2>2
      <4> HIDE DEF v
      <4>2. Arrives(opens, r, idb[f], f, v)
        BY <1>0, <1>1, <1>4, <4>1, ArrivesDone DEF r
      <4>3. PICK k \in Jobs : k.kind = "load" /\ txs' = Append(r, k)  BY <1>12, <2>0, <2>3
      <4>4. ~ Off(k, f, v)  BY <4>3 DEF Off
      <4>5. Arrives(opens, txs', idb[f], f, v)
        BY <1>0, <1>3, <4>2, <4>3, <4>4, ArrivesGoesOn
      <4> QED  BY <1>1, <1>2, <3>2, <4>5 DEF v
    <3>4. mem'[ses]["save"] = idb["save"]  BY <1>6, <3>1
    <3> QED  BY <2>2, <3>2, <3>3, <3>4, FilesAre
  <2>4. CASE j.rest = {}
    <3>1. /\ stage' = "running" /\ Len(txs') = 0 /\ Len(opens') = 0
          /\ j.file = CONFIG /\ j.ses = ses /\ LoadLast /\ stage = "loading"
      BY <1>11, <1>13, <2>0, <2>4
    <3> SUFFICES ASSUME NEW f \in Files  PROVE Arrives(opens', txs', idb'[f], f, mem'[ses][f])
      BY <1>1, <3>1 DEF AllArrive
    <3>2. idb[f] = mem'[ses][f]
      <4>1. CASE f = CONFIG  BY <1>6, <3>1, <4>1
      <4>2. CASE f = "save"
        <5>1. mem'[ses][f] = mem[ses][f]  BY <1>0, <1>6, <3>1, <4>2, FilesAre
        <5>2. CASE ses > 1
          <6>1. mem[ses][f] = mem[ses - 1][f]  BY <2>0, <3>1, <4>2, <5>2 DEF AllArrive
          <6> QED  BY <2>2, <5>1, <5>2, <6>1
        <5>3. CASE ses = 1
          <6>1. /\ mem[ses][f] \in Versions /\ idb[f] \in Versions
                /\ mem[ses][f][1] < 1 /\ idb[f][1] < 1
            BY <1>0, <2>0, <3>1, <5>3 DEF Written, PersistTypeOK
          <6>2. \A v \in Versions : v[1] < 1 => v = Absent  BY DEF Versions
          <6> QED  BY <5>1, <6>1, <6>2
        <5> QED  BY <1>0, <5>2, <5>3
      <4> QED  BY <4>1, <4>2 DEF Files
    <3> QED  BY <1>2, <3>1, <3>2 DEF Arrives
  <2> QED  BY <2>3, <2>4
<1> QED  BY <1>1, <1>10, <1>14, <1>15 DEF IInv

-----------------------------------------------------------------------------
(* Every step.                                                             *)

LEMMA NextKeeps == IInv /\ [PersistNext]_persistVars => IInv'
<1> SUFFICES ASSUME IInv, [PersistNext]_persistVars  PROVE IInv'
  OBVIOUS
<1>1. CASE Save  BY <1>1, SaveKeeps
<1>2. CASE Sync  BY <1>2, SyncKeeps
<1>3. CASE End  BY <1>3, EndKeeps
<1>4. CASE Enter  BY <1>4, EnterKeeps
<1>5. CASE Crash  BY <1>5, CrashKeeps
<1>6. CASE Opened  BY <1>6, OpenedKeeps
<1>7. CASE Done  BY <1>7, PutKeeps, GotKeeps
<1>8. CASE OpenFails \/ TxFails  BY <1>8, FailedKeeps
<1>9. CASE UNCHANGED persistVars
  <2>1. PersistTypeOK'  BY <1>9 DEF IInv, PersistTypeOK, persistVars
  <2>2. Queues => Queues'
    BY <1>9 DEF Queues, LoadOpens, LoadFirst, LoadLast, persistVars
  <2>3. Written => Written'  BY <1>9 DEF Written, persistVars
  <2>4. OwnArrive => OwnArrive'  BY <1>9 DEF OwnArrive, persistVars
  <2>5. AllArrive => AllArrive'  BY <1>9 DEF AllArrive, LoadLast, persistVars
  <2> QED  BY <1>9, <2>1, <2>2, <2>3, <2>4, <2>5 DEF IInv, persistVars
<1> QED  BY <1>1, <1>2, <1>3, <1>4, <1>5, <1>6, <1>7, <1>8, <1>9 DEF PersistNext

\* What waits is in order in every state, whatever failed or crashed, and each
\* variable keeps its type (startSync, flush, loadPersisted and idb.js together).
THEOREM Invariance == PersistSpec => []IInv
BY InitHolds, NextKeeps, PTL DEF PersistSpec

\* With nothing on its way, each file the running game wrote is stored as it was
\* written last, or marked dirty, or the player was told.
THEOREM SavesReachTheStore == PersistSpec => []StoredOrTold
<1>1. IInv => StoredOrTold
  <2> SUFFICES ASSUME IInv, stage = "running", NothingWaits, "load" \notin failed, ~ warned,
                      NEW f \in Files, mem[ses][f][1] = ses
               PROVE  idb[f] = mem[ses][f]
    BY DEF StoredOrTold, Safe
  <2>1. Arrives(<<>>, <<>>, idb[f], f, mem[ses][f])  BY DEF IInv, OwnArrive, NothingWaits
  <2>2. ~ Follows(<<>>, 0, f)  BY DEF Follows
  <2> QED  BY <2>1, <2>2, Arrived
<1> QED  BY <1>1, Invariance, PTL

\* A game entered after another one has read both of its files by the time it runs,
\* whatever the last game had still on its way when its session ended.
THEOREM NextGameReadsTheLast == PersistSpec => ReloadSeesSaves
<1>1. IInv /\ IInv' /\ [PersistNext]_persistVars =>
        [stage = "loading" /\ stage' = "running" /\ ses > 1 /\ failed' = {} =>
           mem'[ses] = mem[ses - 1]]_persistVars
  <2> SUFFICES ASSUME IInv, IInv', PersistNext, stage = "loading", stage' = "running",
                      ses > 1, failed' = {}
               PROVE  mem'[ses] = mem[ses - 1]
    OBVIOUS
  <2>0. /\ PersistTypeOK /\ PersistTypeOK' /\ ses \in 1 .. MaxSessions /\ ses - 1 \in 1 .. MaxSessions
        /\ opens \in Seq(Jobs) /\ txs \in Seq(Jobs)
    BY PersistAssumption DEF IInv, PersistTypeOK
  \* Only the end of the load's last round does this.
  <2>1. Done /\ Head(txs).kind = "load" /\ failed = {} /\ ses' = ses
    <3>1. CASE Save \/ Sync \/ End \/ Opened  BY <3>1 DEF Save, Sync, End, Opened
    <3>2. CASE Enter \/ Crash  BY <3>2 DEF Enter, Crash
    <3>3. CASE Done  BY <3>3 DEF Done, PutFile
    <3>4. CASE OpenFails \/ TxFails  BY <3>4 DEF OpenFails, TxFails, Failed
    <3> QED  BY <3>1, <3>2, <3>3, <3>4 DEF PersistNext
  <2>2. Got(Head(txs)) /\ GoesOn(Head(txs)) /\ txs # <<>> /\ opens' = opens  BY <2>1 DEF Done
  <2>3. Head(txs).rest = {}  BY <2>2 DEF Got
  <2>4. opens = <<>> /\ Len(Tail(txs)) = 0  BY <2>1, <2>3, LoadsAlone
  <2>5. txs' = Tail(txs) /\ idb' = idb  BY <2>2, <2>3 DEF GoesOn, Got
  <2>6. ASSUME NEW f \in Files  PROVE mem'[ses][f] = mem[ses - 1][f]
    <3>1. Arrives(opens', txs', idb'[f], f, mem'[ses'][f])  BY DEF IInv, AllArrive
    <3>2. ~ Follows(opens', 0, f) /\ ~ Follows(txs', 0, f)
      <4>1. Len(opens') = 0 /\ Len(txs') = 0  BY <2>2, <2>4, <2>5
      <4> QED  BY <4>1 DEF Follows
    <3>3. idb'[f] = mem'[ses'][f]  BY <3>1, <3>2, Arrived
    <3>4. Arrives(opens, txs, idb[f], f, mem[ses - 1][f])  BY <2>1 DEF IInv, AllArrive
    <3>5. ~ Follows(opens, 0, f) /\ ~ Follows(txs, 0, f)
      <4>1. Len(opens) = 0  BY <2>4
      <4>2. Len(txs) = 1 /\ txs[1] = Head(txs)  BY <2>0, <2>2, <2>4, Beheaded
      <4> QED  BY <2>1, <4>1, <4>2 DEF Follows, IsWrite
    <3>6. idb[f] = mem[ses - 1][f]  BY <3>4, <3>5, Arrived
    <3> QED  BY <2>1, <2>5, <3>3, <3>6
  <2>7. mem'[ses] \in [Files -> Versions] /\ mem[ses - 1] \in [Files -> Versions]
    BY <2>0 DEF PersistTypeOK
  <2> QED  BY <2>6, <2>7
<1>2. IInv /\ [PersistNext]_persistVars => IInv'  BY NextKeeps
<1> QED  BY <1>1, <1>2, Invariance, PTL DEF PersistSpec, ReloadSeesSaves

-----------------------------------------------------------------------------
(* The demo store.                                                         *)

Records == [id : Demos, expires : 0 .. MaxTime + TTL]

\* Map keys are unique, and its order is the order in which its records expire.
Keyed(recs) == \A i, j \in DOMAIN recs : recs[i].id = recs[j].id => i = j
Ordered(recs) == \A i, j \in DOMAIN recs : i <= j => recs[i].expires <= recs[j].expires
Timely(recs) == \A i \in DOMAIN recs : recs[i].expires <= now + TTL
Kept(recs, used) ==
  /\ recs \in Seq(Records) /\ used = CostOfAll(recs)
  /\ Keyed(recs) /\ Ordered(recs) /\ Timely(recs)

StoreInv ==
  /\ Kept(store, usedBytes) /\ usedBytes <= TotalQuota
  /\ now \in 0 .. MaxTime /\ last \in Demos \cup {Refused}

-----------------------------------------------------------------------------
(* Sums.                                                                   *)

\* A set of naturals that holds 0 and, with each, the next holds them all.
LEMMA NaturalsOf ==
  ASSUME NEW T, 0 \in T, \A n \in Nat : n \in T => n + 1 \in T
  PROVE  \A n \in Nat : n \in T
<1> DEFINE R == {ss \in Nat \X Nat : ss[1] < ss[2]}
<1> DEFINE U == {n \in Nat : n \notin T}
<1>1. IsWellFoundedOn(R, Nat)
  BY NatLessThanWellFounded, Zenon DEF OpToRel
<1>2. SUFFICES ASSUME U # {}  PROVE FALSE
  OBVIOUS
<1>3. PICK m \in U : \A n \in U : ~ (<<n, m>> \in R)
  <2> HIDE DEF R, U
  <2>1. U \subseteq Nat  BY DEF U
  <2> QED  BY <1>1, <1>2, <2>1, WFMin
<1>4. m \in Nat /\ m # 0 /\ m - 1 \in Nat /\ m - 1 \notin T
  BY <1>3
<1>5. m - 1 \in U /\ <<m - 1, m>> \in Nat \X Nat /\ <<m - 1, m>>[1] < <<m - 1, m>>[2]
  BY <1>4
<1>6. <<m - 1, m>> \in R  BY <1>5, Zenon
<1> QED  BY <1>3, <1>5, <1>6

\* Below N, or at N, there is a first number of K.
LEMMA FirstOf ==
  ASSUME NEW N \in Nat, NEW K
  PROVE  \E i \in 0 .. N : (i < N => i \in K) /\ \A j \in 0 .. (i - 1) : j \notin K
<1> SUFFICES ASSUME ~ \E i \in 0 .. N : (i < N => i \in K) /\ \A j \in 0 .. (i - 1) : j \notin K
             PROVE FALSE
  OBVIOUS
<1> DEFINE T == {n \in Nat : n <= N => \A j \in 0 .. (n - 1) : j \notin K}
<1>1. 0 \in T  OBVIOUS
<1>2. ASSUME NEW n \in Nat, n \in T  PROVE n + 1 \in T
  <2>1. CASE n + 1 <= N
    <3>1. n \in 0 .. N /\ n < N /\ \A j \in 0 .. (n - 1) : j \notin K  BY <1>2, <2>1
    <3>2. n \notin K  BY <3>1
    <3> QED  BY <3>1, <3>2
  <2> QED  BY <2>1
<1>3. \A n \in Nat : n \in T
  <2> HIDE DEF T
  <2> QED  BY <1>1, <1>2, NaturalsOf
<1>4. N \in T  BY <1>3
<1> QED  BY <1>4

LEMMA CostIsNat ==
  ASSUME NEW id \in Demos
  PROVE  CostOf(id) \in Nat
BY DemoAssumption DEF CostOf

LEMMA RecordAt ==
  ASSUME NEW recs \in Seq(Records), NEW n \in 1 .. Len(recs)
  PROVE  recs[n] \in Records /\ recs[n].id \in Demos
<1>1. recs[n] \in Records  OBVIOUS
<1> QED  BY <1>1 DEF Records

LEMMA CostCounts ==
  ASSUME NEW recs \in Seq(Records)
  PROVE  /\ CostOfFirst(recs, 0) = 0
         /\ \A n \in 1 .. Len(recs) :
              CostOfFirst(recs, n) = CostOfFirst(recs, n - 1) + CostOf(recs[n].id)
<1> DEFINE Is(f, N) == f = [i \in 0 .. N |-> IF i = 0 THEN 0 ELSE f[i - 1] + CostOf(recs[i].id)]
<1> DEFINE T == {N \in Nat : \E f : Is(f, N)}
<1>1. 0 \in T
  <2>1. Is([i \in 0 .. 0 |-> 0], 0)  OBVIOUS
  <2> QED  BY <2>1
<1>2. ASSUME NEW N \in Nat, N \in T  PROVE N + 1 \in T
  <2>1. PICK g : Is(g, N)  BY <1>2
  <2> DEFINE h == [i \in 0 .. N + 1 |-> IF i = N + 1 THEN g[N] + CostOf(recs[i].id) ELSE g[i]]
  <2>2. \A i \in 0 .. N + 1 : h[i] = IF i = 0 THEN 0 ELSE h[i - 1] + CostOf(recs[i].id)
    BY <2>1
  <2>3. Is(h, N + 1)
    <3>1. h = [i \in 0 .. N + 1 |-> h[i]]  OBVIOUS
    <3> HIDE DEF h
    <3> QED  BY <2>2, <3>1
  <2>4. \E f : Is(f, N + 1)
    <3> HIDE DEF h, Is
    <3> QED  BY <2>3
  <2> HIDE DEF Is
  <2> QED  BY <2>4
<1>3. \A N \in Nat : N \in T
  <2> HIDE DEF T
  <2> QED  BY <1>1, <1>2, NaturalsOf
<1>4. \E f : Is(f, Len(recs))  BY <1>3
<1> DEFINE cost == CHOOSE f : Is(f, Len(recs))
<1>5. Is(cost, Len(recs))  BY <1>4
<1>6. \A n : CostOfFirst(recs, n) = cost[n]  BY DEF CostOfFirst
<1> HIDE DEF cost
<1>7. cost[0] = 0 /\ \A n \in 1 .. Len(recs) : cost[n] = cost[n - 1] + CostOf(recs[n].id)
  BY <1>5
<1> QED  BY <1>6, <1>7

LEMMA CostTyped ==
  ASSUME NEW recs \in Seq(Records)
  PROVE  \A n \in 0 .. Len(recs) : CostOfFirst(recs, n) \in Nat
<1> DEFINE T == {n \in Nat : n <= Len(recs) => CostOfFirst(recs, n) \in Nat}
<1>1. 0 \in T  BY CostCounts
<1>2. ASSUME NEW n \in Nat, n \in T  PROVE n + 1 \in T
  <2>1. CASE n + 1 <= Len(recs)
    <3>1. n + 1 \in 1 .. Len(recs) /\ n \in 0 .. Len(recs)  BY <2>1
    <3>2. CostOfFirst(recs, n + 1) = CostOfFirst(recs, n) + CostOf(recs[n + 1].id)
      BY <3>1, CostCounts
    <3>3. recs[n + 1].id \in Demos
      <4>1. recs[n + 1] \in Records  BY <3>1
      <4> QED  BY <4>1 DEF Records
    <3> QED  BY <1>2, <3>1, <3>2, <3>3, CostIsNat
  <2> QED  BY <2>1
<1>3. \A n \in Nat : n \in T
  <2> HIDE DEF T
  <2> QED  BY <1>1, <1>2, NaturalsOf
<1> QED  BY <1>3

\* Equal stretches of two stores cost the same.
LEMMA SameCost ==
  ASSUME NEW r \in Seq(Records), NEW s \in Seq(Records), NEW a \in Nat, NEW b \in Nat,
         NEW c \in a .. Len(r), NEW d \in b .. Len(s), c - a = d - b,
         \A i \in 1 .. c - a : r[a + i] = s[b + i]
  PROVE  CostOfFirst(r, c) - CostOfFirst(r, a) = CostOfFirst(s, d) - CostOfFirst(s, b)
<1> DEFINE n == c - a
<1>n. /\ n \in Nat /\ a + n <= Len(r) /\ b + n <= Len(s) /\ a + n = c /\ b + n = d
      /\ \A i \in 1 .. n : r[a + i] = s[b + i]
  OBVIOUS
<1> HIDE DEF n
<1> DEFINE T == {k \in Nat : k <= n => CostOfFirst(r, a + k) - CostOfFirst(r, a)
                                         = CostOfFirst(s, b + k) - CostOfFirst(s, b)}
<1>1. 0 \in T
  <2>1. CostOfFirst(r, a) \in Nat /\ CostOfFirst(s, b) \in Nat  BY <1>n, CostTyped
  <2>2. a + 0 = a /\ b + 0 = b  OBVIOUS
  <2> QED  BY <2>1, <2>2
<1>2. ASSUME NEW k \in Nat, k \in T  PROVE k + 1 \in T
  <2>1. CASE k + 1 <= n
    <3>1. a + (k + 1) \in 1 .. Len(r) /\ b + (k + 1) \in 1 .. Len(s) /\ a + (k + 1) - 1 = a + k
          /\ b + (k + 1) - 1 = b + k /\ k + 1 \in 1 .. n  BY <1>n, <2>1
    <3>2. CostOfFirst(r, a + (k + 1)) = CostOfFirst(r, a + k) + CostOf(r[a + (k + 1)].id)
      <4>1. CostOfFirst(r, a + (k + 1)) = CostOfFirst(r, a + (k + 1) - 1) + CostOf(r[a + (k + 1)].id)
        BY <3>1, CostCounts
      <4> QED  BY <3>1, <4>1
    <3>3. CostOfFirst(s, b + (k + 1)) = CostOfFirst(s, b + k) + CostOf(s[b + (k + 1)].id)
      <4>1. CostOfFirst(s, b + (k + 1)) = CostOfFirst(s, b + (k + 1) - 1) + CostOf(s[b + (k + 1)].id)
        BY <3>1, CostCounts
      <4> QED  BY <3>1, <4>1
    <3>4. r[a + (k + 1)] = s[b + (k + 1)] /\ r[a + (k + 1)].id \in Demos
      <4>1. r[a + (k + 1)] \in Records /\ r[a + (k + 1)].id \in Demos  BY <3>1, RecordAt, Zenon
      <4>2. k + 1 \in 1 .. n  BY <3>1
      <4> QED  BY <1>n, <4>1, <4>2, Zenon
    <3>5. CostOf(r[a + (k + 1)].id) \in Nat  BY <3>4, CostIsNat
    <3>6. CostOfFirst(r, a + k) \in Nat /\ CostOfFirst(s, b + k) \in Nat
          /\ CostOfFirst(r, a) \in Nat /\ CostOfFirst(s, b) \in Nat  BY <1>n, <2>1, CostTyped
    <3>7. CostOfFirst(r, a + k) - CostOfFirst(r, a) = CostOfFirst(s, b + k) - CostOfFirst(s, b)
      BY <1>n, <1>2, <2>1
    <3>8. CostOfFirst(r, a + (k + 1)) - CostOfFirst(r, a) = CostOfFirst(s, b + (k + 1)) - CostOfFirst(s, b)
      <4> DEFINE r2 == CostOfFirst(r, a + (k + 1))  r1 == CostOfFirst(r, a + k)  r0 == CostOfFirst(r, a)
                 s2 == CostOfFirst(s, b + (k + 1))  s1 == CostOfFirst(s, b + k)  s0 == CostOfFirst(s, b)
                 e == CostOf(r[a + (k + 1)].id)
      <4>1. /\ r2 = r1 + e /\ s2 = s1 + e /\ r1 - r0 = s1 - s0 /\ e \in Nat
            /\ r1 \in Nat /\ r0 \in Nat /\ s1 \in Nat /\ s0 \in Nat
        BY <3>2, <3>3, <3>4, <3>5, <3>6, <3>7
      <4> HIDE DEF r2, r1, r0, s2, s1, s0, e
      <4>2. r2 \in Nat /\ s2 \in Nat  BY <4>1
      <4>3. r2 - r0 = (r1 - r0) + e /\ s2 - s0 = (s1 - s0) + e  BY <4>1, <4>2
      <4>4. r2 - r0 = s2 - s0  BY <4>1, <4>3
      <4> QED  BY <4>4 DEF r2, r0, s2, s0
    <3> QED  BY <3>8
  <2> QED  BY <2>1
<1>3. \A k \in Nat : k \in T
  <2> HIDE DEF T
  <2> QED  BY <1>1, <1>2, NaturalsOf
<1>4. n \in T  BY <1>n, <1>3
<1>5. CostOfFirst(r, a + n) - CostOfFirst(r, a) = CostOfFirst(s, b + n) - CostOfFirst(s, b)
  BY <1>n, <1>4
<1> QED  BY <1>n, <1>5, Zenon

LEMMA CostAppends ==
  ASSUME NEW recs \in Seq(Records), NEW r \in Records
  PROVE  CostOfAll(Append(recs, r)) = CostOfAll(recs) + CostOf(r.id)
<1> DEFINE s == Append(recs, r)  n == Len(recs)
<1>1. s \in Seq(Records) /\ Len(s) = n + 1 /\ n \in Nat /\ s[n + 1] = r /\ n \in 0 .. Len(recs)
      /\ n \in 0 .. Len(s) /\ n - 0 = n - 0
      /\ \A i \in 1 .. n - 0 : recs[0 + i] = s[0 + i]
  OBVIOUS
<1> HIDE DEF s, n
<1>2. CostOfFirst(s, n + 1) = CostOfFirst(s, (n + 1) - 1) + CostOf(r.id)
  <2>1. n + 1 \in 1 .. Len(s)  BY <1>1
  <2> QED  BY <1>1, <2>1, CostCounts
<1>3. (n + 1) - 1 = n  BY <1>1
<1>4. CostOfFirst(recs, n) - CostOfFirst(recs, 0) = CostOfFirst(s, n) - CostOfFirst(s, 0)
  <2>1. 0 \in Nat  OBVIOUS
  <2> QED  BY <1>1, <2>1, SameCost, Zenon
<1>5. CostOfFirst(recs, n) = CostOfFirst(s, n)
  <2>1. CostOfFirst(recs, n) \in Nat /\ CostOfFirst(s, n) \in Nat  BY <1>1, CostTyped
  <2>2. CostOfFirst(recs, 0) = 0 /\ CostOfFirst(s, 0) = 0  BY <1>1, CostCounts
  <2> QED  BY <1>4, <2>1, <2>2
<1> QED  BY <1>1, <1>2, <1>3, <1>5 DEF CostOfAll, n, s

LEMMA CostOfRest ==
  ASSUME NEW recs \in Seq(Records), NEW n \in 0 .. Len(recs)
  PROVE  /\ SubSeq(recs, n + 1, Len(recs)) \in Seq(Records)
         /\ CostOfAll(SubSeq(recs, n + 1, Len(recs))) = CostOfAll(recs) - CostOfFirst(recs, n)
<1> DEFINE s == SubSeq(recs, n + 1, Len(recs))  k == Len(recs) - n  L == Len(recs)
<1>1. s \in Seq(Records) /\ Len(s) = k /\ n \in Nat /\ 0 \in Nat /\ k \in 0 .. Len(s)
      /\ L \in n .. Len(recs) /\ L - n = k - 0
      /\ \A i \in 1 .. L - n : recs[n + i] = s[0 + i]
  OBVIOUS
<1> HIDE DEF s, k, L
<1>2. CostOfFirst(recs, L) - CostOfFirst(recs, n) = CostOfFirst(s, k) - CostOfFirst(s, 0)
  BY <1>1, SameCost, Zenon
<1>3. CostOfFirst(s, 0) = 0 /\ CostOfFirst(s, k) \in Nat  BY <1>1, CostCounts, CostTyped
<1>4. CostOfFirst(s, k) = CostOfFirst(recs, L) - CostOfFirst(recs, n)
  BY <1>1, <1>2, <1>3
<1> QED  BY <1>1, <1>4 DEF CostOfAll, s, L

\* A sequence without its n-th element.
LEMMA RemovedAt ==
  ASSUME NEW recs \in Seq(Records), NEW n \in 1 .. Len(recs)
  PROVE  /\ RemoveAt(recs, n) \in Seq(Records)
         /\ Len(RemoveAt(recs, n)) = Len(recs) - 1
         /\ \A i \in 1 .. Len(recs) - 1 : RemoveAt(recs, n)[i] = IF i < n THEN recs[i] ELSE recs[i + 1]
<1> DEFINE f == SubSeq(recs, 1, n - 1)  t == SubSeq(recs, n + 1, Len(recs))
<1>1. /\ f \in Seq(Records) /\ Len(f) = n - 1 /\ \A i \in 1 .. n - 1 : f[i] = recs[i]
      /\ t \in Seq(Records) /\ Len(t) = Len(recs) - n
      /\ \A i \in 1 .. Len(recs) - n : t[i] = recs[n + i]
  OBVIOUS
<1>2. RemoveAt(recs, n) = f \o t  BY DEF RemoveAt
<1> HIDE DEF f, t
<1>3. /\ f \o t \in Seq(Records) /\ Len(f \o t) = Len(recs) - 1
      /\ \A i \in 1 .. Len(f \o t) : (f \o t)[i] = IF i <= Len(f) THEN f[i] ELSE t[i - Len(f)]
  <2>1. f \o t \in Seq(Records)  BY <1>1
  <2>2. Len(f \o t) = Len(f) + Len(t)
    <3>1. f \in Seq(Records) /\ t \in Seq(Records)  BY <1>1
    <3> QED  BY <3>1
  <2>3. \A i \in 1 .. Len(f) + Len(t) : (f \o t)[i] = IF i <= Len(f) THEN f[i] ELSE t[i - Len(f)]
    BY <1>1
  <2> QED  BY <1>1, <2>1, <2>2, <2>3
<1>4. ASSUME NEW i \in 1 .. Len(recs) - 1
      PROVE  (f \o t)[i] = IF i < n THEN recs[i] ELSE recs[i + 1]
  <2>1. CASE i < n  BY <1>1, <1>3, <2>1
  <2>2. CASE ~ i < n
    <3>1. i - Len(f) \in 1 .. Len(recs) - n /\ n + (i - Len(f)) = i + 1 /\ ~ i <= Len(f)
      BY <1>1, <2>2
    <3> QED  BY <1>1, <1>3, <2>2, <3>1
  <2> QED  BY <2>1, <2>2
<1> QED  BY <1>2, <1>3, <1>4

LEMMA CostWithout ==
  ASSUME NEW recs \in Seq(Records), NEW n \in 1 .. Len(recs)
  PROVE  CostOfAll(RemoveAt(recs, n)) = CostOfAll(recs) - CostOf(recs[n].id)
<1> DEFINE s == RemoveAt(recs, n)  a == n - 1  L == Len(recs)
<1>1. /\ s \in Seq(Records) /\ Len(s) = Len(recs) - 1
      /\ \A i \in 1 .. Len(recs) - 1 : s[i] = IF i < n THEN recs[i] ELSE recs[i + 1]
  BY RemovedAt
<1> HIDE DEF s
<1>2. /\ a \in Nat /\ n \in Nat /\ 0 \in Nat /\ a \in 0 .. Len(recs) /\ a \in 0 .. Len(s) /\ a - 0 = a - 0
      /\ L \in n .. Len(recs) /\ Len(s) \in a .. Len(s) /\ L - n = Len(s) - a /\ L \in 0 .. Len(recs)
      /\ n \in 0 .. Len(recs) /\ Len(s) \in 0 .. Len(s)
  BY <1>1
<1>3. \A i \in 1 .. a - 0 : recs[0 + i] = s[0 + i]
  BY <1>1
<1>4. \A i \in 1 .. L - n : recs[n + i] = s[a + i]
  <2> TAKE i \in 1 .. L - n
  <2>1. a + i \in 1 .. Len(recs) - 1 /\ ~ a + i < n /\ (a + i) + 1 = n + i  OBVIOUS
  <2> QED  BY <1>1, <2>1
<1>5. recs[n] \in Records /\ recs[n].id \in Demos
  <2>1. recs[n] \in Records  OBVIOUS
  <2> QED  BY <2>1 DEF Records
<1>8. CostOfFirst(recs, n) = CostOfFirst(recs, a) + CostOf(recs[n].id)
  BY CostCounts
<1> HIDE DEF a, L
<1>6. CostOfFirst(recs, a) - CostOfFirst(recs, 0) = CostOfFirst(s, a) - CostOfFirst(s, 0)
  BY <1>1, <1>2, <1>3, SameCost, Zenon
<1>7. CostOfFirst(recs, L) - CostOfFirst(recs, n) = CostOfFirst(s, Len(s)) - CostOfFirst(s, a)
  BY <1>1, <1>2, <1>4, SameCost, Zenon
<1>9. /\ CostOfFirst(recs, 0) = 0 /\ CostOfFirst(s, 0) = 0
      /\ CostOfFirst(recs, a) \in Nat /\ CostOfFirst(s, a) \in Nat /\ CostOfFirst(recs, n) \in Nat
      /\ CostOfFirst(recs, L) \in Nat /\ CostOfFirst(s, Len(s)) \in Nat
      /\ CostOf(recs[n].id) \in Nat
  BY <1>1, <1>2, <1>5, CostCounts, CostTyped, CostIsNat
<1>10. CostOfFirst(s, Len(s)) = CostOfFirst(recs, L) - CostOf(recs[n].id)
  BY <1>6, <1>7, <1>8, <1>9
<1> QED  BY <1>10 DEF CostOfAll, s, L

-----------------------------------------------------------------------------
(* What an operation leaves.                                               *)

LEMMA KeptInt ==
  ASSUME NEW recs, NEW used, Kept(recs, used)
  PROVE  used \in Nat
<1>1. Len(recs) \in 0 .. Len(recs) /\ recs \in Seq(Records)  BY DEF Kept
<1> QED  BY <1>1, CostTyped DEF Kept, CostOfAll

\* What is left from the n-th record on is kept as it was.
LEMMA RestIsKept ==
  ASSUME NEW recs, NEW used, Kept(recs, used), NEW n \in 0 .. Len(recs)
  PROVE  /\ Kept(SubSeq(recs, n + 1, Len(recs)), used - CostOfFirst(recs, n))
         /\ used - CostOfFirst(recs, n) <= used
<1> DEFINE s == SubSeq(recs, n + 1, Len(recs))
<1>1. recs \in Seq(Records) /\ Keyed(recs) /\ Ordered(recs) /\ Timely(recs) /\ used = CostOfAll(recs)
  BY DEF Kept
<1>2. s \in Seq(Records) /\ CostOfAll(s) = used - CostOfFirst(recs, n)  BY <1>1, CostOfRest
<1>3. Len(s) = Len(recs) - n /\ \A i \in DOMAIN s : n + i \in DOMAIN recs /\ s[i] = recs[n + i]
  BY <1>1
<1>n. n \in Nat  BY <1>1
<1> HIDE DEF s
<1>4. \A i, j \in DOMAIN s : i \in Int /\ j \in Int  BY <1>2
<1>5. Keyed(s)
  <2> SUFFICES ASSUME NEW i \in DOMAIN s, NEW j \in DOMAIN s, s[i].id = s[j].id  PROVE i = j
    BY DEF Keyed
  <2>1. n + i = n + j  BY <1>1, <1>3 DEF Keyed
  <2> QED  BY <1>n, <1>4, <2>1
<1>6. Ordered(s)
  <2> SUFFICES ASSUME NEW i \in DOMAIN s, NEW j \in DOMAIN s, i <= j
               PROVE  s[i].expires <= s[j].expires
    BY DEF Ordered
  <2>1. n + i <= n + j  BY <1>n, <1>4
  <2> QED  BY <1>1, <1>3, <2>1 DEF Ordered
<1>7. Timely(s)  BY <1>1, <1>3 DEF Timely
<1>8. CostOfFirst(recs, n) \in Nat /\ used \in Nat
  <2>1. Len(recs) \in 0 .. Len(recs)  BY <1>1
  <2> QED  BY <1>1, <2>1, CostTyped DEF CostOfAll
<1>9. used - CostOfFirst(recs, n) <= used  BY <1>8
<1> QED  BY <1>2, <1>5, <1>6, <1>7, <1>9 DEF Kept, s

\* GcExpired drops what has expired from the front, and nothing that expired is behind.
LEMMA GcDrops ==
  ASSUME NEW recs, NEW used, Kept(recs, used), now \in Nat
  PROVE  \E n \in 0 .. Len(recs) :
           LET live == GcExpired(recs, used) IN
           /\ live.recs = SubSeq(recs, n + 1, Len(recs)) /\ live.used = used - CostOfFirst(recs, n)
           /\ \A i \in 1 .. n : recs[i].expires <= now
           /\ \A i \in DOMAIN live.recs : live.recs[i].expires > now
<1> DEFINE P(i) == /\ i < Len(recs) => recs[i + 1].expires > now
                   /\ \A j \in 0 .. (i - 1) : ~ recs[j + 1].expires > now
           n == CHOOSE i \in 0 .. Len(recs) : P(i)
           K == {i \in Nat : recs[i + 1].expires > now}
<1>1. recs \in Seq(Records) /\ Ordered(recs)  BY DEF Kept
<1>2. \E i \in 0 .. Len(recs) : P(i)
  <2>1. Len(recs) \in Nat  BY <1>1
  <2>2. PICK i \in 0 .. Len(recs) : (i < Len(recs) => i \in K) /\ \A j \in 0 .. (i - 1) : j \notin K
    <3> HIDE DEF K, P
    <3> QED  BY <2>1, FirstOf, Zenon
  <2>3. i \in Nat /\ \A j \in 0 .. (i - 1) : j \in Nat  BY <1>1
  <2>4. P(i)  BY <2>2, <2>3
  <2> QED  BY <2>4
<1>3. n \in 0 .. Len(recs) /\ P(n)  BY <1>2
<1>4. GcExpired(recs, used) = [recs |-> SubSeq(recs, n + 1, Len(recs)), used |-> used - CostOfFirst(recs, n)]
  BY DEF GcExpired, FromFirst
<1> HIDE DEF n
<1>5. \A i \in DOMAIN recs : recs[i].expires \in Nat
  <2> TAKE i \in DOMAIN recs
  <2>1. recs[i] \in Records  BY <1>1
  <2> QED  BY <2>1, DemoAssumption DEF Records
<1>6. \A i \in 1 .. n : recs[i].expires <= now
  <2> TAKE i \in 1 .. n
  <2>1. i - 1 \in 0 .. (n - 1) /\ (i - 1) + 1 = i /\ i \in DOMAIN recs  BY <1>1, <1>3
  <2>2. ~ recs[i].expires > now  BY <1>3, <2>1
  <2> QED  BY <1>5, <2>1, <2>2
<1>7. \A i \in DOMAIN SubSeq(recs, n + 1, Len(recs)) : SubSeq(recs, n + 1, Len(recs))[i].expires > now
  <2> TAKE i \in DOMAIN SubSeq(recs, n + 1, Len(recs))
  <2>1. SubSeq(recs, n + 1, Len(recs))[i] = recs[n + i] /\ n + i \in DOMAIN recs /\ n < Len(recs)
        /\ n + 1 \in DOMAIN recs /\ n + 1 <= n + i
    <3>1. n \in Nat /\ Len(recs) \in Nat /\ DOMAIN SubSeq(recs, n + 1, Len(recs)) = 1 .. Len(recs) - n
          /\ DOMAIN recs = 1 .. Len(recs)
      BY <1>1, <1>3
    <3>2. i \in 1 .. Len(recs) - n /\ n + i = (n + 1) + i - 1  BY <3>1
    <3>3. SubSeq(recs, n + 1, Len(recs))[i] = recs[n + i]  BY <1>1, <3>1, <3>2
    <3> QED  BY <3>1, <3>2, <3>3
  <2>2. recs[n + 1].expires > now  BY <1>3, <2>1
  <2>3. recs[n + 1].expires <= recs[n + i].expires  BY <1>1, <2>1 DEF Ordered
  <2>4. recs[n + 1].expires \in Nat /\ recs[n + i].expires \in Nat  BY <1>5, <2>1
  <2>5. recs[n + i].expires > now  BY <2>2, <2>3, <2>4
  <2> QED  BY <2>1, <2>5
<1> QED  BY <1>3, <1>4, <1>6, <1>7

\* EvictOldest drops from the front until there is room, or nothing is left.
LEMMA EvictDrops ==
  ASSUME NEW recs, NEW used, NEW needed, Kept(recs, used)
  PROVE  \E n \in 0 .. Len(recs) :
           LET kept == EvictOldest(recs, used, needed) IN
           kept.recs = SubSeq(recs, n + 1, Len(recs)) /\ kept.used = used - CostOfFirst(recs, n)
<1> DEFINE P(i) == /\ i < Len(recs) => (used - CostOfFirst(recs, i)) + needed <= TotalQuota
                   /\ \A j \in 0 .. (i - 1) : ~ (used - CostOfFirst(recs, j)) + needed <= TotalQuota
           n == CHOOSE i \in 0 .. Len(recs) : P(i)
           K == {i \in Nat : (used - CostOfFirst(recs, i)) + needed <= TotalQuota}
<1>1. recs \in Seq(Records)  BY DEF Kept
<1>2. \E i \in 0 .. Len(recs) : P(i)
  <2>1. Len(recs) \in Nat  BY <1>1
  <2>2. PICK i \in 0 .. Len(recs) : (i < Len(recs) => i \in K) /\ \A j \in 0 .. (i - 1) : j \notin K
    <3> HIDE DEF K, P
    <3> QED  BY <2>1, FirstOf, Zenon
  <2>3. i \in Nat /\ \A j \in 0 .. (i - 1) : j \in Nat  BY <1>1
  <2>4. P(i)  BY <2>2, <2>3
  <2> QED  BY <2>4
<1>3. n \in 0 .. Len(recs)  BY <1>2
<1>4. EvictOldest(recs, used, needed)
        = [recs |-> SubSeq(recs, n + 1, Len(recs)), used |-> used - CostOfFirst(recs, n)]
  BY DEF EvictOldest, FromFirst
<1> HIDE DEF n
<1> QED  BY <1>3, <1>4

\* The records but the one that is taken out.
LEMMA WithoutIsKept ==
  ASSUME NEW recs, NEW used, Kept(recs, used), NEW id \in Held(recs)
  PROVE  /\ Kept(Without(recs, id), used - CostOf(id))
         /\ used - CostOf(id) <= used
         /\ Held(Without(recs, id)) = Held(recs) \ {id}
         /\ \A i \in DOMAIN Without(recs, id) : \E j \in DOMAIN recs : Without(recs, id)[i] = recs[j]
<1> DEFINE n == CHOOSE i \in DOMAIN recs : recs[i].id = id
           s == Without(recs, id)
<1>1. recs \in Seq(Records) /\ Keyed(recs) /\ Ordered(recs) /\ Timely(recs) /\ used = CostOfAll(recs)
      /\ DOMAIN recs = 1 .. Len(recs) /\ Len(recs) \in Nat
  BY DEF Kept
<1>2. n \in DOMAIN recs /\ recs[n].id = id  BY DEF Held
<1>3. s = RemoveAt(recs, n)  BY DEF Without
<1> HIDE DEF n, s
<1>4. /\ s \in Seq(Records) /\ Len(s) = Len(recs) - 1 /\ DOMAIN s = 1 .. Len(recs) - 1
      /\ \A i \in 1 .. Len(recs) - 1 : s[i] = IF i < n THEN recs[i] ELSE recs[i + 1]
  <2>1. n \in 1 .. Len(recs)  BY <1>1, <1>2
  <2>2. /\ s \in Seq(Records) /\ Len(s) = Len(recs) - 1
        /\ \A i \in 1 .. Len(recs) - 1 : s[i] = IF i < n THEN recs[i] ELSE recs[i + 1]
    BY <1>1, <1>3, <2>1, RemovedAt, Zenon
  <2>3. DOMAIN s = 1 .. Len(recs) - 1  BY <2>2
  <2> QED  BY <2>2, <2>3
<1>5. CostOfAll(s) = used - CostOf(id)
  BY <1>1, <1>2, <1>3, CostWithout
<1> DEFINE at(i) == IF i < n THEN i ELSE i + 1
<1>6. n \in Nat /\ \A i \in DOMAIN s : i \in Nat /\ at(i) \in DOMAIN recs /\ at(i) # n /\ s[i] = recs[at(i)]
  BY <1>1, <1>2, <1>4
<1>7. Keyed(s)
  <2> SUFFICES ASSUME NEW i \in DOMAIN s, NEW j \in DOMAIN s, s[i].id = s[j].id  PROVE i = j
    BY DEF Keyed
  <2>1. at(i) = at(j)
    <3> HIDE DEF at
    <3> QED  BY <1>1, <1>6 DEF Keyed
  <2> QED  BY <1>6, <2>1
<1>8. Ordered(s)
  <2> SUFFICES ASSUME NEW i \in DOMAIN s, NEW j \in DOMAIN s, i <= j
               PROVE  s[i].expires <= s[j].expires
    BY DEF Ordered
  <2>1. at(i) <= at(j)  BY <1>6
  <2> HIDE DEF at
  <2> QED  BY <1>1, <1>6, <2>1 DEF Ordered
<1>9. Timely(s)
  <2> HIDE DEF at
  <2> QED  BY <1>1, <1>6 DEF Timely
<1>10. used - CostOf(id) <= used
  <2>1. recs[n] \in Records  BY <1>1, <1>2
  <2>2. CostOf(id) \in Nat  BY <1>2, <2>1, CostIsNat DEF Records
  <2>3. Len(recs) \in 0 .. Len(recs)  BY <1>1
  <2>4. used \in Nat  BY <1>1, <2>3, CostTyped DEF CostOfAll
  <2> QED  BY <2>2, <2>4
<1>11. Held(s) = Held(recs) \ {id}
  <2>1. ASSUME NEW i \in DOMAIN s  PROVE s[i].id \in Held(recs) \ {id}
    <3>1. at(i) \in DOMAIN recs /\ at(i) # n /\ s[i] = recs[at(i)]  BY <1>6
    <3> HIDE DEF at
    <3> QED  BY <1>1, <1>2, <3>1 DEF Keyed, Held
  <2>2. ASSUME NEW i \in DOMAIN recs, recs[i].id # id  PROVE recs[i].id \in Held(s)
    <3>1. i # n  BY <1>2, <2>2
    <3>2. CASE i < n
      <4>1. i \in DOMAIN s /\ s[i] = recs[i]  BY <1>1, <1>2, <1>4, <3>2
      <4> QED  BY <4>1 DEF Held
    <3>3. CASE i > n
      <4>1. i - 1 \in DOMAIN s /\ s[i - 1] = recs[i]  BY <1>1, <1>2, <1>4, <3>3
      <4> QED  BY <4>1 DEF Held
    <3> QED  BY <1>1, <1>2, <3>1, <3>2, <3>3
  <2> QED  BY <2>1, <2>2 DEF Held
<1>12. \A i \in DOMAIN s : \E j \in DOMAIN recs : s[i] = recs[j]
  <2> HIDE DEF at
  <2> QED  BY <1>6
<1> QED  BY <1>4, <1>5, <1>7, <1>8, <1>9, <1>10, <1>11, <1>12 DEF Kept, s

\* A new record goes to the back, where its time belongs.
LEMMA RecordIsKept ==
  ASSUME NEW recs, NEW used, Kept(recs, used), NEW id \in Demos, id \notin Held(recs), now \in 0 .. MaxTime
  PROVE  /\ Kept(Append(recs, Record(id)), used + CostOf(id))
         /\ \A i \in 1 .. Len(recs) : Append(recs, Record(id))[i] = recs[i]
         /\ Append(recs, Record(id))[Len(recs) + 1] = Record(id)
         /\ Len(Append(recs, Record(id))) = Len(recs) + 1
         /\ Held(Append(recs, Record(id))) = Held(recs) \cup {id}
         /\ Record(id).expires > now
<1> DEFINE r == Record(id)  s == Append(recs, r)
<1>1. recs \in Seq(Records) /\ Keyed(recs) /\ Ordered(recs) /\ Timely(recs) /\ used = CostOfAll(recs)
      /\ DOMAIN recs = 1 .. Len(recs) /\ Len(recs) \in Nat
  BY DEF Kept
<1>2. r \in Records /\ r.id = id /\ r.expires = now + TTL /\ now + TTL > now
  BY DemoAssumption DEF Record, Records
<1> HIDE DEF r
<1>3. /\ s \in Seq(Records) /\ Len(s) = Len(recs) + 1 /\ s[Len(recs) + 1] = r
      /\ \A i \in 1 .. Len(recs) : s[i] = recs[i]
      /\ DOMAIN s = 1 .. Len(recs) + 1
  BY <1>1, <1>2
<1>4. CostOfAll(s) = used + CostOf(id)  BY <1>1, <1>2, CostAppends
<1> HIDE DEF s
<1>5. \A i \in DOMAIN s : IF i = Len(recs) + 1 THEN s[i] = r ELSE i \in DOMAIN recs /\ s[i] = recs[i]
  BY <1>1, <1>3
<1>6. Keyed(s)  BY <1>1, <1>2, <1>5 DEF Keyed, Held
<1>7. Timely(s)
  <2> SUFFICES ASSUME NEW i \in DOMAIN s  PROVE s[i].expires <= now + TTL
    BY DEF Timely
  <2>1. now + TTL <= now + TTL  BY DemoAssumption
  <2> QED  BY <1>1, <1>2, <1>5, <2>1 DEF Timely
<1>8. Ordered(s)
  <2> SUFFICES ASSUME NEW i \in DOMAIN s, NEW j \in DOMAIN s, i <= j
               PROVE  s[i].expires <= s[j].expires
    BY DEF Ordered
  <2>1. CASE j = Len(recs) + 1
    BY <1>2, <1>5, <1>7, <2>1 DEF Timely
  <2>2. CASE j # Len(recs) + 1
    <3>1. i # Len(recs) + 1  BY <1>1, <1>3, <2>2
    <3> QED  BY <1>1, <1>5, <2>2, <3>1 DEF Ordered
  <2> QED  BY <2>1, <2>2
<1>9. Held(s) = Held(recs) \cup {id}
  <2>1. Len(recs) + 1 \in DOMAIN s  BY <1>1, <1>3
  <2> QED  BY <1>1, <1>2, <1>3, <1>5, <2>1 DEF Held
<1> QED  BY <1>2, <1>3, <1>4, <1>6, <1>7, <1>8, <1>9 DEF Kept, s, r

-----------------------------------------------------------------------------
(* The steps.                                                              *)

\* Whoever is not in recs any more had expired, or is no younger than anyone in it.
Outlived(recs) ==
  \A i \in DOMAIN store : store[i].id \in Held(recs) \/ store[i].expires <= now \/
     \A j \in DOMAIN recs : recs[j].expires >= store[i].expires
Fresh(recs) == \A i \in DOMAIN recs : recs[i].expires > now

LEMMA RestOf ==
  ASSUME NEW recs \in Seq(Records), NEW n \in 0 .. Len(recs)
  PROVE  /\ \A i \in n + 1 .. Len(recs) : recs[i].id \in Held(SubSeq(recs, n + 1, Len(recs)))
         /\ \A i \in DOMAIN SubSeq(recs, n + 1, Len(recs)) :
              \E j \in n + 1 .. Len(recs) : SubSeq(recs, n + 1, Len(recs))[i] = recs[j]
<1> DEFINE s == SubSeq(recs, n + 1, Len(recs))
<1>1. /\ n \in Nat /\ DOMAIN s = 1 .. Len(recs) - n
      /\ \A i \in 1 .. Len(recs) - n : s[i] = recs[n + i]
  OBVIOUS
<1> HIDE DEF s
<1>2. ASSUME NEW i \in n + 1 .. Len(recs)  PROVE recs[i].id \in Held(s)
  <2>1. i - n \in DOMAIN s /\ s[i - n] = recs[i]  BY <1>1
  <2> QED  BY <2>1 DEF Held
<1>3. ASSUME NEW i \in DOMAIN s  PROVE \E j \in n + 1 .. Len(recs) : s[i] = recs[j]
  <2>1. n + i \in n + 1 .. Len(recs) /\ s[i] = recs[n + i]  BY <1>1
  <2> QED  BY <2>1
<1> QED  BY <1>2, <1>3 DEF s

LEMMA Expiry ==
  ASSUME StoreInv, NEW live, live = GcExpired(store, usedBytes)
  PROVE  /\ Kept(live.recs, live.used) /\ live.used <= usedBytes
         /\ Fresh(live.recs) /\ Outlived(live.recs)
         /\ \A i \in DOMAIN store : store[i].id \in Held(live.recs) \/ store[i].expires <= now
         /\ \A i \in DOMAIN store :
              store[i].expires <= now \/ \E k \in DOMAIN live.recs : live.recs[k] = store[i]
<1>1. Kept(store, usedBytes) /\ now \in Nat /\ store \in Seq(Records)  BY DemoAssumption DEF StoreInv, Kept
<1>2. PICK n \in 0 .. Len(store) :
        /\ live.recs = SubSeq(store, n + 1, Len(store)) /\ live.used = usedBytes - CostOfFirst(store, n)
        /\ \A i \in 1 .. n : store[i].expires <= now
        /\ \A i \in DOMAIN live.recs : live.recs[i].expires > now
  BY <1>1, GcDrops
<1>3. Kept(live.recs, live.used) /\ live.used <= usedBytes  BY <1>1, <1>2, RestIsKept
<1>4. \A i \in DOMAIN store :
        store[i].expires <= now \/ \E k \in DOMAIN live.recs : live.recs[k] = store[i]
  <2> TAKE i \in DOMAIN store
  <2>1. CASE i \in 1 .. n  BY <1>2, <2>1
  <2>2. CASE i \notin 1 .. n
    <3>1. n \in Nat /\ Len(store) \in Nat /\ DOMAIN store = 1 .. Len(store)  BY <1>1
    <3>2. i - n \in 1 .. Len(store) - n /\ n + (i - n) = i  BY <2>2, <3>1
    <3>3. i - n \in DOMAIN live.recs /\ live.recs[i - n] = store[i]
      <4>1. i - n \in DOMAIN live.recs  BY <1>1, <1>2, <3>1, <3>2
      <4>2. live.recs[i - n] = store[n + (i - n)]  BY <1>1, <1>2, <3>1, <3>2
      <4> QED  BY <3>2, <4>1, <4>2
    <3> QED  BY <3>3
  <2> QED  BY <2>1, <2>2
<1>5. \A i \in DOMAIN store : store[i].id \in Held(live.recs) \/ store[i].expires <= now
  BY <1>4 DEF Held
<1> QED  BY <1>2, <1>3, <1>4, <1>5 DEF Fresh, Outlived

LEMMA StatsStep ==
  ASSUME StoreInv, StoreStats
  PROVE  StoreInv' /\ Fresh(store') /\ Outlived(store')
<1> DEFINE live == GcExpired(store, usedBytes)
<1>1. store' = live.recs /\ usedBytes' = live.used /\ now' = now /\ last' = last  BY DEF StoreStats
<1> HIDE DEF live
<1>2. /\ Kept(live.recs, live.used) /\ live.used <= usedBytes
      /\ Fresh(live.recs) /\ Outlived(live.recs)
  BY Expiry DEF live
<1>3. usedBytes <= TotalQuota /\ now \in 0 .. MaxTime /\ last \in Demos \cup {Refused} /\ usedBytes \in Int
  BY KeptInt DEF StoreInv
<1>4. live.used <= TotalQuota
  <2>1. live.used \in Int  BY <1>2, KeptInt
  <2> QED  BY <1>2, <1>3, <2>1, DemoAssumption
<1>5. Kept(store, usedBytes)'  BY <1>1, <1>2 DEF Kept, Timely, Keyed, Ordered
<1> QED  BY <1>1, <1>2, <1>3, <1>4, <1>5 DEF StoreInv

LEMMA RefreshStep ==
  ASSUME StoreInv, NEW id \in Demos, NEW live, live = GcExpired(store, usedBytes),
         id \in Held(live.recs), Refresh(id, live), now' = now
  PROVE  StoreInv' /\ Fresh(store') /\ Outlived(store')
<1> DEFINE rest == Without(live.recs, id)
<1>1. store' = Append(rest, Record(id)) /\ usedBytes' = live.used /\ last' = id  BY DEF Refresh
<1>2. /\ Kept(live.recs, live.used) /\ live.used <= usedBytes
      /\ Fresh(live.recs) /\ Outlived(live.recs)
      /\ \A i \in DOMAIN store : store[i].id \in Held(live.recs) \/ store[i].expires <= now
  BY Expiry
<1>3. now \in 0 .. MaxTime /\ usedBytes <= TotalQuota  BY DEF StoreInv
<1>4. /\ Kept(rest, live.used - CostOf(id)) /\ Held(rest) = Held(live.recs) \ {id}
      /\ \A i \in DOMAIN rest : \E j \in DOMAIN live.recs : rest[i] = live.recs[j]
  BY <1>2, WithoutIsKept
<1> HIDE DEF rest
<1>5. /\ Kept(store', (live.used - CostOf(id)) + CostOf(id))
      /\ \A i \in 1 .. Len(rest) : store'[i] = rest[i]
      /\ store'[Len(rest) + 1] = Record(id) /\ Len(store') = Len(rest) + 1
      /\ Held(store') = Held(rest) \cup {id} /\ Record(id).expires > now
  BY <1>1, <1>3, <1>4, RecordIsKept
<1>6. live.used \in Int /\ usedBytes \in Int /\ CostOf(id) \in Int /\ TotalQuota \in Int
  BY <1>2, KeptInt, CostIsNat, DemoAssumption DEF StoreInv
<1>7. (live.used - CostOf(id)) + CostOf(id) = usedBytes' /\ usedBytes' <= TotalQuota
  BY <1>1, <1>2, <1>3, <1>6
<1>8. Fresh(store')
  <2>1. DOMAIN store' = 1 .. Len(rest) + 1 /\ DOMAIN rest = 1 .. Len(rest) /\ Len(rest) \in Nat
    BY <1>4, <1>5 DEF Kept
  <2> SUFFICES ASSUME NEW i \in DOMAIN store'  PROVE store'[i].expires > now
    BY DEF Fresh
  <2>2. CASE i = Len(rest) + 1  BY <1>5, <2>2
  <2>3. CASE i # Len(rest) + 1
    <3>1. i \in DOMAIN rest /\ i \in 1 .. Len(rest)  BY <2>1, <2>3
    <3> QED  BY <1>2, <1>4, <1>5, <3>1 DEF Fresh
  <2> QED  BY <2>2, <2>3
<1>9. Outlived(store')
  BY <1>2, <1>4, <1>5 DEF Outlived
<1>10. Kept(store, usedBytes)'
  <2>1. Kept(store', usedBytes')  BY <1>5, <1>7
  <2> QED  BY <2>1 DEF Kept, Timely, Keyed, Ordered
<1> QED  BY <1>1, <1>3, <1>7, <1>8, <1>9, <1>10 DEF StoreInv

LEMMA InsertStep ==
  ASSUME StoreInv, NEW id \in Demos, NEW live, live = GcExpired(store, usedBytes),
         id \notin Held(live.recs), now' = now,
         Insert(id, EvictOldest(live.recs, live.used, CostOf(id)))
  PROVE  StoreInv' /\ Fresh(store') /\ Outlived(store')
<1> DEFINE kept == EvictOldest(live.recs, live.used, CostOf(id))
<1>1. /\ Kept(live.recs, live.used) /\ live.used <= usedBytes
      /\ Fresh(live.recs) /\ live.recs \in Seq(Records)
      /\ \A i \in DOMAIN store :
           store[i].expires <= now \/ \E k \in DOMAIN live.recs : live.recs[k] = store[i]
      /\ DOMAIN live.recs = 1 .. Len(live.recs) /\ Len(live.recs) \in Nat /\ Ordered(live.recs)
  BY Expiry DEF Kept
<1>2. PICK n \in 0 .. Len(live.recs) :
        kept.recs = SubSeq(live.recs, n + 1, Len(live.recs)) /\ kept.used = live.used - CostOfFirst(live.recs, n)
  BY <1>1, EvictDrops
<1>i. Insert(id, kept)  OBVIOUS
<1> HIDE DEF kept
<1>3. Kept(kept.recs, kept.used) /\ kept.used <= live.used  BY <1>1, <1>2, RestIsKept
<1>4. /\ \A i \in n + 1 .. Len(live.recs) : live.recs[i].id \in Held(kept.recs)
      /\ \A i \in DOMAIN kept.recs : \E j \in n + 1 .. Len(live.recs) : kept.recs[i] = live.recs[j]
  <2> DEFINE rest == SubSeq(live.recs, n + 1, Len(live.recs))
  <2>1. /\ \A i \in n + 1 .. Len(live.recs) : live.recs[i].id \in Held(rest)
        /\ \A i \in DOMAIN rest : \E j \in n + 1 .. Len(live.recs) : rest[i] = live.recs[j]
    BY <1>1, RestOf
  <2>2. kept.recs = rest  BY <1>2
  <2> HIDE DEF rest
  <2> QED  BY <2>1, <2>2
<1>5. Fresh(kept.recs)
  <2>1. \A j \in n + 1 .. Len(live.recs) : j \in DOMAIN live.recs  BY <1>1
  <2> QED  BY <1>1, <1>4, <2>1 DEF Fresh
<1>6. id \notin Held(kept.recs)
  <2>1. \A j \in n + 1 .. Len(live.recs) : j \in DOMAIN live.recs  BY <1>1
  <2> QED  BY <1>4, <2>1 DEF Held
<1>7. Outlived(kept.recs)
  <2> SUFFICES ASSUME NEW i \in DOMAIN store, store[i].id \notin Held(kept.recs), ~ store[i].expires <= now
               PROVE  \A j \in DOMAIN kept.recs : kept.recs[j].expires >= store[i].expires
    BY DEF Outlived
  <2>1. PICK k \in DOMAIN live.recs : live.recs[k] = store[i]  BY <1>1
  <2>2. k \in 1 .. n  BY <1>1, <1>4, <2>1
  <2> TAKE j \in DOMAIN kept.recs
  <2>3. PICK m \in n + 1 .. Len(live.recs) : kept.recs[j] = live.recs[m]  BY <1>4
  <2>4. m \in DOMAIN live.recs /\ k <= m  BY <1>1, <2>2
  <2>5. live.recs[k].expires <= live.recs[m].expires  BY <1>1, <2>4 DEF Ordered
  <2>6. live.recs[k].expires \in Int /\ live.recs[m].expires \in Int
    <3>1. live.recs[k] \in Records /\ live.recs[m] \in Records  BY <1>1, <2>4
    <3> QED  BY <3>1 DEF Records
  <2> QED  BY <2>1, <2>3, <2>5, <2>6
<1>8. now \in 0 .. MaxTime /\ usedBytes <= TotalQuota /\ last \in Demos \cup {Refused}  BY DEF StoreInv
<1>9. /\ kept.used \in Nat /\ live.used \in Nat /\ usedBytes \in Nat /\ CostOf(id) \in Nat /\ TotalQuota \in Nat
  BY <1>1, <1>3, KeptInt, CostIsNat, DemoAssumption DEF StoreInv
<1>10. CASE kept.used + CostOf(id) > TotalQuota
  <2>1. store' = kept.recs /\ usedBytes' = kept.used /\ last' = Refused  BY <1>i, <1>10 DEF Insert
  <2>2. usedBytes' <= TotalQuota  BY <1>1, <1>3, <1>8, <1>9, <2>1
  <2>3. Kept(store, usedBytes)'  BY <1>3, <2>1 DEF Kept, Timely, Keyed, Ordered
  <2> QED  BY <1>5, <1>7, <1>8, <2>1, <2>2, <2>3 DEF StoreInv
<1>11. CASE ~ kept.used + CostOf(id) > TotalQuota
  <2>1. store' = Append(kept.recs, Record(id)) /\ usedBytes' = kept.used + CostOf(id) /\ last' = id
    BY <1>i, <1>11 DEF Insert
  <2>2. usedBytes' <= TotalQuota  BY <1>9, <1>11, <2>1
  <2>3. /\ Kept(store', usedBytes')
        /\ \A i \in 1 .. Len(kept.recs) : store'[i] = kept.recs[i]
        /\ store'[Len(kept.recs) + 1] = Record(id) /\ Len(store') = Len(kept.recs) + 1
        /\ Held(store') = Held(kept.recs) \cup {id} /\ Record(id).expires > now
    BY <1>3, <1>6, <1>8, <2>1, RecordIsKept
  <2>4. DOMAIN store' = 1 .. Len(kept.recs) + 1 /\ DOMAIN kept.recs = 1 .. Len(kept.recs) /\ Len(kept.recs) \in Nat
    BY <1>3, <2>3 DEF Kept
  <2>5. \A i \in DOMAIN store' : store'[i] = Record(id) \/ (i \in DOMAIN kept.recs /\ store'[i] = kept.recs[i])
    BY <2>3, <2>4
  <2>6. Fresh(store')  BY <1>5, <2>3, <2>5 DEF Fresh
  <2>7. Outlived(store')
    <3> SUFFICES ASSUME NEW i \in DOMAIN store, store[i].id \notin Held(store'), ~ store[i].expires <= now
                 PROVE  \A j \in DOMAIN store' : store'[j].expires >= store[i].expires
      BY DEF Outlived
    <3>1. \A j \in DOMAIN kept.recs : kept.recs[j].expires >= store[i].expires  BY <1>7, <2>3 DEF Outlived
    <3>2. Record(id).expires >= store[i].expires
      <4>1. store[i].expires <= now + TTL  BY DEF StoreInv, Kept, Timely
      <4>2. store[i] \in Records  BY DEF StoreInv, Kept
      <4>3. store[i].expires \in Int  BY <4>2 DEF Records
      <4> QED  BY <1>8, <4>1, <4>3, DemoAssumption DEF Record
    <3> QED  BY <2>5, <3>1, <3>2
  <2>8. Kept(store, usedBytes)'  BY <2>3 DEF Kept, Timely, Keyed, Ordered
  <2> QED  BY <1>8, <2>1, <2>2, <2>6, <2>7, <2>8 DEF StoreInv
<1> QED  BY <1>10, <1>11

LEMMA PutStep ==
  ASSUME StoreInv, NEW id \in Demos, PutDemo(id)
  PROVE  StoreInv' /\ Fresh(store') /\ Outlived(store')
<1> DEFINE live == GcExpired(store, usedBytes)
<1>1. now' = now /\ IF id \in Held(live.recs) THEN Refresh(id, live)
                    ELSE Insert(id, EvictOldest(live.recs, live.used, CostOf(id)))
  BY DEF PutDemo
<1> HIDE DEF live
<1>2. CASE id \in Held(live.recs)  BY <1>1, <1>2, RefreshStep DEF live
<1>3. CASE id \notin Held(live.recs)  BY <1>1, <1>3, InsertStep DEF live
<1> QED  BY <1>2, <1>3

LEMMA GetStep ==
  ASSUME StoreInv, NEW id \in Demos, GetDemo(id)
  PROVE  StoreInv' /\ Outlived(store')
<1>1. PICK i \in DOMAIN store : store[i].id = id /\ store[i].expires <= now  BY DEF GetDemo
<1>2. /\ store' = Without(store, id) /\ usedBytes' = usedBytes - CostOf(id) /\ now' = now /\ last' = last
  BY DEF GetDemo
<1>3. id \in Held(store)  BY <1>1 DEF Held
<1>4. Kept(store', usedBytes') /\ usedBytes' <= usedBytes /\ Held(store') = Held(store) \ {id}
  BY <1>2, <1>3, WithoutIsKept DEF StoreInv
<1>5. Kept(store, usedBytes)'  BY <1>2, <1>4 DEF Kept, Timely, Keyed, Ordered
<1>6. usedBytes' <= TotalQuota
  BY <1>4, KeptInt, DemoAssumption DEF StoreInv
<1>7. Outlived(store')
  <2> SUFFICES ASSUME NEW k \in DOMAIN store, store[k].id \notin Held(store')  PROVE store[k].expires <= now
    BY DEF Outlived
  <2>1. store[k].id = id  BY <1>4 DEF Held
  <2>2. k = i  BY <1>1, <2>1 DEF StoreInv, Kept, Keyed
  <2> QED  BY <1>1, <2>2
<1> QED  BY <1>2, <1>5, <1>6, <1>7 DEF StoreInv

\* Every step keeps the invariant, and drops none but the oldest.
LEMMA StoreStep ==
  ASSUME StoreInv, [DemoNext]_demoVars
  PROVE  /\ StoreInv'
         /\ (\E id \in Demos : PutDemo(id)) \/ StoreStats => Fresh(store')
         /\ demoVars' # demoVars => Outlived(store')
<1>1. ASSUME NEW id \in Demos, PutDemo(id)
      PROVE  StoreInv' /\ Fresh(store') /\ Outlived(store')
  BY <1>1, PutStep
<1>2. ASSUME NEW id \in Demos, GetDemo(id)  PROVE StoreInv' /\ Outlived(store')
  BY <1>2, GetStep
<1>3. ASSUME StoreStats  PROVE StoreInv' /\ Fresh(store') /\ Outlived(store')
  BY <1>3, StatsStep
<1>4. ASSUME Later  PROVE StoreInv' /\ Outlived(store')
  <2>1. now' = now + 1 /\ now < MaxTime /\ store' = store /\ usedBytes' = usedBytes /\ last' = last
    BY <1>4 DEF Later
  <2>2. now \in 0 .. MaxTime /\ store \in Seq(Records)  BY DEF StoreInv, Kept
  <2>3. now' \in 0 .. MaxTime  BY <2>1, <2>2, DemoAssumption
  <2>4. Timely(store)'
    <3> SUFFICES ASSUME NEW i \in DOMAIN store  PROVE store[i].expires <= now' + TTL
      BY <2>1 DEF Timely
    <3>1. store[i].expires <= now + TTL  BY DEF StoreInv, Kept, Timely
    <3>2. store[i] \in Records  BY <2>2
    <3>3. store[i].expires \in Int  BY <3>2 DEF Records
    <3> QED  BY <2>1, <2>2, <3>1, <3>3, DemoAssumption
  <2>5. Kept(store, usedBytes)'  BY <2>1, <2>4 DEF StoreInv, Kept, Keyed, Ordered
  <2>6. Outlived(store')  BY <2>1 DEF Outlived, Held
  <2> QED  BY <2>1, <2>3, <2>5, <2>6 DEF StoreInv
<1>5. ASSUME UNCHANGED demoVars  PROVE StoreInv'
  BY <1>5 DEF demoVars, StoreInv, Kept, Timely, Keyed, Ordered
<1> QED  BY <1>1, <1>2, <1>3, <1>4, <1>5 DEF DemoNext

LEMMA StoreStart ==
  ASSUME DemoInit
  PROVE  StoreInv
<1>1. <<>> \in Seq(Records) /\ Len(<<>>) = 0 /\ DOMAIN <<>> = {}  OBVIOUS
<1>2. CostOfAll(<<>>) = 0  BY <1>1, CostCounts DEF CostOfAll
<1> QED  BY <1>1, <1>2, DemoAssumption DEF DemoInit, StoreInv, Kept, Keyed, Ordered, Timely

\* The demo store pays for exactly what it keeps, stays within its quota, and
\* drops only what has expired or is oldest (putDemo, getDemo, storeStats).
THEOREM QuotaIsHeld == DemoSpec => QuotaHolds
<1>1. DemoSpec => []StoreInv
  <2>1. DemoInit => StoreInv  BY StoreStart
  <2>2. StoreInv /\ [DemoNext]_demoVars => StoreInv'  BY StoreStep
  <2> QED  BY <2>1, <2>2, PTL DEF DemoSpec
<1>2. StoreInv => Accounted  BY DEF StoreInv, Kept, Accounted
<1>3. StoreInv /\ [DemoNext]_demoVars =>
        [/\ (\E id \in Demos : PutDemo(id)) \/ StoreStats => Fresh(store')
         /\ Outlived(store')]_demoVars
  BY StoreStep
<1>4. DemoSpec => OldestGoFirst
  BY <1>1, <1>3, PTL DEF DemoSpec, OldestGoFirst, Fresh, Outlived
<1> QED  BY <1>1, <1>2, <1>4, PTL DEF QuotaHolds

\* Every record, the clock and the counter hold what the code that reads them
\* allows.
THEOREM StoreTyped == DemoSpec => []DemoTypeOK
<1>1. DemoInit => StoreInv  BY StoreStart
<1>2. StoreInv /\ [DemoNext]_demoVars => StoreInv'  BY StoreStep
<1>3. StoreInv => DemoTypeOK
  <2>1. StoreInv => usedBytes \in Nat  BY KeptInt DEF StoreInv
  <2> QED  BY <2>1 DEF StoreInv, Kept, DemoTypeOK, Records
<1> QED  BY <1>1, <1>2, <1>3, PTL DEF DemoSpec
=============================================================================
