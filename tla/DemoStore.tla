----------------------------- MODULE DemoStore -----------------------------
(***************************************************************************)
(* The demo store (server/demo-store.js): a Map of uploaded recordings,    *)
(* found by the hash of their bytes, that pays for what it keeps from a    *)
(* quota and drops what has expired.  Map order is the order of insertion; *)
(* expiry and eviction both take from its front and stop at the first      *)
(* record they keep.  A demo is its id here: two uploads of the same bytes *)
(* are the same id.  A definition named X_Y is X with a plausible bug in it. *)
(***************************************************************************)
EXTENDS Integers, Sequences, SequencesExt

CONSTANTS
  Demos,          \* what may be uploaded
  Bytes,          \* Demos -> its length
  PerDemoCap, TotalQuota, TTL, RecordOverhead,
  MaxTime         \* bound: the clock

\* envInt takes no number from the environment that is not positive (env.js).
ASSUME DemoAssumption ==
  /\ Bytes \in [Demos -> Nat]
  /\ {PerDemoCap, TotalQuota, TTL, RecordOverhead} \subseteq Nat \ {0}
  /\ MaxTime \in Nat

VARIABLES
  store,          \* the Map, front first: <<[id, expires], ...>>
  usedBytes,
  now,            \* Date.now(), which is not set back
  last            \* the id the last upload was given, or Refused

demoVars == <<store, usedBytes, now, last>>

Refused == "refused"
CostOf(id) == Bytes[id] + RecordOverhead
\* What the first n records cost.
CostOfFirst(recs, n) ==
  LET cost[i \in 0 .. Len(recs)] == IF i = 0 THEN 0 ELSE cost[i - 1] + CostOf(recs[i].id)
  IN cost[n]
CostOfAll(recs) == CostOfFirst(recs, Len(recs))
Record(id) == [id |-> id, expires |-> now + TTL]
Held(recs) == {recs[i].id : i \in DOMAIN recs}
Without(recs, id) == RemoveAt(recs, CHOOSE i \in DOMAIN recs : recs[i].id = id)

DemoInit == store = <<>> /\ usedBytes = 0 /\ now = 0 /\ last = Refused

\* The shortest tail of recs whose front Keep(front, bytes used by then) says to keep.
FromFirst(recs, used, Keep(_, _)) ==
  LET n == CHOOSE i \in 0 .. Len(recs) :
             /\ i < Len(recs) => Keep(recs[i + 1], used - CostOfFirst(recs, i))
             /\ \A j \in 0 .. (i - 1) : ~Keep(recs[j + 1], used - CostOfFirst(recs, j))
  IN [recs |-> SubSeq(recs, n + 1, Len(recs)), used |-> used - CostOfFirst(recs, n)]

GcExpired(recs, used) == FromFirst(recs, used, LAMBDA r, u : r.expires > now)

EvictOldest(recs, used, needed) ==
  FromFirst(recs, used, LAMBDA r, u : u + needed <= TotalQuota)

\* A demo that is already there: its time starts again, at the back of the Map.
Refresh_InPlace(id, kept) ==
  /\ store' = [i \in DOMAIN kept.recs |-> IF kept.recs[i].id = id THEN Record(id) ELSE kept.recs[i]]
  /\ usedBytes' = kept.used /\ last' = id
Refresh(id, kept) ==
  /\ store' = Append(Without(kept.recs, id), Record(id))
  /\ usedBytes' = kept.used /\ last' = id

Insert(id, kept) ==
  IF kept.used + CostOf(id) > TotalQuota
  THEN store' = kept.recs /\ usedBytes' = kept.used /\ last' = Refused
  ELSE /\ store' = Append(kept.recs, Record(id))
       /\ usedBytes' = kept.used + CostOf(id) /\ last' = id

PutDemo(id) ==
  /\ Bytes[id] <= PerDemoCap
  /\ LET live == GcExpired(store, usedBytes)
     IN IF id \in Held(live.recs) THEN Refresh(id, live)
        ELSE Insert(id, EvictOldest(live.recs, live.used, CostOf(id)))
  /\ UNCHANGED now

\* A demo found to have expired is dropped where it stands.
GetDemo(id) ==
  /\ \E i \in DOMAIN store : store[i].id = id /\ store[i].expires <= now
  /\ store' = Without(store, id)
  /\ usedBytes' = usedBytes - CostOf(id)
  /\ UNCHANGED <<now, last>>

StoreStats ==
  /\ LET live == GcExpired(store, usedBytes) IN store' = live.recs /\ usedBytes' = live.used
  /\ UNCHANGED <<now, last>>

Later == now < MaxTime /\ now' = now + 1 /\ UNCHANGED <<store, usedBytes, last>>

DemoNext == (\E id \in Demos : PutDemo(id) \/ GetDemo(id)) \/ StoreStats \/ Later

DemoSpec == DemoInit /\ [][DemoNext]_demoVars

-----------------------------------------------------------------------------
DemoTypeOK ==
  /\ store \in Seq([id : Demos, expires : 0 .. MaxTime + TTL])
  /\ usedBytes \in Int /\ now \in 0 .. MaxTime /\ last \in Demos \cup {Refused}

\* The counter the quota is held against is what the store really costs, and
\* stays within the quota, through refreshes, expiries and evictions.
Accounted == usedBytes = CostOfAll(store) /\ usedBytes <= TotalQuota

\* Taking from the front finds them all: no demo that expired is left by an
\* upload or a readout, and a demo dropped before its time is older than any
\* that stays.
OldestGoFirst ==
  [][/\ (\E id \in Demos : PutDemo(id)) \/ StoreStats =>
          \A i \in DOMAIN store' : store'[i].expires > now
     /\ \A i \in DOMAIN store : store[i].id \in Held(store') \/ store[i].expires <= now \/
          \A j \in DOMAIN store' : store'[j].expires >= store[i].expires]_demoVars

\* The quota is held against what is really stored, and what goes is what is oldest.
QuotaHolds == []Accounted /\ OldestGoFirst
=============================================================================
