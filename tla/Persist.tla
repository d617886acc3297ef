------------------------------- MODULE Persist -------------------------------
(***************************************************************************)
(* Savegames and the config between the engine and IndexedDB               *)
(* (client/js/persist.js over idb.js and engine/web/files.c): what a game  *)
(* reads before it boots, the write-through of each file the engine        *)
(* writes, the periodic sync of what is still dirty, and the last flush.   *)
(*                                                                         *)
(* Every one of them awaits: first a connection, then a transaction a      *)
(* file.  IndexedDB grants connections in the order they were asked for    *)
(* and runs the transactions of its one store in the order they were made; *)
(* either may fail.  A file's content is a version: the game that wrote it *)
(* and how often it had.                                                   *)
(*                                                                         *)
(* A definition named X_Y is X with a plausible bug in it.                 *)
(***************************************************************************)
EXTENDS Naturals, Sequences

CONSTANTS
  MaxVersion,   \* bound: how often a game writes each file
  MaxSessions,  \* bound: the games entered, all with the same savegames
  MaxPending,   \* bound: the requests that wait
  MaxFaults     \* bound: the requests that fail, and the crashes of the tab

ASSUME PersistAssumption ==
  MaxSessions \in Nat \ {0} /\ {MaxVersion, MaxPending, MaxFaults} \subseteq Nat

VARIABLES
  ses,          \* which game this is, 1, 2, ...
  stage,        \* "loading", "running" or "ended"
  mem,          \* ses -> file -> version: the Map doom.fileMap of each game
  dirty, warned, lastConfig,    \* startSync's, of the game that runs
  idb,          \* file -> version that is stored
  opens, txs,   \* the jobs that wait for a connection, for a transaction
  faults,
  failed        \* what failed so far: kinds of jobs, or "crash"

persistVars == <<ses, stage, mem, dirty, warned, lastConfig, idb, opens, txs, faults, failed>>

CONFIG == "config"
Files == {"save", CONFIG}
Absent == <<0, 0>>
NothingWaits == opens = <<>> /\ txs = <<>>
Version(s, f) == IF mem[s][f][1] = s THEN mem[s][f] ELSE <<s, 0>>
Newer(s, f) == <<s, Version(s, f)[2] + 1>>
Room == Len(opens) + Len(txs) + 2 <= MaxPending

\* What waits: job of game s, at file f with the bytes it holds, then the rest.
Job(kind, s, f, v, rest) == [kind |-> kind, ses |-> s, file |-> f, ver |-> v, rest |-> rest]

\* loadPersisted, up to its first await.
Load_SavesOnly(s) == Job("load", s, "save", Absent, {})
Load(s) == Job("load", s, "save", Absent, {CONFIG})

PersistInit ==
  /\ ses = 1 /\ stage = "loading"
  /\ mem = [s \in 1 .. MaxSessions |-> [f \in Files |-> Absent]]
  /\ dirty = {} /\ warned = FALSE /\ lastConfig = Absent
  /\ idb = [f \in Files |-> Absent]
  /\ opens = <<Load(1)>> /\ txs = <<>>
  /\ faults = 0 /\ failed = {}

-----------------------------------------------------------------------------
(* The running game.                                                       *)

\* js_file_write and onFileWrite: the bytes go into the Map and, at once, on
\* their way to the store.
Save ==
  /\ stage = "running" /\ Room /\ Version(ses, "save")[2] < MaxVersion
  /\ mem' = [mem EXCEPT ![ses]["save"] = Newer(ses, "save")]
  /\ dirty' = dirty \cup {"save"}
  /\ opens' = Append(opens, Job("write", ses, "save", mem'[ses]["save"], {}))
  /\ UNCHANGED <<ses, stage, warned, lastConfig, idb, txs, faults, failed>>

\* The interval's or a hidden page's sync: _web_save_defaults writes the config,
\* which goes through onFileWrite too, then every dirty file is written again.
\* The first one's bytes are read before the connection is awaited.
Sync ==
  /\ stage = "running" /\ Room
  /\ \E v \in {mem[ses][CONFIG], Newer(ses, CONFIG)} :
       v[2] \in 1 .. MaxVersion /\ mem' = [mem EXCEPT ![ses][CONFIG] = v]
  /\ dirty' = dirty \cup {CONFIG}
  /\ \E f \in dirty' :
       opens' = opens \o <<Job("write", ses, CONFIG, mem'[ses][CONFIG], {}),
                           Job("sync", ses, f, mem'[ses][f], dirty' \ {f})>>
  /\ UNCHANGED <<ses, stage, warned, lastConfig, idb, txs, faults, failed>>

\* endSession: flush, then stop.
End ==
  /\ stage = "running"
  /\ stage' = "ended"
  /\ LET kept == {f \in Files : mem[ses][f] # Absent}
         first == IF "save" \in kept THEN "save" ELSE CONFIG
     IN opens' = IF kept = {} THEN opens
                 ELSE Append(opens, Job("flush", ses, first, mem[ses][first], kept \ {first}))
  /\ UNCHANGED <<ses, mem, dirty, warned, lastConfig, idb, txs, faults, failed>>

\* The next game is entered: what the last one still has on its way goes on.
Enter ==
  /\ stage = "ended" /\ ses < MaxSessions
  /\ ses' = ses + 1 /\ stage' = "loading"
  /\ dirty' = {} /\ warned' = FALSE /\ lastConfig' = Absent
  /\ opens' = Append(opens, Load(ses'))
  /\ UNCHANGED <<mem, idb, txs, faults, failed>>

\* The tab is closed or dies, and is opened again.
Crash ==
  /\ ses < MaxSessions /\ faults < MaxFaults
  /\ faults' = faults + 1 /\ failed' = failed \cup {"crash"}
  /\ ses' = ses + 1 /\ stage' = "loading"
  /\ dirty' = {} /\ warned' = FALSE /\ lastConfig' = Absent
  /\ opens' = <<Load(ses')>> /\ txs' = <<>>
  /\ UNCHANGED <<mem, idb>>

-----------------------------------------------------------------------------
(* IndexedDB answers.                                                      *)

\* The first connection that was asked for.
Opened ==
  /\ opens # <<>>
  /\ opens' = Tail(opens) /\ txs' = Append(txs, Head(opens))
  /\ UNCHANGED <<ses, stage, mem, dirty, warned, lastConfig, idb, faults, failed>>

\* A job goes on to its next file, whose bytes it reads now.
GoesOn(j) ==
  IF j.rest = {} THEN txs' = Tail(txs)
  ELSE \E f \in j.rest :
         txs' = Append(Tail(txs), [j EXCEPT !.file = f, !.ver = mem[j.ses][f], !.rest = @ \ {f}])

\* putFile: the mark is cleared for whatever the file is by now.
PutFile(j) ==
  /\ idb' = [idb EXCEPT ![j.file] = j.ver]
  /\ IF j.kind # "flush" /\ j.ses = ses
     THEN /\ dirty' = dirty \ {j.file}
          /\ lastConfig' = IF j.file = CONFIG THEN j.ver ELSE lastConfig
     ELSE UNCHANGED <<dirty, lastConfig>>
  /\ UNCHANGED <<stage, mem>>

Got(j) ==
  /\ mem' = [mem EXCEPT ![j.ses][j.file] = idb[j.file]]
  /\ stage' = IF j.rest = {} THEN "running" ELSE stage
  /\ UNCHANGED <<idb, dirty, lastConfig>>

Done ==
  /\ txs # <<>>
  /\ IF Head(txs).kind = "load" THEN Got(Head(txs)) ELSE PutFile(Head(txs))
  /\ GoesOn(Head(txs))
  /\ UNCHANGED <<ses, warned, opens, faults, failed>>

\* A request fails: the job ends there.  The player is told, unless it was a
\* flush's; a game whose load fails boots with what it has.
Failed_Silent(j) ==
  /\ faults < MaxFaults /\ faults' = faults + 1 /\ failed' = failed \cup {j.kind}
  /\ stage' = IF j.kind = "load" THEN "running" ELSE stage
  /\ UNCHANGED <<ses, mem, dirty, warned, lastConfig, idb>>
Failed(j) ==
  /\ faults < MaxFaults /\ faults' = faults + 1 /\ failed' = failed \cup {j.kind}
  /\ warned' = (warned \/ (j.kind \in {"write", "sync"} /\ j.ses = ses))
  /\ stage' = IF j.kind = "load" THEN "running" ELSE stage
  /\ UNCHANGED <<ses, mem, dirty, lastConfig, idb>>

OpenFails == opens # <<>> /\ Failed(Head(opens)) /\ opens' = Tail(opens) /\ UNCHANGED txs
TxFails == txs # <<>> /\ Failed(Head(txs)) /\ txs' = Tail(txs) /\ UNCHANGED opens

PersistNext == Save \/ Sync \/ End \/ Enter \/ Crash \/ Opened \/ Done \/ OpenFails \/ TxFails

PersistSpec == PersistInit /\ [][PersistNext]_persistVars

-----------------------------------------------------------------------------
Versions == {Absent} \cup ((1 .. MaxSessions) \X (1 .. MaxVersion))
Jobs == [kind : {"load", "write", "sync", "flush"}, ses : 1 .. MaxSessions, file : Files,
         ver : Versions, rest : SUBSET Files]

PersistTypeOK ==
  /\ ses \in 1 .. MaxSessions /\ stage \in {"loading", "running", "ended"}
  /\ mem \in [1 .. MaxSessions -> [Files -> Versions]]
  /\ dirty \subseteq Files /\ warned \in BOOLEAN /\ lastConfig \in Versions
  /\ idb \in [Files -> Versions]
  /\ opens \in Seq(Jobs) /\ txs \in Seq(Jobs)

Safe(f) == mem[ses][f][1] = ses => idb[f] = mem[ses][f] \/ f \in dirty

\* Once nothing waits, each file the running game has written is stored as it
\* was written last, or will be tried again, or the player was told: whatever
\* overlapped on the way, of this game and the last.  (Unless a load failed: then
\* a sync the last game left behind may still overwrite a file of this one.)
StoredOrTold ==
  stage = "running" /\ NothingWaits /\ "load" \notin failed => warned \/ \A f \in Files : Safe(f)

\* A game entered after another one reads what that one wrote, though its
\* flush was never awaited.
ReloadSeesSaves ==
  [][stage = "loading" /\ stage' = "running" /\ ses > 1 /\ failed' = {} => mem'[ses] = mem[ses - 1]]_persistVars

\* persist.js, "the interval writes whatever is still dirty, so a
\* write-through that failed is retried".  False: the mark of the bytes that
\* failed may have been cleared by an older write of the same file.
FailedIsRetried ==
  stage = "running" /\ NothingWaits /\ "load" \notin failed => \A f \in Files : Safe(f)
=============================================================================
