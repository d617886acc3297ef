--------------------------- MODULE Session_proofs ---------------------------
(***************************************************************************)
(* Proofs about a session in the browser: the tab that the launcher keeps  *)
(* (Launcher), and the game that runs in it (Game), each with its          *)
(* inductive invariant.                                                    *)
(*                                                                         *)
(* The game's is Good: that a state is of its types is the smaller part.   *)
(* What the flags say of one another (Flagged) holds across a load because *)
(* one that is carried out under a demo of two players, which the menu     *)
(* cannot prevent, remembers so (under).  That a seek is fresh holds because the tables a   *)
(* replay goes back to are kept from the first one on (Rewinds), and the   *)
(* monsters' pace because each change of skill shifts them by the same     *)
(* amount (Paced).  That a secret level leads back needs Route besides: an *)
(* intermission knows the next level, and nobody in it waits to be reborn, *)
(* which would load the level again.                                       *)
(***************************************************************************)
EXTENDS Game, Launcher, TLAPS

-----------------------------------------------------------------------------
(* The game.                                                               *)

Fields ==
  {"state", "action", "lev", "next", "secretexit", "ps", "paused", "sendsave", "cmd", "spent",
   "shift", "skill", "usergame", "demo", "netdemo", "advance", "seq", "page", "stage", "count",
   "wi", "new", "tables", "hdr", "singletics", "first", "file", "netgame", "deathmatch", "fast",
   "in", "under"}

Lives == [Slots -> {"live", "dead", "reborn"}]

\* GameTypeOK of any state of the game, with what a save and a request hold.
Typed(v) ==
  /\ v = [f \in Fields |-> v[f]]
  /\ v.state \in States /\ v.action \in Actions
  /\ v.in \in SUBSET Slots /\ v.ps \in Lives
  /\ v.lev \in Nat \X Nat /\ v.next \in Nat /\ v.shift \in Int /\ v.seq \in Int
  /\ v.cmd \in {"none", "save", "pause"} /\ v.new.lev \in Nat \X Nat
  /\ v.netgame \in BOOLEAN /\ v.netdemo \in BOOLEAN /\ v.deathmatch \in BOOLEAN /\ v.fast \in BOOLEAN
  /\ v.demo \in BOOLEAN /\ v.usergame \in BOOLEAN /\ v.paused \in BOOLEAN /\ v.advance \in BOOLEAN
  /\ v.spent \in BOOLEAN /\ v.secretexit \in BOOLEAN /\ v.sendsave \in BOOLEAN
  /\ v.singletics \in BOOLEAN /\ v.under \in BOOLEAN

SavedWell(f) ==
  \/ f = NoFile
  \/ f = BadFile
  \/ f.kind = "good" /\ f.in \in SUBSET Slots /\ f.lev \in Nat \X Nat /\ f.ps \in Lives /\ f.spent \in BOOLEAN

\* What the flags of a session say of one another and of what was asked for.
Flagged(v) ==
  /\ v.netdemo => v.netgame /\ (v.demo \/ v.under)
  /\ v.netgame => boot.netgame \/ v.netdemo
  /\ v.usergame => ~ v.demo

Asked(v) ==
  /\ v.action = "loadgame" => v.file # NoFile /\ "load" \in boot.uses
  /\ v.action = "playdemo" => v.seq \in DOMAIN boot.demos /\ IsDemo(boot.demos[v.seq])

Tics(skill) == IF skill = "nightmare" THEN 1 ELSE 0

\* The monsters are as fast as the skill says, in the game and in the tables that
\* a replay goes back to.
Paced(v) ==
  NeverFast =>
    /\ ~ v.fast /\ v.shift = Tics(v.skill)
    /\ v.tables # NoTables => v.tables.shift = Tics(v.tables.skill)

\* What a replay of h starts from, with the tables t.
Started(t, h, net) ==
  [shift |-> Shift([fast |-> h.fast, shift |-> t.shift, skill |-> t.skill], h.skill),
   skill |-> h.skill, lev |-> h.lev, in |-> h.in,
   ps |-> [p \in Slots |-> IF p \in h.in THEN "live" ELSE "reborn"],
   netgame |-> net, deathmatch |-> h.deathmatch, fast |-> h.fast,
   action |-> "nothing", paused |-> FALSE, advance |-> FALSE, demo |-> TRUE]

\* The replay's header is one that was loaded, and its first start is known.
Rewinds(v) ==
  /\ v.tables = NoTables \/ (v.tables = [kind |-> "kept", shift |-> v.tables.shift, skill |-> v.tables.skill]
                             /\ v.tables.shift \in Int)
  /\ v.hdr # NoFile =>
       /\ v.hdr \in boot.replays /\ v.tables # NoTables
       /\ v.first = Started(v.tables, v.hdr, v.first.netgame)
       /\ v.first.netgame \in BOOLEAN /\ (1 \in v.hdr.in => v.first.netgame)

Good(v) == Typed(v) /\ SavedWell(v.file) /\ Flagged(v) /\ Asked(v) /\ Paced(v) /\ Rewinds(v)

\* What G_DoLoadLevel leaves of a state.
LEMMA LoadLevelIs ==
  ASSUME NEW v, Typed(v)
  PROVE  /\ Typed(G_DoLoadLevel(v)) /\ G_DoLoadLevel(v).action = "nothing"
         /\ G_DoLoadLevel(v).paused = FALSE /\ G_DoLoadLevel(v).state = "level"
         /\ G_DoLoadLevel(v).ps = [p \in Slots |-> IF p \in v.in THEN "live" ELSE v.ps[p]]
         /\ \A f \in Fields \ {"state", "action", "paused", "sendsave", "spent", "ps"} :
              G_DoLoadLevel(v)[f] = v[f]
<1> DEFINE u == G_DoLoadLevel(v)
<1>1. u = [f \in Fields |-> u[f]]  BY DEF G_DoLoadLevel, Typed
<1>2. u.ps = [p \in Slots |-> IF p \in v.in THEN "live" ELSE v.ps[p]]
  BY DEF G_DoLoadLevel, Typed, Fields
<1>3. u.ps \in Lives  BY <1>2 DEF Typed, Lives
<1>4. Typed(u) /\ u.action = "nothing" /\ u.paused = FALSE /\ u.state = "level"
  BY <1>1, <1>3 DEF G_DoLoadLevel, Typed, Fields, States, Actions
<1>5. \A f \in Fields \ {"state", "action", "paused", "sendsave", "spent", "ps"} : u[f] = v[f]
  BY DEF G_DoLoadLevel, Typed
<1> QED  BY <1>2, <1>4, <1>5

\* The fields that Good relates, beyond their types and what is asked for.
Remembered ==
  {"file", "netdemo", "demo", "netgame", "usergame", "fast", "shift", "skill", "tables", "hdr",
   "first", "under"}

\* A step that leaves these alone, and asks for no load and no demo, is right.
LEMMA GoodSame ==
  ASSUME NEW v, Good(v), NEW u, Typed(u), \A f \in Remembered : u[f] = v[f],
         \/ u.action = v.action /\ u.seq = v.seq
         \/ u.action \notin {"loadgame", "playdemo"}
  PROVE  Good(u)
<1>1. /\ u.file = v.file /\ u.netdemo = v.netdemo /\ u.demo = v.demo /\ u.netgame = v.netgame
      /\ u.usergame = v.usergame /\ u.fast = v.fast /\ u.shift = v.shift /\ u.skill = v.skill
      /\ u.tables = v.tables /\ u.hdr = v.hdr /\ u.first = v.first
      /\ u.under = v.under
  BY DEF Remembered
<1>2. SavedWell(u.file) /\ Flagged(u) /\ Asked(u)  BY <1>1 DEF Good, SavedWell, Flagged, Asked
<1>3. Paced(u)  BY <1>1 DEF Good, Paced
<1>4. Rewinds(u)  BY <1>1 DEF Good, Rewinds
<1> QED  BY <1>2, <1>3, <1>4 DEF Good

\* And what G_InitNew does, but for the flags, which the caller has to see to.
Begins(u, v, skill, lev) ==
  /\ Typed(u) /\ u.action = "nothing" /\ u.paused = FALSE /\ u.state = "level"
  /\ u.shift = Shift(v, skill) /\ u.skill = skill /\ u.lev = lev
  /\ u.usergame = TRUE /\ u.demo = FALSE
  /\ u.ps = [p \in Slots |-> IF p \in v.in THEN "live" ELSE "reborn"]
  /\ \A f \in {"netdemo", "netgame", "deathmatch", "fast", "in", "file", "tables", "hdr",
               "first", "advance", "singletics", "seq", "new"} : u[f] = v[f]

\* G_InitNew begins a game at the level it is given.
LEMMA InitNewIs ==
  ASSUME NEW v, Typed(v), NEW skill, NEW lev \in Nat \X Nat
  PROVE  Begins(G_InitNew(v, skill, lev), v, skill, lev)
<1> DEFINE t == [v EXCEPT !.shift = Shift(v, skill), !.skill = skill, !.lev = lev,
                          !.ps = [p \in Slots |-> "reborn"], !.usergame = TRUE, !.demo = FALSE,
                          !.under = FALSE]
<1>1. t = [f \in Fields |-> t[f]]  BY DEF Typed
<1>2. /\ t.shift = Shift(v, skill) /\ t.skill = skill /\ t.lev = lev /\ t.usergame = TRUE
      /\ t.demo = FALSE /\ t.under = FALSE /\ t.ps = [p \in Slots |-> "reborn"]
  BY DEF Typed, Fields
<1>3. \A f \in Fields \ {"shift", "skill", "lev", "ps", "usergame", "demo", "under"} : t[f] = v[f]
  BY DEF Typed
<1>4. Shift(v, skill) \in Int  BY DEF Shift, Typed
<1>5. Typed(t)
  <2>1. t.ps \in Lives  BY <1>2 DEF Lives
  <2> HIDE DEF t
  <2>2. \A f \in {"state", "action", "in", "next", "seq", "cmd", "new", "netgame", "netdemo",
                  "deathmatch", "fast", "paused", "advance", "spent", "secretexit", "sendsave",
                  "singletics"} : t[f] = v[f]
    BY <1>3 DEF Fields
  <2> QED  BY <1>1, <1>2, <1>4, <2>1, <2>2 DEF Typed
<1>6. G_InitNew(v, skill, lev) = G_DoLoadLevel(t)  BY DEF G_InitNew
<1> HIDE DEF t
<1> DEFINE u == G_DoLoadLevel(t)
<1>7. /\ Typed(u) /\ u.action = "nothing" /\ u.paused = FALSE /\ u.state = "level"
      /\ u.ps = [p \in Slots |-> IF p \in t.in THEN "live" ELSE t.ps[p]]
      /\ \A f \in Fields \ {"state", "action", "paused", "sendsave", "spent", "ps"} : u[f] = t[f]
  BY <1>5, LoadLevelIs
<1> HIDE DEF u
<1>8. u.ps = [p \in Slots |-> IF p \in v.in THEN "live" ELSE "reborn"]
  BY <1>2, <1>3, <1>7 DEF Fields
<1>9. /\ u.shift = Shift(v, skill) /\ u.skill = skill /\ u.lev = lev /\ u.usergame = TRUE
      /\ u.demo = FALSE
  BY <1>2, <1>7 DEF Fields
<1>10. \A f \in {"netdemo", "netgame", "deathmatch", "fast", "in", "file", "tables", "hdr",
                 "first", "advance", "singletics", "seq", "new"} : u[f] = v[f]
  BY <1>3, <1>7 DEF Fields
<1>11. Begins(u, v, skill, lev)  BY <1>7, <1>8, <1>9, <1>10 DEF Begins
<1> QED  BY <1>6, <1>11 DEF u

\* The monsters keep the pace when G_InitNew changes the skill.
LEMMA ShiftPaced ==
  ASSUME NEW v, ~ v.fast, v.shift = Tics(v.skill), NEW skill
  PROVE  Shift(v, skill) = Tics(skill)
BY DEF Shift, Tics

\* Nobody else is left, and none of the flags.
LEMMA AloneIs ==
  ASSUME NEW v, Typed(v)
  PROVE  /\ Typed(Alone(v)) /\ ~ Alone(v).netgame /\ ~ Alone(v).netdemo /\ ~ Alone(v).demo
         /\ ~ Alone(v).fast
         /\ \A f \in Fields \ {"demo", "netdemo", "netgame", "deathmatch", "in", "fast"} :
              Alone(v)[f] = v[f]
<1> DEFINE u == Alone(v)
<1>1. u = [f \in Fields |-> u[f]]  BY DEF Alone, Typed
<1>2. /\ u.netgame = FALSE /\ u.netdemo = FALSE /\ u.demo = FALSE /\ u.deathmatch = FALSE
      /\ u.fast = FALSE /\ u.in = v.in \cap {0}
  BY DEF Alone, Typed, Fields
<1>3. \A f \in Fields \ {"demo", "netdemo", "netgame", "deathmatch", "in", "fast"} : u[f] = v[f]
  BY DEF Alone, Typed
<1>4. Typed(u)
  <2> HIDE DEF u
  <2> QED  BY <1>1, <1>2, <1>3 DEF Typed, Fields
<1> QED  BY <1>2, <1>3, <1>4

-----------------------------------------------------------------------------
(* The actions of G_Ticker's loop.                                         *)

\* The level is loaded again, or the next one.
LEMMA LoadLevelGood ==
  ASSUME NEW v, Good(v)  PROVE Good(G_DoLoadLevel(v)) /\ G_DoLoadLevel(v).action = "nothing"
<1> DEFINE u == G_DoLoadLevel(v)
<1>1. /\ Typed(u) /\ u.action = "nothing"
      /\ \A f \in Fields \ {"state", "action", "paused", "sendsave", "spent", "ps"} : u[f] = v[f]
  BY LoadLevelIs DEF Good
<1> HIDE DEF u
<1>2. \A f \in Remembered : u[f] = v[f]  BY <1>1 DEF Fields, Remembered
<1>3. Good(u)  BY <1>1, <1>2, GoodSame
<1> QED  BY <1>1, <1>3 DEF u

\* The next level is loaded.
LEMMA WorldDoneGood ==
  ASSUME NEW v, Good(v)  PROVE Good(G_DoWorldDone(v)) /\ G_DoWorldDone(v).action = "nothing"
<1> DEFINE t == [v EXCEPT !.lev = <<v.lev[1], v.next>>]
<1>1. t = [f \in Fields |-> t[f]]  BY DEF Good, Typed
<1>2. t.lev \in Nat \X Nat  BY DEF Good, Typed, Fields
<1>3. \A f \in Fields \ {"lev"} : t[f] = v[f]  BY DEF Good, Typed
<1>4. t.action = v.action /\ t.seq = v.seq  BY <1>3 DEF Fields
<1>5. Good(t)
  <2> HIDE DEF t
  <2>1. Typed(t)  BY <1>1, <1>2, <1>3 DEF Good, Typed, Fields
  <2>2. \A f \in Remembered : t[f] = v[f]  BY <1>3 DEF Fields, Remembered
  <2> QED  BY <1>4, <2>1, <2>2, GoodSame
<1> QED  BY <1>5, LoadLevelGood DEF G_DoWorldDone

\* G_DoNewGame clears the flags before G_InitNew sets its own.
LEMMA NewGameGood ==
  ASSUME NEW v, Good(v)
  PROVE  Good(G_DoNewGame(v)) /\ G_DoNewGame(v).action = "nothing"
<1> DEFINE a == Alone(v)
           u == G_InitNew(a, v.new.skill, v.new.lev)
<1>1. /\ Typed(a) /\ ~ a.netgame /\ ~ a.netdemo /\ ~ a.demo /\ ~ a.fast
      /\ \A f \in Fields \ {"demo", "netdemo", "netgame", "deathmatch", "in", "fast"} : a[f] = v[f]
  BY AloneIs DEF Good
<1> HIDE DEF a
<1>2. /\ a.file = v.file /\ a.shift = v.shift /\ a.skill = v.skill /\ a.tables = v.tables
      /\ a.hdr = v.hdr /\ a.first = v.first
  BY <1>1 DEF Fields
<1>n. v.new.lev \in Nat \X Nat  BY DEF Good, Typed
<1>b. Begins(u, a, v.new.skill, v.new.lev)  BY <1>1, <1>n, InitNewIs
<1> HIDE DEF u
<1>3. /\ Typed(u) /\ u.action = "nothing" /\ u.shift = Shift(a, v.new.skill)
      /\ u.skill = v.new.skill /\ u.demo = FALSE
      /\ \A f \in {"netdemo", "netgame", "deathmatch", "fast", "in", "file", "tables", "hdr",
                   "first", "advance", "singletics", "seq", "new"} : u[f] = a[f]
  BY <1>b DEF Begins
<1>4. /\ u.netdemo = a.netdemo /\ u.netgame = a.netgame /\ u.fast = a.fast /\ u.file = a.file
      /\ u.tables = a.tables /\ u.hdr = a.hdr /\ u.first = a.first
  BY <1>3
<1>5. SavedWell(u.file) /\ Flagged(u) /\ Asked(u)
  BY <1>1, <1>2, <1>3, <1>4 DEF Good, SavedWell, Flagged, Asked
<1>6. Paced(u)
  <2> SUFFICES ASSUME NeverFast  PROVE Paced(u)  BY DEF Paced
  <2>1. a.shift = Tics(a.skill)  BY <1>2 DEF Good, Paced
  <2>2. u.shift = Tics(u.skill)  BY <1>1, <1>3, <2>1, ShiftPaced
  <2> QED  BY <1>1, <1>2, <1>4, <2>2 DEF Good, Paced
<1>7. Rewinds(u)  BY <1>2, <1>4 DEF Good, Rewinds
<1> QED  BY <1>3, <1>5, <1>6, <1>7 DEF Good, G_DoNewGame, a, u

\* A load leaves the net flags alone, and remembers whether they were a demo's; a
\* refused one changes nothing.
LEMMA LoadGameGood ==
  ASSUME NEW v, Good(v), v.action = "loadgame"
  PROVE  Good(G_DoLoadGame(v)) /\ G_DoLoadGame(v).action = "nothing"
<1>1. v.file # NoFile /\ ~ NeverFast  BY DEF Good, Asked, NeverFast
<1>2. CASE v.file = BadFile
  <2> DEFINE u == [v EXCEPT !.action = "nothing"]
  <2>1. G_DoLoadGame(v) = u  BY <1>2 DEF G_DoLoadGame, BadFile
  <2>2. u = [f \in Fields |-> u[f]] /\ u.action = "nothing"  BY DEF Good, Typed, Fields
  <2>3. \A f \in Fields \ {"action"} : u[f] = v[f]  BY DEF Good, Typed
  <2> HIDE DEF u
  <2>4. Typed(u)  BY <2>2, <2>3 DEF Good, Typed, Fields, Actions
  <2>5. \A f \in Remembered : u[f] = v[f]  BY <2>3 DEF Fields, Remembered
  <2>6. Good(u)  BY <2>2, <2>4, <2>5, GoodSame
  <2> QED  BY <2>1, <2>2, <2>6
<1>3. CASE v.file # BadFile
  <2>1. /\ v.file.kind = "good" /\ v.file.in \in SUBSET Slots /\ v.file.lev \in Nat \X Nat
        /\ v.file.ps \in Lives /\ v.file.spent \in BOOLEAN
    BY <1>1, <1>3 DEF Good, SavedWell
  <2> DEFINE t == [v EXCEPT !.skill = v.file.skill, !.in = v.file.in]
             b == G_InitNew(t, v.file.skill, v.file.lev)
             u == [b EXCEPT !.ps = [p \in Slots |-> IF p \in v.file.in THEN v.file.ps[p] ELSE b.ps[p]],
                            !.spent = v.file.spent, !.under = v.netdemo]
  <2>2. G_DoLoadGame(v) = u  BY <2>1 DEF G_DoLoadGame
  <2>3. t = [f \in Fields |-> t[f]] /\ t.in = v.file.in  BY DEF Good, Typed, Fields
  <2>4. \A f \in Fields \ {"skill", "in"} : t[f] = v[f]  BY DEF Good, Typed
  <2>5. Typed(t)
    <3> HIDE DEF t
    <3> QED  BY <2>1, <2>3, <2>4 DEF Good, Typed, Fields
  <2>6. /\ Typed(b) /\ b.action = "nothing" /\ b.demo = FALSE
        /\ \A f \in {"netdemo", "netgame", "deathmatch", "fast", "in", "file", "tables", "hdr",
                     "first", "advance", "singletics", "seq", "new"} : b[f] = t[f]
    <3> HIDE DEF t
    <3>1. Begins(b, t, v.file.skill, v.file.lev)  BY <2>1, <2>5, InitNewIs
    <3> HIDE DEF b
    <3> QED  BY <3>1 DEF Begins
  <2>7. /\ t.netdemo = v.netdemo /\ t.netgame = v.netgame /\ t.file = v.file
        /\ t.tables = v.tables /\ t.hdr = v.hdr /\ t.first = v.first
    BY <2>4 DEF Fields
  <2> HIDE DEF t
  <2>8. /\ b.netdemo = v.netdemo /\ b.netgame = v.netgame /\ b.file = v.file
        /\ b.tables = v.tables /\ b.hdr = v.hdr /\ b.first = v.first
    BY <2>6, <2>7
  <2> HIDE DEF b
  <2>9. u = [f \in Fields |-> u[f]] /\ \A f \in Fields \ {"ps", "spent", "under"} : u[f] = b[f]
    BY <2>6 DEF Typed
  <2>10. u.ps \in Lives /\ u.spent \in BOOLEAN /\ u.under = v.netdemo
    BY <2>1, <2>6 DEF Typed, Lives, Fields
  <2> HIDE DEF u
  <2>11. Typed(u)
    <3>1. v.netdemo \in BOOLEAN  BY DEF Good, Typed
    <3> QED  BY <2>6, <2>9, <2>10, <3>1 DEF Typed, Fields
  <2>12. /\ u.netdemo = v.netdemo /\ u.netgame = v.netgame /\ u.file = v.file /\ u.demo = FALSE
         /\ u.tables = v.tables /\ u.hdr = v.hdr /\ u.first = v.first /\ u.action = "nothing"
    BY <2>6, <2>8, <2>9 DEF Fields
  <2>13. SavedWell(u.file) /\ Flagged(u) /\ Asked(u)
    BY <1>1, <2>10, <2>12 DEF Good, SavedWell, Flagged, Asked
  <2>14. Paced(u)  BY <1>1 DEF Paced
  <2>15. Rewinds(u)  BY <2>12 DEF Good, Rewinds
  <2> QED  BY <2>2, <2>11, <2>12, <2>13, <2>14, <2>15 DEF Good
<1> QED  BY <1>2, <1>3

\* A demo's header over a state, and the level it begins with.
Plays(u, v, h) ==
  /\ Typed(u) /\ u.action = "nothing" /\ u.paused = FALSE /\ u.state = "level"
  /\ u.shift = Shift([fast |-> h.fast, shift |-> v.shift, skill |-> v.skill], h.skill)
  /\ u.skill = h.skill /\ u.lev = h.lev /\ u.usergame = FALSE /\ u.demo = TRUE
  /\ u.ps = [p \in Slots |-> IF p \in h.in THEN "live" ELSE "reborn"]
  /\ u.in = h.in /\ u.deathmatch = h.deathmatch /\ u.fast = h.fast
  /\ u.netgame = (v.netgame \/ 1 \in h.in) /\ u.netdemo = (v.netdemo \/ 1 \in h.in)
  /\ u.file = v.file /\ u.tables = v.tables /\ u.hdr = v.hdr /\ u.first = v.first
  /\ u.advance = v.advance

\* A demo sets its flags, plays, and is nobody's game.
LEMMA PlayedIs == ASSUME NEW v, Typed(v), NEW h, IsDemo(h)  PROVE Plays(Played(v, h), v, h)
<1>0. h.deathmatch \in BOOLEAN /\ h.fast \in BOOLEAN /\ h.in \in SUBSET Slots /\ h.lev \in Nat \X Nat
  BY DEF IsDemo
<1> DEFINE n1 == v.netgame \/ 1 \in h.in
           n2 == v.netdemo \/ 1 \in h.in
           t == Header(v, h)
           b == G_InitNew(t, h.skill, h.lev)
           u == [b EXCEPT !.usergame = FALSE, !.demo = TRUE]
<1>1. n1 \in BOOLEAN /\ n2 \in BOOLEAN  OBVIOUS
<1>2. t = [v EXCEPT !.deathmatch = h.deathmatch, !.fast = h.fast, !.in = h.in, !.netgame = n1,
                    !.netdemo = n2]
  BY DEF Header
<1> HIDE DEF n1, n2, t
<1>3. t = [f \in Fields |-> t[f]]
      /\ \A f \in Fields \ {"deathmatch", "fast", "in", "netgame", "netdemo"} : t[f] = v[f]
  BY <1>2 DEF Typed
<1>4. /\ t.deathmatch = h.deathmatch /\ t.fast = h.fast /\ t.in = h.in /\ t.netgame = n1
      /\ t.netdemo = n2
  BY <1>2 DEF Typed, Fields
<1>5. Typed(t)  BY <1>0, <1>1, <1>3, <1>4 DEF Typed, Fields
<1>6. Begins(b, t, h.skill, h.lev)  BY <1>0, <1>5, InitNewIs
<1>7. /\ t.shift = v.shift /\ t.skill = v.skill /\ t.file = v.file /\ t.tables = v.tables
      /\ t.hdr = v.hdr /\ t.first = v.first /\ t.advance = v.advance
  BY <1>3 DEF Fields
<1> HIDE DEF b
<1>8. u = [f \in Fields |-> u[f]] /\ \A f \in Fields \ {"usergame", "demo"} : u[f] = b[f]
  BY <1>6 DEF Begins, Typed
<1>9. u.usergame = FALSE /\ u.demo = TRUE  BY <1>6 DEF Begins, Typed, Fields
<1>10. Played(v, h) = u  BY DEF Played, b, t
<1> HIDE DEF u
<1>11. Typed(u)
  <2>1. \A f \in {"state", "action", "in", "ps", "lev", "next", "shift", "seq", "cmd", "new",
                  "netgame", "netdemo", "deathmatch", "fast", "paused", "advance", "spent",
                  "secretexit", "sendsave", "singletics", "under"} : u[f] = b[f]
    BY <1>8 DEF Fields
  <2>2. Typed(b)  BY <1>6 DEF Begins
  <2> QED  BY <1>8, <1>9, <2>1, <2>2 DEF Typed
<1>12. /\ u.action = b.action /\ u.state = b.state /\ u.paused = b.paused /\ u.shift = b.shift /\ u.skill = b.skill
       /\ u.lev = b.lev /\ u.ps = b.ps /\ u.in = b.in /\ u.deathmatch = b.deathmatch
       /\ u.fast = b.fast /\ u.netgame = b.netgame /\ u.netdemo = b.netdemo /\ u.file = b.file
       /\ u.tables = b.tables /\ u.hdr = b.hdr /\ u.first = b.first /\ u.advance = b.advance
  BY <1>8 DEF Fields
<1>13. Shift(t, h.skill) = Shift([fast |-> h.fast, shift |-> v.shift, skill |-> v.skill], h.skill)
  BY <1>4, <1>7 DEF Shift
<1>14. /\ b.action = "nothing" /\ b.state = "level" /\ b.paused = FALSE /\ b.shift = Shift(t, h.skill)
       /\ b.skill = h.skill /\ b.lev = h.lev /\ b.in = t.in /\ b.deathmatch = t.deathmatch
       /\ b.fast = t.fast /\ b.netgame = t.netgame /\ b.netdemo = t.netdemo /\ b.file = t.file
       /\ b.tables = t.tables /\ b.hdr = t.hdr /\ b.first = t.first /\ b.advance = t.advance
       /\ b.ps = [p \in Slots |-> IF p \in t.in THEN "live" ELSE "reborn"]
  BY <1>6 DEF Begins
<1>15. u.netgame = (v.netgame \/ 1 \in h.in) /\ u.netdemo = (v.netdemo \/ 1 \in h.in)
  BY <1>4, <1>12, <1>14 DEF n1, n2
<1> QED  BY <1>4, <1>7, <1>9, <1>10, <1>11, <1>12, <1>13, <1>14, <1>15 DEF Plays

\* What a demo leaves is right, when the state before was, but for a load that
\* was asked for.
LEMMA PlaysGood ==
  ASSUME NEW v, Typed(v), SavedWell(v.file), Flagged(v), Paced(v), Rewinds(v),
         NEW h, IsDemo(h), NeverFast => ~ h.fast, NEW u, Plays(u, v, h)
  PROVE  Good(u)
<1>1. SavedWell(u.file) /\ Asked(u)  BY DEF Plays, Asked
<1>2. Flagged(u)
  <2>1. u.netgame = (v.netgame \/ 1 \in h.in) /\ u.netdemo = (v.netdemo \/ 1 \in h.in)
        /\ u.demo = TRUE /\ u.usergame = FALSE
    BY DEF Plays
  <2>2. (v.netdemo => v.netgame) /\ (v.netgame => boot.netgame \/ v.netdemo)  BY DEF Flagged
  <2> QED  BY <2>1, <2>2 DEF Flagged
<1>3. Paced(u)
  <2> SUFFICES ASSUME NeverFast  PROVE Paced(u)  BY DEF Paced
  <2> DEFINE w == [fast |-> h.fast, shift |-> v.shift, skill |-> v.skill]
  <2>1. ~ w.fast /\ w.shift = Tics(w.skill)  BY DEF Paced
  <2> HIDE DEF w
  <2>2. Shift(w, h.skill) = Tics(h.skill)  BY <2>1, ShiftPaced
  <2>3. u.shift = Tics(u.skill)  BY <2>2 DEF Plays, w
  <2> QED  BY <2>3 DEF Paced, Plays
<1>4. Rewinds(u)  BY DEF Rewinds, Plays
<1> QED  BY <1>1, <1>2, <1>3, <1>4 DEF Good, Plays

\* Another request is made.
LEMMA OnlyAction ==
  ASSUME NEW v, Good(v), NEW a \in Actions \ {"loadgame", "playdemo"}
  PROVE  Good([v EXCEPT !.action = a]) /\ [v EXCEPT !.action = a].action = a
<1> DEFINE u == [v EXCEPT !.action = a]
<1>1. u = [f \in Fields |-> u[f]] /\ u.action = a  BY DEF Good, Typed, Fields
<1>2. \A f \in Fields \ {"action"} : u[f] = v[f]  BY DEF Good, Typed
<1> HIDE DEF u
<1>3. Typed(u)  BY <1>1, <1>2 DEF Good, Typed, Fields
<1>4. \A f \in Remembered : u[f] = v[f]  BY <1>2 DEF Fields, Remembered
<1>5. Good(u)  BY <1>1, <1>3, <1>4, GoodSame
<1> QED  BY <1>1, <1>5 DEF u

\* The title loop asked for the demo its seq is at.
LEMMA PlayDemoGood ==
  ASSUME boot \in Boots, NEW v, Good(v), v.action = "playdemo"
  PROVE  Good(G_DoPlayDemo(v)) /\ G_DoPlayDemo(v).action = "nothing"
<1> DEFINE h == boot.demos[v.seq]
<1>1. v.seq \in DOMAIN boot.demos /\ IsDemo(h)  BY DEF Good, Asked
<1>2. NeverFast => ~ h.fast  BY <1>1 DEF NeverFast, IsDemo
<1>3. CASE h.good
  <2>1. G_DoPlayDemo(v) = Played(v, h)  BY <1>3 DEF G_DoPlayDemo
  <2> HIDE DEF h
  <2>2. Plays(Played(v, h), v, h)  BY <1>1, PlayedIs DEF Good
  <2>3. Good(Played(v, h))  BY <1>1, <1>2, <2>2, PlaysGood DEF Good
  <2> QED  BY <2>1, <2>2, <2>3 DEF Plays
<1>4. CASE ~ h.good
  <2>1. G_DoPlayDemo(v) = [v EXCEPT !.action = "nothing"]  BY <1>4 DEF G_DoPlayDemo
  <2>2. "nothing" \in Actions \ {"loadgame", "playdemo"}  BY DEF Actions
  <2> QED  BY <2>1, <2>2, OnlyAction
<1> QED  BY <1>3, <1>4

\* How most of what follows is shown: what u keeps of v, and what it sets.
Differs(u, v, S) == u = [f \in Fields |-> u[f]] /\ \A f \in Fields \ S : u[f] = v[f]

\* The save that is written holds what the game is.
LEMMA SaveGameGood ==
  ASSUME NEW v, Good(v)
  PROVE  Good(G_DoSaveGame(v)) /\ G_DoSaveGame(v).action = "nothing"
<1> DEFINE f0 == [kind |-> "good", skill |-> v.skill, lev |-> v.lev, in |-> v.in,
                  ps |-> v.ps, spent |-> v.spent]
           u == [v EXCEPT !.action = "nothing", !.file = f0]
<1>1. G_DoSaveGame(v) = u  BY DEF G_DoSaveGame
<1>2. SavedWell(f0)  BY DEF Good, Typed, SavedWell
<1> HIDE DEF f0
<1>3. Differs(u, v, {"action", "file"})  BY DEF Differs, Good, Typed
<1>4. u.action = "nothing" /\ u.file = f0  BY DEF Good, Typed, Fields
<1> HIDE DEF u
<1>5. Typed(u)  BY <1>3, <1>4 DEF Good, Typed, Fields, Actions, Differs
<1>6. \A f \in Remembered \ {"file"} : u[f] = v[f]  BY <1>3 DEF Fields, Remembered, Differs
<1>7. /\ u.netdemo = v.netdemo /\ u.demo = v.demo /\ u.netgame = v.netgame
      /\ u.usergame = v.usergame /\ u.fast = v.fast /\ u.shift = v.shift /\ u.skill = v.skill
      /\ u.tables = v.tables /\ u.hdr = v.hdr /\ u.first = v.first /\ u.under = v.under
  BY <1>6 DEF Remembered
<1>8. SavedWell(u.file) /\ Flagged(u) /\ Asked(u)  BY <1>2, <1>4, <1>7 DEF Good, Flagged, Asked
<1>9. Paced(u)  BY <1>7 DEF Good, Paced
<1>10. Rewinds(u)  BY <1>7 DEF Good, Rewinds
<1> QED  BY <1>1, <1>4, <1>5, <1>8, <1>9, <1>10 DEF Good

\* The next level has a number.
LEMMA NextMapIsNat ==
  ASSUME NEW commercial, NEW lev \in Nat \X Nat, NEW secret \in BOOLEAN, NEW old \in Nat
  PROVE  NextMap(commercial, lev, secret, old) \in Nat
<1>1. AfterSecret(lev[1], old) \in Nat  BY DEF AfterSecret
<1>2. CASE commercial
  <2> DEFINE m == lev[2]
  <2>1. m \in Nat  OBVIOUS
  <2>2. NextMap(commercial, lev, secret, old) =
          CASE secret /\ m = 15 -> 31
            [] secret /\ m = 31 -> 32
            [] secret /\ m \notin {15, 31} -> old
            [] ~ secret /\ m \in {31, 32} -> 16
            [] OTHER -> m + 1
    BY <1>2 DEF NextMap
  <2> HIDE DEF m
  <2> QED  BY <2>1, <2>2
<1>3. CASE ~ commercial
  <2> DEFINE m == lev[2]
             a == AfterSecret(lev[1], old)
  <2>1. m \in Nat /\ a \in Nat  BY <1>1
  <2>2. NextMap(commercial, lev, secret, old) =
          CASE secret -> 9 [] ~ secret /\ m = 9 -> a [] OTHER -> m + 1
    BY <1>3 DEF NextMap
  <2> HIDE DEF m, a
  <2> QED  BY <2>1, <2>2
<1> QED  BY <1>2, <1>3

\* The level is left, for an intermission or, in the eighth, for the finale.
LEMMA CompletedGood ==
  ASSUME NEW v, Good(v), NEW frags
  PROVE  Good(G_DoCompleted(v, frags))
<1>1. CASE ~ boot.commercial /\ v.lev[2] = 8
  <2>1. G_DoCompleted(v, frags) = [v EXCEPT !.action = "victory"]  BY <1>1 DEF G_DoCompleted
  <2>2. "victory" \in Actions \ {"loadgame", "playdemo"}  BY DEF Actions
  <2> QED  BY <2>1, <2>2, OnlyAction
<1>2. CASE ~ (~ boot.commercial /\ v.lev[2] = 8)
  <2> DEFINE n == NextMap(boot.commercial, v.lev, v.secretexit, v.next)
             w == WI_Start(Kind(v), frags)
             u == [v EXCEPT !.action = "nothing", !.state = "intermission", !.next = n, !.wi = w]
  <2>1. G_DoCompleted(v, frags) = u  BY <1>2 DEF G_DoCompleted
  <2>2. n \in Nat
    <3>1. v.lev \in Nat \X Nat /\ v.secretexit \in BOOLEAN /\ v.next \in Nat  BY DEF Good, Typed
    <3> QED  BY <3>1, NextMapIsNat
  <2> HIDE DEF n, w
  <2>3. Differs(u, v, {"action", "state", "next", "wi"})  BY DEF Differs, Good, Typed
  <2>4. u.action = "nothing" /\ u.state = "intermission" /\ u.next = n
    BY DEF Good, Typed, Fields
  <2> HIDE DEF u
  <2>5. Typed(u)  BY <2>2, <2>3, <2>4 DEF Good, Typed, Fields, Actions, States, Differs
  <2>6. \A f \in Remembered : u[f] = v[f]  BY <2>3 DEF Fields, Remembered, Differs
  <2>7. Good(u)  BY <2>4, <2>5, <2>6, GoodSame
  <2> QED  BY <2>1, <2>7
<1> QED  BY <1>1, <1>2

\* A finale begins.
LEMMA FinaleGood ==
  ASSUME NEW v, Good(v)
  PROVE  Good(F_StartFinale(v))
<1> DEFINE u == F_StartFinale(v)
<1>1. Differs(u, v, {"action", "state", "stage", "count"})
  BY DEF F_StartFinale, Differs, Good, Typed
<1>2. u.action = "nothing" /\ u.state = "finale"  BY DEF F_StartFinale, Good, Typed, Fields
<1> HIDE DEF u
<1>3. Typed(u)  BY <1>1, <1>2 DEF Good, Typed, Fields, Actions, States, Differs
<1>4. \A f \in Remembered : u[f] = v[f]  BY <1>1 DEF Fields, Remembered, Differs
<1>5. Good(u)  BY <1>2, <1>3, <1>4, GoodSame
<1> QED  BY <1>5 DEF u

\* The intermission is over.
LEMMA LeaveGood ==
  ASSUME NEW v, Good(v)
  PROVE  Good(G_WorldDone(v))
<1>1. "worlddone" \in Actions \ {"loadgame", "playdemo"}  BY DEF Actions
<1>2. Good(F_StartFinale(v)) /\ Good([v EXCEPT !.action = "worlddone"])
  BY <1>1, FinaleGood, OnlyAction
<1>3. \/ G_WorldDone(v) = F_StartFinale(v)
      \/ G_WorldDone(v) = [v EXCEPT !.action = "worlddone"]
  BY DEF G_WorldDone
<1> QED  BY <1>2, <1>3

\* Whatever was asked for is carried out.
LEMMA ActGood ==
  ASSUME boot \in Boots, NEW v, Good(v), NEW frags
  PROVE  Good(Act(v, frags))
<1>1. Good(G_DoLoadLevel(v))  BY LoadLevelGood
<1>2. Good(G_DoNewGame(v))  BY NewGameGood
<1>3. v.action = "loadgame" => Good(G_DoLoadGame(v))  BY LoadGameGood
<1>4. Good(G_DoSaveGame(v))  BY SaveGameGood
<1>5. v.action = "playdemo" => Good(G_DoPlayDemo(v))  BY PlayDemoGood
<1>6. Good(G_DoCompleted(v, frags))  BY CompletedGood
<1>7. Good(F_StartFinale(v))  BY FinaleGood
<1>8. Good(G_DoWorldDone(v))  BY WorldDoneGood
<1> HIDE DEF Good
<1>9. /\ v.action = "loadlevel" => Act(v, frags) = G_DoLoadLevel(v)
      /\ v.action = "newgame" => Act(v, frags) = G_DoNewGame(v)
      /\ v.action = "loadgame" => Act(v, frags) = G_DoLoadGame(v)
      /\ v.action = "savegame" => Act(v, frags) = G_DoSaveGame(v)
      /\ v.action = "playdemo" => Act(v, frags) = G_DoPlayDemo(v)
      /\ v.action = "completed" => Act(v, frags) = G_DoCompleted(v, frags)
      /\ v.action = "victory" => Act(v, frags) = F_StartFinale(v)
      /\ v.action = "worlddone" => Act(v, frags) = G_DoWorldDone(v)
      /\ v.action \notin {"loadlevel", "newgame", "loadgame", "savegame", "playdemo",
                          "completed", "victory", "worlddone"} => Act(v, frags) = v
  BY DEF Act
<1> QED  BY <1>1, <1>2, <1>3, <1>4, <1>5, <1>6, <1>7, <1>8, <1>9

-----------------------------------------------------------------------------
(* The rest of a tic.                                                      *)

\* A state with other players' states, and nothing else.
LEMMA OnlyPlayers ==
  ASSUME NEW v, Good(v), NEW q \in Lives
  PROVE  Good([v EXCEPT !.ps = q])
<1> DEFINE u == [v EXCEPT !.ps = q]
<1>1. Differs(u, v, {"ps"}) /\ u.ps = q  BY DEF Differs, Good, Typed, Fields
<1> HIDE DEF u
<1>2. Typed(u)  BY <1>1 DEF Good, Typed, Fields, Differs
<1>3. (\A f \in Remembered : u[f] = v[f]) /\ u.action = v.action /\ u.seq = v.seq
  BY <1>1 DEF Fields, Remembered, Differs
<1>4. Good(u)  BY <1>2, <1>3, GoodSame
<1> QED  BY <1>4 DEF u

\* The dead come back: the level is loaded again, or a player spawned.
LEMMA RebornsGood == ASSUME NEW v, Good(v)  PROVE Good(Reborns(v))
<1> DEFINE dead == {p \in v.in : v.ps[p] = "reborn"}
           q == [p \in Slots |-> IF p \in dead THEN "live" ELSE v.ps[p]]
<1>1. q \in Lives  BY DEF Good, Typed, Lives
<1>2. "loadlevel" \in Actions \ {"loadgame", "playdemo"}  BY DEF Actions
<1>3. \/ Reborns(v) = v
      \/ Reborns(v) = [v EXCEPT !.ps = q]
      \/ Reborns(v) = [v EXCEPT !.action = "loadlevel"]
  BY DEF Reborns
<1> HIDE DEF q
<1> QED  BY <1>1, <1>2, <1>3, OnlyPlayers, OnlyAction

\* A demo is over: a game of one's own is left, whatever was asked for.
LEMMA CheckDemoGood == ASSUME NEW v, Good(v)  PROVE Good(G_CheckDemoStatus(v))
<1> DEFINE a == Alone(v)
           u == [a EXCEPT !.advance = TRUE]
<1>1. /\ Typed(a) /\ ~ a.netgame /\ ~ a.netdemo /\ ~ a.demo /\ ~ a.fast
      /\ \A f \in Fields \ {"demo", "netdemo", "netgame", "deathmatch", "in", "fast"} : a[f] = v[f]
  BY AloneIs DEF Good
<1> HIDE DEF a
<1>2. /\ a.file = v.file /\ a.shift = v.shift /\ a.skill = v.skill /\ a.tables = v.tables
      /\ a.hdr = v.hdr /\ a.first = v.first /\ a.action = v.action /\ a.seq = v.seq
  BY <1>1 DEF Fields
<1>3. SavedWell(a.file) /\ Flagged(a) /\ Asked(a)
  BY <1>1, <1>2 DEF Good, SavedWell, Flagged, Asked
<1>4. Paced(a) /\ Rewinds(a)  BY <1>1, <1>2 DEF Good, Paced, Rewinds
<1>5. Good(a)  BY <1>1, <1>3, <1>4 DEF Good
<1>6. Differs(u, a, {"advance"}) /\ u.advance = TRUE  BY <1>1 DEF Differs, Typed, Fields
<1> HIDE DEF u
<1>7. Typed(u)  BY <1>1, <1>6 DEF Typed, Fields, Differs
<1>8. (\A f \in Remembered : u[f] = a[f]) /\ u.action = a.action /\ u.seq = a.seq
  BY <1>6 DEF Fields, Remembered, Differs
<1>9. Good(u)  BY <1>5, <1>7, <1>8, GoodSame
<1> QED  BY <1>9 DEF u, a, G_CheckDemoStatus

\* The title loop goes round its pages and demos.
LEMMA AroundTheLoop ==
  ASSUME boot \in Boots, NEW s \in Int
  PROVE  (s + 1) % Cardinality(DOMAIN boot.demos) \in DOMAIN boot.demos
<1> DEFINE n == Cardinality(DOMAIN boot.demos)
<1>1. n \in Nat \ {0} /\ DOMAIN boot.demos = 0 .. n - 1  BY GameAssumption
<1> HIDE DEF n
<1>2. (s + 1) % n \in 0 .. n - 1  BY <1>1
<1> QED  BY <1>1, <1>2 DEF n

\* The title loop goes on to a page, or asks for a demo.
LEMMA AdvanceGood ==
  ASSUME boot \in Boots, NEW v, Good(v)
  PROVE  Good(D_DoAdvanceDemo(v))
<1> DEFINE seq == (v.seq + 1) % Cardinality(DOMAIN boot.demos)
           q == [v.ps EXCEPT ![0] = "live"]
           t == [v EXCEPT !.ps = q, !.advance = FALSE, !.usergame = FALSE, !.paused = FALSE,
                          !.seq = seq]
           u == IF boot.demos[seq].kind = "page"
                THEN [t EXCEPT !.action = "nothing", !.state = "demoscreen", !.page = PageTics]
                ELSE [t EXCEPT !.action = "playdemo"]
<1>1. seq \in DOMAIN boot.demos  BY AroundTheLoop DEF Good, Typed
<1>2. seq \in Int
  <2>1. PICK n \in Nat \ {0} : DOMAIN boot.demos = 0 .. n - 1  BY GameAssumption
  <2> QED  BY <1>1, <2>1
<1>3. q \in Lives  BY DEF Good, Typed, Lives
<1>4. D_DoAdvanceDemo(v) = u  BY DEF D_DoAdvanceDemo, Good, Typed, Fields
<1>5. boot.demos[seq].kind = "page" \/ IsDemo(boot.demos[seq])  BY <1>1, GameAssumption
<1> HIDE DEF seq, q
<1>6. Differs(t, v, {"ps", "advance", "usergame", "paused", "seq"})  BY DEF Differs, Good, Typed
<1>7. t.ps = q /\ t.advance = FALSE /\ t.usergame = FALSE /\ t.paused = FALSE /\ t.seq = seq
  BY DEF Good, Typed, Fields
<1> HIDE DEF t
<1>8. Differs(u, t, {"action", "state", "page"})  BY <1>6 DEF Differs
<1>9. \/ u.action = "nothing" /\ u.state = "demoscreen"
      \/ u.action = "playdemo" /\ u.state = t.state /\ IsDemo(boot.demos[seq])
  BY <1>5, <1>6 DEF Differs, Fields
<1> HIDE DEF u
<1>10. Typed(t)  BY <1>2, <1>3, <1>6, <1>7 DEF Good, Typed, Fields, Differs
<1>11. Typed(u)  BY <1>8, <1>9, <1>10 DEF Typed, Fields, Differs, Actions, States
<1>12. /\ \A f \in Remembered \ {"usergame"} : u[f] = v[f]
       /\ u.usergame = FALSE /\ u.seq = seq
  BY <1>6, <1>7, <1>8 DEF Fields, Remembered, Differs
<1>13. /\ u.file = v.file /\ u.netdemo = v.netdemo /\ u.demo = v.demo /\ u.netgame = v.netgame
       /\ u.fast = v.fast /\ u.shift = v.shift /\ u.skill = v.skill
       /\ u.tables = v.tables /\ u.hdr = v.hdr /\ u.first = v.first /\ u.under = v.under
  BY <1>12 DEF Remembered
<1>14. SavedWell(u.file) /\ Flagged(u)  BY <1>12, <1>13 DEF Good, SavedWell, Flagged
<1>15. Asked(u)  BY <1>1, <1>9, <1>12 DEF Asked
<1>16. Paced(u)  BY <1>13 DEF Good, Paced
<1>17. Rewinds(u)  BY <1>13 DEF Good, Rewinds
<1> QED  BY <1>4, <1>11, <1>14, <1>15, <1>16, <1>17 DEF Good

\* A step over such fields and over some that are right by their types.
LEMMA GoodBut ==
  ASSUME NEW v, Good(v), NEW S, S \cap (Remembered \cup {"action", "seq"}) = {},
         NEW u, Differs(u, v, S), Typed(u)
  PROVE  Good(u)
<1>1. \A f \in Remembered : u[f] = v[f]  BY DEF Differs, Remembered, Fields
<1>2. u.action = v.action /\ u.seq = v.seq  BY DEF Differs, Fields
<1> QED  BY <1>1, <1>2, GoodSame

\* A title page runs.
LEMMA PageGood == ASSUME NEW v, Good(v)  PROVE Good(D_PageTicker(v))
<1> DEFINE p == IF v.page > 0 THEN v.page - 1 ELSE Endless
           a == v.advance \/ v.page <= 0
           u == [v EXCEPT !.page = p, !.advance = a]
<1>1. D_PageTicker(v) = u  BY DEF D_PageTicker
<1>2. a \in BOOLEAN  OBVIOUS
<1> HIDE DEF p, a
<1>3. Differs(u, v, {"page", "advance"}) /\ u.advance = a  BY DEF Differs, Good, Typed, Fields
<1> HIDE DEF u
<1>4. Typed(u)  BY <1>2, <1>3 DEF Good, Typed, Fields, Differs
<1>5. {"page", "advance"} \cap (Remembered \cup {"action", "seq"}) = {}  BY DEF Remembered
<1>6. Good(u)  BY <1>3, <1>4, <1>5, GoodBut
<1> QED  BY <1>1, <1>6

\* Players come and go in a net game.
LEMMA RosterGood ==
  ASSUME NEW v, Good(v), NEW now \in SUBSET Slots  PROVE Good(Roster(v, now))
<1> DEFINE q == [p \in Slots |-> IF p \in now \ v.in THEN "reborn" ELSE v.ps[p]]
           u == [v EXCEPT !.in = now, !.ps = q]
<1>1. Roster(v, now) = v \/ Roster(v, now) = u  BY DEF Roster
<1>2. q \in Lives  BY DEF Good, Typed, Lives
<1> HIDE DEF q
<1>3. Differs(u, v, {"in", "ps"}) /\ u.in = now /\ u.ps = q  BY DEF Differs, Good, Typed, Fields
<1> HIDE DEF u
<1>4. Typed(u)  BY <1>2, <1>3 DEF Good, Typed, Fields, Differs
<1>5. {"in", "ps"} \cap (Remembered \cup {"action", "seq"}) = {}  BY DEF Remembered
<1>6. Good(u)  BY <1>3, <1>4, <1>5, GoodBut
<1> QED  BY <1>1, <1>6

\* The special buttons: a save is asked for, which replaces what was.
LEMMA CmdsGood == ASSUME NEW v, Good(v), NEW late  PROVE Good(Cmds(v, late))
<1> DEFINE p == IF v.cmd = "pause" THEN ~ v.paused ELSE v.paused
           a == IF v.cmd = "save" THEN "savegame" ELSE v.action
           u == [v EXCEPT !.cmd = "none", !.paused = p, !.action = a]
<1>1. Cmds(v, late) = v \/ Cmds(v, late) = u  BY DEF Cmds
<1>2. p \in BOOLEAN /\ a \in Actions /\ a \in {v.action, "savegame"}
  BY DEF Good, Typed, Actions
<1> HIDE DEF p, a
<1>3. Differs(u, v, {"cmd", "paused", "action"}) /\ u.cmd = "none" /\ u.paused = p /\ u.action = a
  BY DEF Differs, Good, Typed, Fields
<1> HIDE DEF u
<1>4. Typed(u)  BY <1>2, <1>3 DEF Good, Typed, Fields, Differs
<1>5. (\A f \in Remembered : u[f] = v[f]) /\ u.seq = v.seq  BY <1>3 DEF Fields, Remembered, Differs
<1>6. Good(u)  BY <1>2, <1>3, <1>4, <1>5, GoodSame
<1> QED  BY <1>1, <1>6

\* A player dies or asks to come back, and the level is left.
LEMMA PlaysimGood ==
  ASSUME NEW v, Good(v), NEW who \in v.in, NEW fate, NEW exit
  PROVE  Good(P_Ticker(v, who, fate, exit))
<1> DEFINE x == CASE fate = "die" -> "dead" [] fate = "use" -> "reborn" [] OTHER -> v.ps[who]
           q == [v.ps EXCEPT ![who] = x]
           m == [v EXCEPT !.ps = q]
           s == v.spent \/ v.lev \in SwitchExits
           e == (exit = "secret")
           u == [m EXCEPT !.action = "completed", !.secretexit = e, !.spent = s]
<1>1. x \in {"live", "dead", "reborn"}
  <2>1. v.ps[who] \in {"live", "dead", "reborn"}  BY DEF Good, Typed, Lives
  <2> QED  BY <2>1
<1>2. q \in Lives  BY <1>1 DEF Good, Typed, Lives
<1>3. [v EXCEPT !.ps[who] = x] = m  BY DEF Good, Typed, Fields
<1>4. P_Ticker(v, who, fate, exit) \in {v, m, u}  BY <1>3 DEF P_Ticker
<1>5. s \in BOOLEAN /\ e \in BOOLEAN  OBVIOUS
<1> HIDE DEF x, q, s, e
<1>6. Good(m)  BY <1>2, OnlyPlayers
<1> HIDE DEF m
<1>7. Differs(u, m, {"action", "secretexit", "spent"}) /\ u.action = "completed"
      /\ u.secretexit = e /\ u.spent = s
  BY <1>6 DEF Differs, Good, Typed, Fields
<1> HIDE DEF u
<1>8. Typed(u)  BY <1>5, <1>6, <1>7 DEF Good, Typed, Fields, Differs, Actions
<1>9. \A f \in Remembered : u[f] = m[f]  BY <1>7 DEF Fields, Remembered, Differs
<1>10. Good(u)  BY <1>6, <1>7, <1>8, <1>9, GoodSame
<1> QED  BY <1>4, <1>6, <1>10

\* A count goes on, and perhaps ends the intermission.
LEMMA CountGood ==
  ASSUME NEW v, Good(v), NEW press, NEW passes
  PROVE  Good(WI_Tick(v, press, passes))
<1> DEFINE w == WI_Ticker(v.wi, press, boot.commercial, passes)
           u == [v EXCEPT !.wi = w]
<1>1. WI_Tick(v, press, passes) = u \/ WI_Tick(v, press, passes) = G_WorldDone(u)
  BY DEF WI_Tick
<1> HIDE DEF w
<1>2. Differs(u, v, {"wi"})  BY DEF Differs, Good, Typed
<1> HIDE DEF u
<1>3. Typed(u)  BY <1>2 DEF Good, Typed, Fields, Differs
<1>4. {"wi"} \cap (Remembered \cup {"action", "seq"}) = {}  BY DEF Remembered
<1>5. Good(u)  BY <1>2, <1>3, <1>4, GoodBut
<1> QED  BY <1>1, <1>5, LeaveGood

\* A finale's text runs.
LEMMA TextGood == ASSUME NEW v, Good(v), NEW press  PROVE Good(F_Ticker(v, press))
<1> DEFINE c == [v EXCEPT !.stage = "cast"]
           d == [v EXCEPT !.action = "worlddone"]
           n(x) == IF v.count > SkipTics + TextTics THEN v.count ELSE v.count + 1
<1>1. "worlddone" \in Actions \ {"loadgame", "playdemo"}  BY DEF Actions
<1>2. Good(d)  BY <1>1, OnlyAction
<1>3. Good(c)
  <2>1. Differs(c, v, {"stage"})  BY DEF Differs, Good, Typed
  <2> HIDE DEF c
  <2>2. Typed(c)  BY <2>1 DEF Good, Typed, Fields, Differs
  <2>3. {"stage"} \cap (Remembered \cup {"action", "seq"}) = {}  BY DEF Remembered
  <2> QED  BY <2>1, <2>2, <2>3, GoodBut
<1>4. \E u \in {v, c, d} :
        F_Ticker(v, press) \in {[u EXCEPT !.count = 0, !.stage = "picture"],
                                [u EXCEPT !.count = v.count], [u EXCEPT !.count = v.count + 1]}
  BY DEF F_Ticker
<1>5. PICK u \in {v, c, d} :
        F_Ticker(v, press) \in {[u EXCEPT !.count = 0, !.stage = "picture"],
                                [u EXCEPT !.count = v.count], [u EXCEPT !.count = v.count + 1]}
  BY <1>4
<1>6. Good(u)  BY <1>2, <1>3, <1>5
<1> HIDE DEF c, d
<1> DEFINE z == F_Ticker(v, press)
<1> HIDE DEF z
<1>7. Differs(z, u, {"count", "stage"})  BY <1>5, <1>6 DEF Differs, Good, Typed, z
<1>8. Typed(z)  BY <1>6, <1>7 DEF Good, Typed, Fields, Differs
<1>9. {"count", "stage"} \cap (Remembered \cup {"action", "seq"}) = {}  BY DEF Remembered
<1>10. Good(z)  BY <1>6, <1>7, <1>8, <1>9, GoodBut
<1> QED  BY <1>10 DEF z

\* What is set anew is forgotten.
LEMMA SettledGood == ASSUME NEW v, Good(v)  PROVE Good(Settled(v))
<1> DEFINE n == IF v.action = "newgame" THEN v.new ELSE Idle.new
           x == IF v.state = "level" /\ v.action # "completed" THEN FALSE ELSE v.secretexit
           u == Settled(v)
<1>1. n.lev \in Nat \X Nat /\ x \in BOOLEAN  BY DEF Good, Typed, Idle, Title
<1>2. Differs(u, v, {"wi", "stage", "count", "page", "new", "secretexit"})
  BY DEF Differs, Good, Typed, Settled
<1>3. u.new = n /\ u.secretexit = x  BY DEF Settled, Good, Typed, Fields
<1> HIDE DEF n, x, u
<1>4. Typed(u)  BY <1>1, <1>2, <1>3 DEF Good, Typed, Fields, Differs
<1>5. {"wi", "stage", "count", "page", "new", "secretexit"} \cap (Remembered \cup {"action", "seq"}) = {}
  BY DEF Remembered
<1>6. Good(u)  BY <1>2, <1>4, <1>5, GoodBut
<1> QED  BY <1>6 DEF u

\* A tic up to its cmds.
LEMMA BegunGood ==
  ASSUME boot \in Boots, Good(g), NEW now \in SUBSET Slots, NEW frags, NEW b \in Begun(now, frags)
  PROVE  Good(b)
<1> DEFINE r0 == Roster(g, now)
           a0 == IF r0.advance THEN D_DoAdvanceDemo(r0) ELSE r0
           r1 == Reborns(a0)
<1>1. b = Act(Act(r1, frags), frags)  BY DEF Begun
<1>2. Good(r0)  BY RosterGood
<1> HIDE DEF r0
<1>3. Good(a0)  BY <1>2, AdvanceGood
<1> HIDE DEF a0
<1>4. Good(r1)  BY <1>3, RebornsGood
<1> HIDE DEF r1
<1>5. Good(Act(r1, frags))  BY <1>4, ActGood
<1>6. Good(Act(Act(r1, frags), frags))  BY <1>5, ActGood
<1> QED  BY <1>1, <1>6

\* A tic, from the roster to the screen's ticker.
LEMMA TicGood ==
  ASSUME boot \in Boots, Good(g), NEW press, Tic(press)
  PROVE  Good(g') /\ boot' = boot /\ menu' = menu
<1>0. boot' = boot /\ menu' = menu  BY DEF Tic
<1>1. PICK now \in IF boot.netgame THEN {r \in SUBSET Slots : 0 \in r} ELSE {g.in},
           frags \in {FALSE} \cup IF g.action = "completed" THEN {g.netgame} ELSE {} :
     \E b \in Begun(now, frags), over \in BOOLEAN, late \in BOOLEAN :
       /\ over => b.demo
       /\ late => b.cmd # "none"
       /\ \E d \in {Cmds(c, late) : c \in {IF over THEN G_CheckDemoStatus(b) ELSE b}} :
            Ticker(d, press)
  BY DEF Tic
<1>2. PICK b \in Begun(now, frags), over \in BOOLEAN, late \in BOOLEAN :
       \E d \in {Cmds(c, late) : c \in {IF over THEN G_CheckDemoStatus(b) ELSE b}} :
            Ticker(d, press)
  BY <1>1
<1> DEFINE c == IF over THEN G_CheckDemoStatus(b) ELSE b
           d == Cmds(c, late)
<1>3. Ticker(d, press)  BY <1>2
<1>4. now \in SUBSET Slots  BY <1>1 DEF Good, Typed
<1>5. Good(b)  BY <1>2, <1>4, BegunGood
<1>6. Good(c)  BY <1>5, CheckDemoGood
<1> HIDE DEF c
<1>7. Good(d)  BY <1>6, CmdsGood
<1> HIDE DEF d
<1>8. d.state \in {"level", "intermission", "finale", "demoscreen"}
  BY <1>7 DEF Good, Typed, States
<1>9. \E z : Good(z) /\ g' = Settled(z)
  <2>1. CASE d.state = "level"
    <3>1. PICK who \in d.in : \E fate, exit : g' = Settled(P_Ticker(d, who, fate, exit))
      BY <1>3, <2>1 DEF Ticker
    <3>2. PICK fate, exit : g' = Settled(P_Ticker(d, who, fate, exit))  BY <3>1
    <3> QED  BY <1>7, <3>2, PlaysimGood
  <2>2. CASE d.state = "intermission"
    <3>1. PICK passes : g' = Settled(WI_Tick(d, press, passes))  BY <1>3, <2>2 DEF Ticker
    <3> QED  BY <1>7, <3>1, CountGood
  <2>3. CASE d.state = "finale"
    <3>1. g' = Settled(F_Ticker(d, press))  BY <1>3, <2>3 DEF Ticker
    <3> QED  BY <1>7, <3>1, TextGood
  <2>4. CASE d.state = "demoscreen"
    <3>1. g' = Settled(D_PageTicker(d))  BY <1>3, <2>4 DEF Ticker
    <3> QED  BY <1>7, <3>1, PageGood
  <2> QED  BY <1>8, <2>1, <2>2, <2>3, <2>4
<1> QED  BY <1>0, <1>9, SettledGood

FlowInv == boot \in Boots /\ menu \in Menus \cup {"none"} /\ Good(g)

-----------------------------------------------------------------------------
(* The requests, the replays and the start.                                *)

\* A step to a right state: Good speaks of boot, too.
LEMMA Onward ==
  ASSUME FlowInv, NEW u, Good(u), g' = u, boot' = boot, menu' \in Menus \cup {"none"}
  PROVE  FlowInv'
<1>1. Typed(u) /\ SavedWell(u.file) /\ Flagged(u) /\ Asked(u) /\ Paced(u) /\ Rewinds(u)
  BY DEF Good
<1>2. Typed(g)' /\ SavedWell(g.file)'  BY <1>1 DEF Typed, SavedWell
<1>3. Flagged(g)'  BY <1>1 DEF Flagged
<1>4. Asked(g)'  BY <1>1 DEF Asked
<1>5. NeverFast' = NeverFast  BY DEF NeverFast
<1>6. Paced(g)'  BY <1>1, <1>5 DEF Paced
<1>7. Rewinds(g)'  BY <1>1 DEF Rewinds
<1>8. Good(g)'  BY <1>2, <1>3, <1>4, <1>6, <1>7 DEF Good
<1> QED  BY <1>8 DEF FlowInv

\* The menu, and the buttons that become a cmd.
Requests ==
  \/ \E m \in Menus : OpenMenu(m)
  \/ CloseMenu
  \/ \E skill \in boot.skills, lev \in boot.levels : NewGame(skill, lev)
  \/ \E lev \in boot.levels : LevelCheat(lev)
  \/ LoadGame \/ SaveGame \/ EndGame \/ BuildTiccmd

\* They leave a menu or none.
LEMMA MenuTyped ==
  ASSUME menu \in Menus \cup {"none"}, Requests
  PROVE  menu' \in Menus \cup {"none"} /\ boot' = boot
BY DEF Requests, OpenMenu, CloseMenu, NewGame, LevelCheat, LoadGame, SaveGame, EndGame, BuildTiccmd,
       Picks, User

\* A new game is asked for.
LEMMA DeferNewGood ==
  ASSUME FlowInv, NEW skill, NEW lev \in boot.levels, DeferNew(skill, lev)
  PROVE  Good(g')
<1> DEFINE n == [skill |-> skill, lev |-> lev]
           u == [g EXCEPT !.action = "newgame", !.new = n]
<1>0. boot \in Boots /\ Good(g) /\ Typed(g)  BY DEF FlowInv, Good
<1>1. lev \in Nat \X Nat  BY <1>0, GameAssumption
<1>2. n.lev \in Nat \X Nat  BY <1>1
<1>3. g' = u  BY DEF DeferNew
<1> HIDE DEF n
<1>4. Differs(u, g, {"action", "new"}) /\ u.action = "newgame" /\ u.new = n
  BY <1>0 DEF Differs, Typed, Fields
<1> HIDE DEF u
<1>5. Typed(u)  BY <1>0, <1>2, <1>4 DEF Typed, Fields, Differs, Actions
<1>6. \A f \in Remembered : u[f] = g[f]  BY <1>4 DEF Fields, Remembered, Differs
<1>7. Good(u)  BY <1>0, <1>4, <1>5, <1>6, GoodSame
<1> QED  BY <1>3, <1>7

\* Each of them is right.
LEMMA RequestsGood ==
  ASSUME FlowInv, Requests
  PROVE  FlowInv'
<1>0. /\ boot \in Boots /\ Good(g) /\ Typed(g)
      /\ menu' \in Menus \cup {"none"} /\ boot' = boot
  BY MenuTyped DEF FlowInv, Good
<1>1. ASSUME NEW skill, NEW lev \in boot.levels, DeferNew(skill, lev)
      PROVE FlowInv'
  <2>1. Good(g')  BY <1>1, DeferNewGood
  <2> QED  BY <1>0, <2>1, Onward
<1>2. CASE LoadGame
  <2> DEFINE u == [g EXCEPT !.action = "loadgame"]
  <2>1. g' = u /\ g.file # NoFile /\ "load" \in boot.uses
    BY <1>2 DEF LoadGame, Picks, User
  <2>2. Differs(u, g, {"action"}) /\ u.action = "loadgame"
    BY <1>0 DEF Differs, Typed, Fields
  <2> HIDE DEF u
  <2>3. Typed(u)  BY <1>0, <2>2 DEF Typed, Fields, Differs, Actions
  <2>4. /\ u.file = g.file /\ u.netdemo = g.netdemo /\ u.demo = g.demo /\ u.netgame = g.netgame
        /\ u.usergame = g.usergame /\ u.fast = g.fast /\ u.shift = g.shift /\ u.skill = g.skill
        /\ u.tables = g.tables /\ u.hdr = g.hdr /\ u.first = g.first /\ u.under = g.under
    BY <2>2 DEF Differs, Fields
  <2>5. SavedWell(u.file) /\ Flagged(u) /\ Asked(u)
    BY <1>0, <2>1, <2>2, <2>4 DEF Good, SavedWell, Flagged, Asked
  <2>6. Paced(u)  BY <1>0, <2>4 DEF Good, Paced
  <2>7. Rewinds(u)  BY <1>0, <2>4 DEF Good, Rewinds
  <2>8. Good(u)  BY <2>3, <2>5, <2>6, <2>7 DEF Good
  <2> QED  BY <1>0, <2>1, <2>8, Onward
<1>3. CASE SaveGame
  <2> DEFINE u == [g EXCEPT !.sendsave = TRUE]
  <2>1. g' = u  BY <1>3 DEF SaveGame
  <2>2. Differs(u, g, {"sendsave"}) /\ u.sendsave = TRUE  BY <1>0 DEF Differs, Typed, Fields
  <2> HIDE DEF u
  <2>3. Typed(u)  BY <1>0, <2>2 DEF Typed, Fields, Differs
  <2>4. {"sendsave"} \cap (Remembered \cup {"action", "seq"}) = {}  BY DEF Remembered
  <2>5. Good(u)  BY <1>0, <2>2, <2>3, <2>4, GoodBut
  <2> QED  BY <1>0, <2>1, <2>5, Onward
<1>4. CASE EndGame
  <2> DEFINE u == [g EXCEPT !.action = "nothing", !.seq = -1, !.advance = TRUE]
  <2>1. g' = u  BY <1>4 DEF EndGame
  <2>2. /\ Differs(u, g, {"action", "seq", "advance"})
        /\ u.action = "nothing" /\ u.seq = -1 /\ u.advance = TRUE
    BY <1>0 DEF Differs, Typed, Fields
  <2> HIDE DEF u
  <2>3. Typed(u)
    <3>1. \A f \in {"state", "in", "ps", "lev", "next", "shift", "cmd", "new", "netgame",
                    "netdemo", "deathmatch", "fast", "demo", "usergame", "paused",
                    "spent", "secretexit", "sendsave", "singletics", "under"} : u[f] = g[f]
      BY <2>2 DEF Fields, Differs
    <3>2. u.action \in Actions /\ u.advance \in BOOLEAN  BY <2>2 DEF Actions
    <3>3. -1 \in Int  OBVIOUS
    <3>4. u.seq \in Int  BY <2>2, <3>3
    <3> QED  BY <1>0, <2>2, <3>1, <3>2, <3>4 DEF Typed, Differs
  <2>4. \A f \in Remembered : u[f] = g[f]  BY <2>2 DEF Fields, Remembered, Differs
  <2>5. Good(u)  BY <1>0, <2>2, <2>3, <2>4, GoodSame
  <2> QED  BY <1>0, <2>1, <2>5, Onward
<1>5. CASE BuildTiccmd
  <2>1. PICK u : /\ g' = u
                 /\ \/ u = [g EXCEPT !.cmd = "save", !.sendsave = FALSE]
                    \/ u = [g EXCEPT !.cmd = "pause"]
    BY <1>5 DEF BuildTiccmd
  <2>2. /\ Differs(u, g, {"cmd", "sendsave"})
        /\ u.cmd \in {"save", "pause"} /\ u.sendsave \in {FALSE, g.sendsave}
    BY <1>0, <2>1 DEF Differs, Typed, Fields
  <2>3. Typed(u)
    <3>1. \A f \in {"state", "action", "in", "ps", "lev", "next", "shift", "seq", "new", "netgame",
                    "netdemo", "deathmatch", "fast", "demo", "usergame", "paused", "advance",
                    "spent", "secretexit", "singletics", "under"} : u[f] = g[f]
      BY <2>2 DEF Fields, Differs
    <3> QED  BY <1>0, <2>2, <3>1 DEF Typed, Differs
  <2>4. {"cmd", "sendsave"} \cap (Remembered \cup {"action", "seq"}) = {}  BY DEF Remembered
  <2>5. Good(u)  BY <1>0, <2>2, <2>3, <2>4, GoodBut
  <2> QED  BY <1>0, <2>1, <2>5, Onward
<1>6. CASE g' = g
  <2> QED  BY <1>0, <1>6, Onward
<1> QED
  BY <1>1, <1>2, <1>3, <1>4, <1>5, <1>6 DEF Requests, OpenMenu, CloseMenu, NewGame, LevelCheat

\* What begin_replay starts a header's demo from, and what it leaves.
Restarted(u, v, h) ==
  /\ Good([u EXCEPT !.tables = v.tables, !.hdr = v.hdr])
  /\ u = [f \in Fields |-> u[f]] /\ u.tables = Kept(v) /\ u.hdr = h /\ u.first = v.first
  /\ u.state = "level"
  /\ Fresh(u) = Started(Kept(v), h, v.netgame \/ 1 \in h.in)

\* begin_replay puts the tables back before it plays the demo.
LEMMA ReplayIs ==
  ASSUME boot \in Boots, NEW v, Good(v), NEW h \in boot.replays
  PROVE  /\ Restarted(begin_replay(v, h), v, h)
         /\ Kept(v) = [kind |-> "kept", shift |-> Kept(v).shift, skill |-> Kept(v).skill]
         /\ Kept(v).shift \in Int
         /\ NeverFast => Kept(v).shift = Tics(Kept(v).skill)
<1>1. IsDemo(h) /\ (NeverFast => ~ h.fast)  BY GameAssumption DEF NeverFast
<1>2. Typed(v) /\ Rewinds(v) /\ Flagged(v) /\ Paced(v) /\ SavedWell(v.file)  BY DEF Good
<1> DEFINE k == Kept(v)
<1>3. /\ k = [kind |-> "kept", shift |-> k.shift, skill |-> k.skill] /\ k.shift \in Int
      /\ NeverFast => k.shift = Tics(k.skill)
  BY <1>2 DEF Kept, Now, Rewinds, Typed, Paced
<1> HIDE DEF k
<1> DEFINE s == [v EXCEPT !.shift = k.shift, !.skill = k.skill, !.advance = FALSE, !.singletics = TRUE]
           p == Played(s, h)
           u == [p EXCEPT !.tables = k, !.hdr = h]
<1>4. begin_replay(v, h) = u  BY DEF begin_replay, k
<1>5. /\ Differs(s, v, {"shift", "skill", "advance", "singletics"})
      /\ s.shift = k.shift /\ s.skill = k.skill /\ s.advance = FALSE /\ s.singletics = TRUE
  BY <1>2 DEF Differs, Typed, Fields
<1> HIDE DEF s
<1>6. Typed(s)
  <2>1. \A f \in {"state", "action", "in", "ps", "lev", "next", "seq", "cmd", "new", "netgame",
                  "netdemo", "deathmatch", "fast", "demo", "usergame", "paused", "spent",
                  "secretexit", "sendsave", "under"} : s[f] = v[f]
    BY <1>5 DEF Fields, Differs
  <2> QED  BY <1>2, <1>3, <1>5, <2>1 DEF Typed, Differs
<1>7. /\ s.file = v.file /\ s.netdemo = v.netdemo /\ s.demo = v.demo /\ s.netgame = v.netgame
      /\ s.usergame = v.usergame /\ s.fast = v.fast
      /\ s.tables = v.tables /\ s.hdr = v.hdr /\ s.first = v.first /\ s.under = v.under
  BY <1>5 DEF Differs, Fields
<1>8. SavedWell(s.file) /\ Flagged(s)  BY <1>2, <1>7 DEF Flagged
<1>9. Paced(s)  BY <1>2, <1>3, <1>5, <1>7 DEF Paced
<1>10. Rewinds(s)  BY <1>2, <1>7 DEF Rewinds
<1>11. Plays(p, s, h)  BY <1>1, <1>6, PlayedIs
<1> HIDE DEF p
<1>12. Good(p)  BY <1>1, <1>6, <1>8, <1>9, <1>10, <1>11, PlaysGood
<1>13. p.tables = v.tables /\ p.hdr = v.hdr /\ p.first = v.first  BY <1>7, <1>11 DEF Plays
<1>14. Differs(u, p, {"tables", "hdr"}) /\ u.tables = k /\ u.hdr = h
  BY <1>12 DEF Differs, Good, Typed, Fields
<1>15. [u EXCEPT !.tables = v.tables, !.hdr = v.hdr] = p
  BY <1>12, <1>13 DEF Good, Typed, Fields
<1> HIDE DEF u
<1>16. u.first = v.first /\ u.state = "level"  BY <1>11, <1>13, <1>14 DEF Differs, Fields, Plays
<1>17. Fresh(u) = Fresh(p)  BY <1>14 DEF Differs, Fields, Fresh
<1> DEFINE net == v.netgame \/ 1 \in h.in
<1>18. /\ p.action = "nothing" /\ p.paused = FALSE
       /\ p.shift = Shift([fast |-> h.fast, shift |-> k.shift, skill |-> k.skill], h.skill)
       /\ p.skill = h.skill /\ p.lev = h.lev /\ p.demo = TRUE
       /\ p.ps = [q \in Slots |-> IF q \in h.in THEN "live" ELSE "reborn"]
       /\ p.in = h.in /\ p.deathmatch = h.deathmatch /\ p.fast = h.fast
       /\ p.netgame = net /\ p.advance = FALSE
  BY <1>5, <1>7, <1>11 DEF Plays
<1> HIDE DEF net
<1>19. Fresh(p) = Started(k, h, net)  BY <1>18 DEF Fresh, Started
<1>20. Restarted(u, v, h)
  BY <1>12, <1>14, <1>15, <1>16, <1>17, <1>19 DEF Restarted, k, net, Differs
<1> QED  BY <1>3, <1>4, <1>20 DEF k

\* A replay keeps what was known, when its first start is the one it has.
LEMMA ReplayKeeps ==
  ASSUME boot \in Boots, NEW v, Good(v), NEW h \in boot.replays,
         NEW u, Restarted([u EXCEPT !.first = v.first], v, h), u = [f \in Fields |-> u[f]],
         u.first = Started(Kept(v), h, u.first.netgame), u.first.netgame \in BOOLEAN,
         1 \in h.in => u.first.netgame,
         Kept(v) = [kind |-> "kept", shift |-> Kept(v).shift, skill |-> Kept(v).skill],
         Kept(v).shift \in Int, NeverFast => Kept(v).shift = Tics(Kept(v).skill)
  PROVE  Good(u)
<1> DEFINE t == [u EXCEPT !.first = v.first]
           w == [t EXCEPT !.tables = v.tables, !.hdr = v.hdr]
<1>1. Good(w) /\ t.tables = Kept(v) /\ t.hdr = h  BY DEF Restarted
<1>2. /\ \A f \in Fields \ {"tables", "hdr", "first"} : u[f] = w[f]
      /\ u.tables = t.tables /\ u.hdr = t.hdr
  BY DEF Fields
<1> HIDE DEF t, w
<1>3. Typed(u)
  <2>1. \A f \in {"state", "action", "in", "ps", "lev", "next", "shift", "seq", "cmd", "new",
                  "netgame", "netdemo", "deathmatch", "fast", "demo", "usergame", "paused",
                  "advance", "spent", "secretexit", "sendsave", "singletics", "under"} : u[f] = w[f]
    BY <1>2 DEF Fields
  <2>2. Typed(w)  BY <1>1 DEF Good
  <2> QED  BY <2>1, <2>2 DEF Typed
<1>4. /\ u.file = w.file /\ u.netdemo = w.netdemo /\ u.demo = w.demo /\ u.netgame = w.netgame
      /\ u.usergame = w.usergame /\ u.fast = w.fast /\ u.shift = w.shift /\ u.skill = w.skill
      /\ u.action = w.action /\ u.seq = w.seq /\ u.under = w.under
  BY <1>2 DEF Fields
<1>5. SavedWell(u.file) /\ Flagged(u) /\ Asked(u)
  BY <1>1, <1>4 DEF Good, SavedWell, Flagged, Asked
<1>6. Kept(v) # NoTables
  <2>1. Kept(v).kind = "kept"  OBVIOUS
  <2>2. NoTables.kind = "none"  BY DEF NoTables
  <2> QED  BY <2>1, <2>2
<1>7. Paced(u)  BY <1>1, <1>2, <1>4 DEF Good, Paced
<1>8. Rewinds(u)  BY <1>1, <1>2, <1>6 DEF Rewinds
<1> QED  BY <1>3, <1>5, <1>7, <1>8 DEF Good

\* web_play_demo_buf: the first start of a header's replay is remembered.
LEMMA ReplayGood ==
  ASSUME FlowInv, NEW h \in boot.replays, Replay(h)
  PROVE  FlowInv'
<1>0. boot \in Boots /\ menu \in Menus \cup {"none"} /\ Good(g)  BY DEF FlowInv
<1> DEFINE v == begin_replay(g, h)
           f1 == IF g.hdr = h THEN g.first ELSE Fresh(v)
           u == [v EXCEPT !.first = f1]
<1>1. g' = u /\ boot' = boot /\ menu' = menu  BY DEF Replay, User
<1>2. /\ Restarted(v, g, h)
      /\ Kept(g) = [kind |-> "kept", shift |-> Kept(g).shift, skill |-> Kept(g).skill]
      /\ Kept(g).shift \in Int /\ (NeverFast => Kept(g).shift = Tics(Kept(g).skill))
  BY <1>0, ReplayIs
<1> HIDE DEF v
<1>3. f1 = Started(Kept(g), h, f1.netgame) /\ f1.netgame \in BOOLEAN /\ (1 \in h.in => f1.netgame)
  <2>1. CASE g.hdr = h
    <3>1. h # NoFile
      <4>1. h.kind = "demo"  BY <1>0, GameAssumption DEF IsDemo
      <4>2. NoFile.kind = "none"  BY DEF NoFile
      <4> QED  BY <4>1, <4>2
    <3>2. /\ g.tables # NoTables /\ g.first = Started(g.tables, h, g.first.netgame)
          /\ g.first.netgame \in BOOLEAN /\ (1 \in h.in => g.first.netgame)
      BY <1>0, <2>1, <3>1 DEF Good, Rewinds
    <3>3. Kept(g) = g.tables  BY <3>2 DEF Kept
    <3> QED  BY <2>1, <3>2, <3>3
  <2>2. CASE g.hdr # h
    <3> DEFINE net == g.netgame \/ 1 \in h.in
    <3>1. f1 = Started(Kept(g), h, net)  BY <1>2, <2>2 DEF Restarted
    <3>2. net \in BOOLEAN /\ (1 \in h.in => net)  OBVIOUS
    <3> HIDE DEF net, f1
    <3>3. f1.netgame = net  BY <3>1 DEF Started
    <3> QED  BY <3>1, <3>2, <3>3
  <2> QED  BY <2>1, <2>2
<1> HIDE DEF f1
<1>4. u = [f \in Fields |-> u[f]] /\ u.first = f1  BY <1>2 DEF Restarted, Fields
<1>5. [u EXCEPT !.first = g.first] = v  BY <1>2 DEF Restarted, Fields
<1> HIDE DEF u
<1>6. Good(u)  BY <1>0, <1>2, <1>3, <1>4, <1>5, ReplayKeeps
<1> QED  BY <1>0, <1>1, <1>6, Onward

\* web_seek_demo starts it again.
LEMMA SeekGood == ASSUME FlowInv, Seek  PROVE FlowInv'
<1>0. boot \in Boots /\ menu \in Menus \cup {"none"} /\ Good(g)  BY DEF FlowInv
<1> DEFINE h == g.hdr
           u == begin_replay(g, h)
<1>1. g' = u /\ boot' = boot /\ menu' = menu /\ h # NoFile  BY DEF Seek, User
<1>2. /\ h \in boot.replays /\ g.tables # NoTables
      /\ g.first = Started(g.tables, h, g.first.netgame)
      /\ g.first.netgame \in BOOLEAN /\ (1 \in h.in => g.first.netgame)
  BY <1>0, <1>1 DEF Good, Rewinds
<1>3. /\ Restarted(u, g, h)
      /\ Kept(g) = [kind |-> "kept", shift |-> Kept(g).shift, skill |-> Kept(g).skill]
      /\ Kept(g).shift \in Int /\ (NeverFast => Kept(g).shift = Tics(Kept(g).skill))
  BY <1>0, <1>2, ReplayIs
<1> HIDE DEF h, u
<1>4. Kept(g) = g.tables  BY <1>2 DEF Kept
<1>5. u = [f \in Fields |-> u[f]] /\ u.first = g.first  BY <1>3 DEF Restarted
<1>6. [u EXCEPT !.first = g.first] = u  BY <1>5
<1>7. Good(u)  BY <1>0, <1>2, <1>3, <1>4, <1>5, <1>6, ReplayKeeps
<1> QED  BY <1>0, <1>1, <1>7, Onward

\* The game starts right: with -warp, in a net game or at the title.
LEMMA FlowStart == GameInit => FlowInv
<1> SUFFICES ASSUME GameInit  PROVE FlowInv  OBVIOUS
<1>1. PICK f \in {NoFile} \cup IF "load" \in boot.uses THEN {BadFile} ELSE {} :
        LET v == [Idle EXCEPT !.netgame = boot.netgame, !.deathmatch = boot.deathmatch,
                              !.fast = boot.fast, !.in = boot.in, !.file = f]
        IN g = IF boot.start = Title THEN v
               ELSE G_InitNew([v EXCEPT !.advance = FALSE], boot.skill, boot.start)
  BY DEF GameInit
<1> DEFINE v == [Idle EXCEPT !.netgame = boot.netgame, !.deathmatch = boot.deathmatch,
                             !.fast = boot.fast, !.in = boot.in, !.file = f]
           s == [v EXCEPT !.advance = FALSE]
           u == G_InitNew(s, boot.skill, boot.start)
<1>2. g = v \/ g = u  BY <1>1
<1>3. boot \in Boots  BY DEF GameInit
<1>4. /\ boot.netgame \in BOOLEAN /\ boot.deathmatch \in BOOLEAN /\ boot.fast \in BOOLEAN
      /\ boot.in \in SUBSET Slots /\ boot.start \in Nat \X Nat
  BY <1>3, GameAssumption
<1>5. v = [x \in Fields |-> v[x]]
  <2>1. DOMAIN Idle = Fields  BY DEF Idle, Fields
  <2>2. Idle = [x \in DOMAIN Idle |-> Idle[x]]  BY DEF Idle
  <2>3. DOMAIN v = Fields  BY <2>1
  <2>4. v = [x \in DOMAIN v |-> v[x]]  OBVIOUS
  <2> QED  BY <2>3, <2>4
<1>6. /\ v.netgame = boot.netgame /\ v.deathmatch = boot.deathmatch /\ v.fast = boot.fast
      /\ v.in = boot.in /\ v.file = f
  BY DEF Idle
<1>7. /\ v.state = "demoscreen" /\ v.action = "nothing" /\ v.lev = Title /\ v.next = 1
      /\ v.secretexit = FALSE /\ v.ps = [p \in Slots |-> "live"] /\ v.paused = FALSE
      /\ v.sendsave = FALSE /\ v.cmd = "none" /\ v.spent = FALSE /\ v.shift = 0 /\ v.skill = "easy"
      /\ v.usergame = FALSE /\ v.demo = FALSE /\ v.netdemo = FALSE /\ v.advance = TRUE
      /\ v.new.lev = Title /\ v.tables = NoTables /\ v.hdr = NoFile /\ v.singletics = FALSE
      /\ v.under = FALSE
  BY DEF Idle
<1>8. v.seq \in Int
  <2>1. -1 \in Int  OBVIOUS
  <2>2. v.seq = -1  BY DEF Idle
  <2> QED  BY <2>1, <2>2
<1> HIDE DEF v
<1>9. Title \in Nat \X Nat  BY DEF Title
<1>10. v.ps \in Lives  BY <1>7 DEF Lives
<1>11. Typed(v)
  <2>1. v.state \in States /\ v.action \in Actions /\ v.cmd \in {"none", "save", "pause"}
    BY <1>7 DEF States, Actions
  <2>2. v.in \in SUBSET Slots /\ v.lev \in Nat \X Nat /\ v.new.lev \in Nat \X Nat
    BY <1>4, <1>6, <1>7, <1>9
  <2>3. v.next \in Nat /\ v.shift \in Int  BY <1>7
  <2>4. /\ v.netgame \in BOOLEAN /\ v.netdemo \in BOOLEAN /\ v.deathmatch \in BOOLEAN
        /\ v.fast \in BOOLEAN /\ v.demo \in BOOLEAN /\ v.usergame \in BOOLEAN
        /\ v.paused \in BOOLEAN /\ v.advance \in BOOLEAN /\ v.spent \in BOOLEAN
        /\ v.secretexit \in BOOLEAN /\ v.sendsave \in BOOLEAN /\ v.singletics \in BOOLEAN
        /\ v.under \in BOOLEAN
    BY <1>4, <1>6, <1>7
  <2> QED  BY <1>5, <1>8, <1>10, <2>1, <2>2, <2>3, <2>4 DEF Typed
<1>12. SavedWell(v.file) /\ Flagged(v) /\ Asked(v)  BY <1>6, <1>7 DEF SavedWell, Flagged, Asked
<1>13. Paced(v)  BY <1>6, <1>7 DEF Paced, NeverFast, Tics
<1>14. Rewinds(v)  BY <1>7 DEF Rewinds
<1>15. Good(v)  BY <1>11, <1>12, <1>13, <1>14 DEF Good
<1>16. Good(u)
  <2>1. Differs(s, v, {"advance"}) /\ s.advance = FALSE  BY <1>5 DEF Differs, Fields
  <2> HIDE DEF s
  <2>2. Typed(s)  BY <1>11, <2>1 DEF Typed, Fields, Differs
  <2>3. Begins(u, s, boot.skill, boot.start)  BY <1>4, <2>2, InitNewIs
  <2> HIDE DEF u
  <2>4. /\ s.netgame = v.netgame /\ s.netdemo = v.netdemo /\ s.fast = v.fast /\ s.file = v.file
        /\ s.shift = v.shift /\ s.skill = v.skill /\ s.tables = v.tables /\ s.hdr = v.hdr
    BY <2>1 DEF Differs, Fields
  <2>5. /\ u.netgame = s.netgame /\ u.netdemo = s.netdemo /\ u.fast = s.fast /\ u.file = s.file
        /\ u.tables = s.tables /\ u.hdr = s.hdr /\ u.demo = FALSE /\ u.action = "nothing"
        /\ u.shift = Shift(s, boot.skill) /\ u.skill = boot.skill /\ Typed(u)
    BY <2>3 DEF Begins
  <2>6. SavedWell(u.file) /\ Flagged(u) /\ Asked(u)
    BY <1>6, <1>7, <1>12, <2>4, <2>5 DEF Flagged, Asked
  <2>7. Paced(u)
    <3> SUFFICES ASSUME NeverFast  PROVE Paced(u)  BY DEF Paced
    <3>1. ~ s.fast /\ s.shift = Tics(s.skill)  BY <1>13, <2>4 DEF Paced
    <3>2. u.shift = Tics(u.skill)  BY <2>5, <3>1, ShiftPaced
    <3> QED  BY <1>7, <2>4, <2>5, <3>1, <3>2 DEF Paced
  <2>8. Rewinds(u)  BY <1>7, <2>4, <2>5 DEF Rewinds
  <2> QED  BY <2>5, <2>6, <2>7, <2>8 DEF Good
<1>17. menu = "none"  BY DEF GameInit
<1> QED  BY <1>2, <1>3, <1>15, <1>16, <1>17 DEF FlowInv

\* Every step leaves a right state.
LEMMA FlowStep == FlowInv /\ [GameNext]_gameVars => FlowInv'
<1> SUFFICES ASSUME FlowInv, [GameNext]_gameVars  PROVE FlowInv'  OBVIOUS
<1>0. boot \in Boots /\ menu \in Menus \cup {"none"} /\ Good(g)  BY DEF FlowInv
<1>1. ASSUME NEW press \in BOOLEAN, Tic(press)  PROVE FlowInv'
  <2>1. Good(g') /\ boot' = boot /\ menu' = menu  BY <1>0, <1>1, TicGood
  <2> QED  BY <1>0, <2>1, Onward
<1>2. CASE Requests  BY <1>2, RequestsGood
<1>3. ASSUME NEW h \in boot.replays, Replay(h)  PROVE FlowInv'  BY <1>3, ReplayGood
<1>4. CASE Seek  BY <1>4, SeekGood
<1>5. CASE UNCHANGED gameVars
  <2>1. g' = g /\ boot' = boot /\ menu' = menu  BY <1>5 DEF gameVars
  <2> QED  BY <1>0, <2>1, Onward
<1> QED  BY <1>1, <1>2, <1>3, <1>4, <1>5 DEF GameNext, Menu, Requests

\* The invariant that the three theorems below rest on.
LEMMA FlowInvariance == GameSpec => []FlowInv
BY FlowStart, FlowStep, PTL DEF GameSpec

\* A game's state is of its types.
THEOREM GameTyped == GameSpec => []GameTypeOK
<1>1. FlowInv => GameTypeOK
  <2> SUFFICES ASSUME FlowInv  PROVE GameTypeOK  OBVIOUS
  <2>1. boot \in Boots /\ menu \in Menus \cup {"none"} /\ Typed(g) /\ SavedWell(g.file)
    BY DEF FlowInv, Good
  <2>2. g.file.kind \in {"none", "bad", "good"}  BY <2>1 DEF SavedWell, NoFile, BadFile
  <2> QED  BY <2>1, <2>2 DEF GameTypeOK, Typed, Lives
<1> QED  BY <1>1, FlowInvariance, PTL

\* What a session's flags say is true of it.
THEOREM FlagsStayTrue == GameSpec => []FlagsAreTrue
<1>1. FlowInv => FlagsAreTrue  BY DEF FlowInv, Good, Flagged, Paced, FlagsAreTrue, Tics
<1> QED  BY <1>1, FlowInvariance, PTL

\* The start of a replay, field by field.
Start(a, b, c, d, e, f, i, n) ==
  [shift |-> a, skill |-> b, lev |-> c, in |-> d, ps |-> e, netgame |-> n,
   deathmatch |-> f, fast |-> i, action |-> "nothing", paused |-> FALSE,
   advance |-> FALSE, demo |-> TRUE]

\* Of two starts that differ in netgame only, one is the other with its netgame.
LEMMA OnlyNetgame ==
  ASSUME NEW a, NEW b, NEW c, NEW d, NEW e, NEW f, NEW i, NEW n, NEW m
  PROVE  [Start(a, b, c, d, e, f, i, n) EXCEPT !.netgame = m] = Start(a, b, c, d, e, f, i, m)
<1> DEFINE r == Start(a, b, c, d, e, f, i, n)
           q == Start(a, b, c, d, e, f, i, m)
           D == {"shift", "skill", "lev", "in", "ps", "deathmatch", "fast", "action", "paused",
                 "advance", "demo"}
<1>1. DOMAIN r = D \cup {"netgame"} /\ DOMAIN q = D \cup {"netgame"}  BY DEF Start
<1>2. r = [x \in DOMAIN r |-> r[x]] /\ q = [x \in DOMAIN q |-> q[x]]  BY DEF Start
<1>3. q.netgame = m  BY DEF Start
<1>4. \A x \in D : r[x] = q[x]
  <2>1. /\ r.shift = q.shift /\ r.skill = q.skill /\ r.lev = q.lev /\ r.in = q.in /\ r.ps = q.ps
        /\ r.deathmatch = q.deathmatch /\ r.fast = q.fast /\ r.action = q.action
        /\ r.paused = q.paused /\ r.advance = q.advance /\ r.demo = q.demo
    BY DEF Start
  <2> HIDE DEF r, q
  <2> QED  BY <2>1
<1> HIDE DEF r, q, D
<1>5. "netgame" \notin D  BY DEF D
<1>6. [r EXCEPT !.netgame = m] = q  BY <1>1, <1>2, <1>3, <1>4
<1> QED  BY <1>6 DEF r, q

\* A seek starts from where the first start of the replay did.
THEOREM SeeksStayFresh == GameSpec => SeekIsFresh
<1> DEFINE Right == Seek => \/ Fresh(g') = g.first
                            \/ NetLeft /\ [Fresh(g') EXCEPT !.netgame = g.first.netgame] = g.first
<1>1. ASSUME FlowInv, Seek  PROVE Right
  <2> DEFINE h == g.hdr
             u == begin_replay(g, h)
             net == g.netgame \/ 1 \in h.in
  <2>0. boot \in Boots /\ Good(g) /\ h # NoFile /\ g' = u  BY <1>1 DEF FlowInv, Seek
  <2>1. /\ h \in boot.replays /\ g.tables # NoTables
        /\ g.first = Started(g.tables, h, g.first.netgame)
        /\ g.first.netgame \in BOOLEAN /\ (1 \in h.in => g.first.netgame)
    BY <2>0 DEF Good, Rewinds
  <2>2. Restarted(u, g, h)  BY <2>0, <2>1, ReplayIs
  <2>3. Kept(g) = g.tables  BY <2>1 DEF Kept
  <2> HIDE DEF u
  <2>4. Fresh(g') = Started(g.tables, h, net)  BY <2>0, <2>2, <2>3 DEF Restarted
  <2>5. g.netgame \in BOOLEAN  BY <2>0 DEF Good, Typed
  <2>6. CASE net = g.first.netgame
    <3>1. Fresh(g') = g.first  BY <2>1, <2>4, <2>6
    <3> QED  BY <3>1
  <2>7. CASE net # g.first.netgame
    <3>1. NetLeft  BY <2>1, <2>5, <2>7 DEF NetLeft
    <3>2. [Started(g.tables, h, net) EXCEPT !.netgame = g.first.netgame]
            = Started(g.tables, h, g.first.netgame)
      <4> DEFINE a == Shift([fast |-> h.fast, shift |-> g.tables.shift, skill |-> g.tables.skill],
                            h.skill)
                 e == [p \in Slots |-> IF p \in h.in THEN "live" ELSE "reborn"]
      <4> HIDE DEF net, h
      <4>1. \A n : Started(g.tables, h, n) =
                     Start(a, h.skill, h.lev, h.in, e, h.deathmatch, h.fast, n)
        BY DEF Started, Start
      <4> HIDE DEF a, e
      <4> QED  BY <4>1, OnlyNetgame
    <3>3. [Fresh(g') EXCEPT !.netgame = g.first.netgame] = g.first  BY <2>1, <2>4, <3>2
    <3> QED  BY <3>1, <3>3
  <2> QED  BY <2>6, <2>7
<1>2. FlowInv /\ [GameNext]_gameVars => [Right]_gameVars  BY <1>1
<1>3. GameSpec => [][Right]_gameVars  BY <1>2, FlowInvariance, PTL DEF GameSpec
<1> QED  BY <1>3 DEF SeekIsFresh

-----------------------------------------------------------------------------
(* The way out of an intermission.                                         *)

\* Nobody waits to be reborn.
Spawned(v) == \A p \in v.in : v.ps[p] # "reborn"

\* The next level is the one G_DoCompleted chose for the level that was left.
NextKnown(v) == \E old : v.next = NextMap(boot.commercial, v.lev, v.secretexit, old)

Route(v) == v.state = "intermission" => NextKnown(v) /\ Spawned(v)

\* As much is known once the roster was applied: who drops in is yet to be spawned.
Joined(v) == v.state = "intermission" => NextKnown(v) /\ (~ v.netgame => Spawned(v))

\* And once the players were spawned, or the level is asked for again.
Ready(v) == v.action = "loadlevel" \/ (Route(v) /\ (v.action = "completed" => Spawned(v)))

\* A step that leaves the route's fields alone, or leaves the intermission.
LEMMA RouteSame ==
  ASSUME NEW v, Route(v), NEW u, u.state \in {v.state, "level", "finale", "demoscreen"},
         u.state = "intermission" =>
           /\ u.next = v.next /\ u.lev = v.lev /\ u.secretexit = v.secretexit
           /\ u.ps = v.ps /\ u.in \subseteq v.in
  PROVE  Route(u)
<1> SUFFICES ASSUME u.state = "intermission"  PROVE NextKnown(u) /\ Spawned(u)  BY DEF Route
<1>1. v.state = "intermission"  OBVIOUS
<1>2. NextKnown(u)  BY <1>1 DEF Route, NextKnown
<1>3. Spawned(u)  BY <1>1 DEF Route, Spawned
<1> QED  BY <1>2, <1>3

\* What most calls change is none of the route's fields.
LEMMA RouteBut ==
  ASSUME NEW v, Route(v), NEW S, NEW u, Differs(u, v, S),
         S \cap {"state", "next", "lev", "secretexit", "ps", "in"} = {}
  PROVE  Route(u)
<1>1. /\ u.state = v.state /\ u.next = v.next /\ u.lev = v.lev /\ u.secretexit = v.secretexit
      /\ u.ps = v.ps /\ u.in = v.in
  BY DEF Differs, Fields
<1> QED  BY <1>1, RouteSame

\* Only a net game lets anybody in.
LEMMA RosterRoute ==
  ASSUME NEW v, Good(v), Route(v), NEW now \in SUBSET Slots
  PROVE  Joined(Roster(v, now)) /\ Roster(v, now).action = v.action
         /\ Roster(v, now).advance = v.advance
<1> DEFINE q == [p \in Slots |-> IF p \in now \ v.in THEN "reborn" ELSE v.ps[p]]
           u == [v EXCEPT !.in = now, !.ps = q]
<1>1. CASE Roster(v, now) = v  BY <1>1 DEF Route, Joined
<1>2. CASE Roster(v, now) = u /\ v.netgame
  <2> HIDE DEF q
  <2>1. Differs(u, v, {"in", "ps"})  BY DEF Differs, Good, Typed
  <2> HIDE DEF u
  <2>2. /\ u.state = v.state /\ u.next = v.next /\ u.lev = v.lev /\ u.secretexit = v.secretexit
        /\ u.netgame = v.netgame /\ u.action = v.action /\ u.advance = v.advance
    BY <2>1 DEF Differs, Fields
  <2>3. Joined(u)  BY <1>2, <2>2 DEF Route, Joined, NextKnown
  <2> QED  BY <1>2, <2>2, <2>3
<1> QED  BY <1>1, <1>2 DEF Roster

\* The title loop leaves an intermission for a page, or stays until its demo is there.
LEMMA AdvanceRoute ==
  ASSUME NEW v, Good(v), Joined(v)
  PROVE  Joined(D_DoAdvanceDemo(v))
<1> DEFINE seq == (v.seq + 1) % Cardinality(DOMAIN boot.demos)
           q == [v.ps EXCEPT ![0] = "live"]
           t == [v EXCEPT !.ps = q, !.advance = FALSE, !.usergame = FALSE, !.paused = FALSE,
                          !.seq = seq]
           u == IF boot.demos[seq].kind = "page"
                THEN [t EXCEPT !.action = "nothing", !.state = "demoscreen", !.page = PageTics]
                ELSE [t EXCEPT !.action = "playdemo"]
<1>1. D_DoAdvanceDemo(v) = u  BY DEF D_DoAdvanceDemo, Good, Typed, Fields
<1>2. \A p \in v.in : q[p] \in {"live", v.ps[p]}  BY DEF Good, Typed, Lives
<1> HIDE DEF seq, q
<1>3. Differs(t, v, {"ps", "advance", "usergame", "paused", "seq"}) /\ t.ps = q
  BY DEF Differs, Good, Typed, Fields
<1> HIDE DEF t
<1>4. u.state = "demoscreen" \/ Differs(u, t, {"action"})  BY <1>3 DEF Differs, Fields
<1> HIDE DEF u
<1>5. \/ u.state = "demoscreen"
      \/ /\ u.state = v.state /\ u.next = v.next /\ u.lev = v.lev /\ u.in = v.in
         /\ u.secretexit = v.secretexit /\ u.netgame = v.netgame /\ u.ps = q
  BY <1>3, <1>4 DEF Differs, Fields
<1>6. Joined(u)  BY <1>2, <1>5 DEF Joined, NextKnown, Spawned
<1> QED  BY <1>1, <1>6

\* Alone, who waits to be reborn takes the intermission away; in a net game it goes on.
LEMMA RebornsRoute ==
  ASSUME NEW v, Good(v), Joined(v)
  PROVE  /\ Ready(Reborns(v))
         /\ ~ v.netgame /\ Spawned(v) => Reborns(v) = v
         /\ v.netgame => /\ Reborns(v).action = v.action /\ Reborns(v).state = v.state
                         /\ Reborns(v).lev = v.lev /\ Reborns(v).next = v.next
<1> DEFINE dead == {p \in v.in : v.ps[p] = "reborn"}
           q == [p \in Slots |-> IF p \in dead THEN "live" ELSE v.ps[p]]
           u == [v EXCEPT !.ps = q]
           w == [v EXCEPT !.action = "loadlevel"]
<1>1. CASE dead = {}
  <2>1. Reborns(v) = v /\ Spawned(v)  BY <1>1 DEF Reborns, Spawned
  <2>2. Ready(v)  BY <2>1 DEF Ready, Route, Joined
  <2> QED  BY <2>1, <2>2
<1>2. CASE dead # {} /\ v.netgame
  <2>1. Reborns(v) = u  BY <1>2 DEF Reborns
  <2>2. \A p \in v.in : q[p] # "reborn"  BY DEF Good, Typed
  <2> HIDE DEF q
  <2>3. Differs(u, v, {"ps"}) /\ u.ps = q  BY DEF Differs, Good, Typed, Fields
  <2> HIDE DEF u
  <2>4. /\ u.state = v.state /\ u.next = v.next /\ u.lev = v.lev /\ u.secretexit = v.secretexit
        /\ u.in = v.in /\ u.action = v.action
    BY <2>3 DEF Differs, Fields
  <2>5. Spawned(u)  BY <2>2, <2>3, <2>4 DEF Spawned
  <2>6. Ready(u)  BY <2>4, <2>5 DEF Ready, Route, Joined, NextKnown
  <2> QED  BY <1>2, <2>1, <2>4, <2>6
<1>3. CASE dead # {} /\ ~ v.netgame
  <2>1. Reborns(v) = w /\ ~ Spawned(v)  BY <1>3 DEF Reborns, Spawned
  <2>2. w.action = "loadlevel"  BY DEF Good, Typed, Fields
  <2> QED  BY <1>3, <2>1, <2>2 DEF Ready
<1> QED  BY <1>1, <1>2, <1>3

\* A level was loaded, or nothing was done but to take the request away.
LEMMA ActRoute ==
  ASSUME boot \in Boots, NEW v, Good(v), Ready(v), NEW frags
  PROVE  Route(Act(v, frags)) /\ Act(v, frags).action \notin {"loadlevel", "completed"}
<1> DEFINE u == Act(v, frags)
           Fine(x) == Route(x) /\ x.action \notin {"loadlevel", "completed"}
<1>0. ASSUME NEW x, x.state = "level", x.action = "nothing"  PROVE Fine(x)
  BY <1>0 DEF Route
<1>t. Typed(v)  BY DEF Good
<1>a. ASSUME NEW a \in {"nothing", "victory"}, Route(v)  PROVE Fine([v EXCEPT !.action = a])
  <2> DEFINE x == [v EXCEPT !.action = a]
  <2>1. Differs(x, v, {"action"}) /\ x.action = a  BY <1>t DEF Differs, Typed, Fields
  <2> HIDE DEF x
  <2>2. {"action"} \cap {"state", "next", "lev", "secretexit", "ps", "in"} = {}  OBVIOUS
  <2>3. Route(x)  BY <1>a, <2>1, <2>2, RouteBut
  <2> QED  BY <2>1, <2>3 DEF x
<1>1. CASE v.action = "loadlevel"
  <2>1. u = G_DoLoadLevel(v)  BY <1>1 DEF Act
  <2>2. G_DoLoadLevel(v).state = "level" /\ G_DoLoadLevel(v).action = "nothing"
    BY <1>t, LoadLevelIs
  <2> QED  BY <1>0, <2>1, <2>2
<1>2. CASE v.action = "newgame"
  <2> DEFINE a == Alone(v)
  <2>1. u = G_InitNew(a, v.new.skill, v.new.lev)  BY <1>2 DEF Act, G_DoNewGame
  <2>2. Typed(a) /\ v.new.lev \in Nat \X Nat  BY <1>t, AloneIs DEF Typed
  <2> HIDE DEF a, u
  <2>3. Begins(u, a, v.new.skill, v.new.lev)  BY <2>1, <2>2, InitNewIs
  <2> QED  BY <1>0, <2>3 DEF Begins, u
<1>3. CASE v.action = "loadgame"
  <2>1. u = G_DoLoadGame(v)  BY <1>3 DEF Act
  <2>2. CASE v.file.kind = "bad"
    <3>1. u = [v EXCEPT !.action = "nothing"]  BY <2>1, <2>2 DEF G_DoLoadGame
    <3>2. Route(v)  BY <1>3 DEF Ready
    <3> QED  BY <1>a, <3>1, <3>2
  <2>3. CASE v.file.kind # "bad"
    <3>1. v.file # NoFile /\ v.file # BadFile
      BY <1>3, <2>3 DEF Good, Asked, BadFile
    <3>2. v.file.in \in SUBSET Slots /\ v.file.lev \in Nat \X Nat
      BY <3>1 DEF Good, SavedWell
    <3> DEFINE t == [v EXCEPT !.skill = v.file.skill, !.in = v.file.in]
               b == G_InitNew(t, v.file.skill, v.file.lev)
               q == [p \in Slots |-> IF p \in v.file.in THEN v.file.ps[p] ELSE b.ps[p]]
               x == [b EXCEPT !.ps = q, !.spent = v.file.spent, !.under = v.netdemo]
    <3>3. u = x  BY <2>1, <2>3 DEF G_DoLoadGame
    <3>4. Differs(t, v, {"skill", "in"}) /\ t.in = v.file.in  BY <1>t DEF Differs, Typed, Fields
    <3> HIDE DEF t
    <3>5. Typed(t)  BY <1>t, <3>2, <3>4 DEF Typed, Fields, Differs
    <3>6. Begins(b, t, v.file.skill, v.file.lev)  BY <3>2, <3>5, InitNewIs
    <3> HIDE DEF b, q
    <3>7. x.state = b.state /\ x.action = b.action  BY <3>6 DEF Begins, Typed, Fields
    <3> HIDE DEF x
    <3>8. x.state = "level" /\ x.action = "nothing"  BY <3>6, <3>7 DEF Begins
    <3> QED  BY <1>0, <3>3, <3>8
  <2> QED  BY <2>2, <2>3
<1>4. CASE v.action = "savegame"
  <2>1. u = G_DoSaveGame(v) /\ Route(v)  BY <1>4 DEF Act, Ready
  <2>2. Differs(u, v, {"action", "file"}) /\ u.action = "nothing"
    BY <1>t, <2>1 DEF G_DoSaveGame, Differs, Typed, Fields
  <2>3. {"action", "file"} \cap {"state", "next", "lev", "secretexit", "ps", "in"} = {}  OBVIOUS
  <2> HIDE DEF u
  <2>4. Route(u)  BY <2>1, <2>2, <2>3, RouteBut
  <2> QED  BY <2>2, <2>4 DEF u
<1>5. CASE v.action = "playdemo"
  <2> DEFINE h == boot.demos[v.seq]
  <2>1. IsDemo(h)  BY <1>5 DEF Good, Asked
  <2>2. u = IF h.good THEN Played(v, h) ELSE [v EXCEPT !.action = "nothing"]
    BY <1>5 DEF Act, G_DoPlayDemo
  <2> HIDE DEF h
  <2>3. Plays(Played(v, h), v, h)  BY <1>t, <2>1, PlayedIs
  <2>4. Fine(Played(v, h))  BY <1>0, <2>3 DEF Plays
  <2>5. Fine([v EXCEPT !.action = "nothing"])
    <3>1. Route(v)  BY <1>5 DEF Ready
    <3> QED  BY <1>a, <3>1
  <2> QED  BY <2>2, <2>4, <2>5
<1>6. CASE v.action = "completed"
  <2>1. u = G_DoCompleted(v, frags) /\ Route(v) /\ Spawned(v)  BY <1>6 DEF Act, Ready
  <2>2. CASE ~ boot.commercial /\ v.lev[2] = 8
    <3>1. u = [v EXCEPT !.action = "victory"]  BY <2>1, <2>2 DEF G_DoCompleted
    <3> QED  BY <1>a, <2>1, <3>1
  <2>3. CASE ~ (~ boot.commercial /\ v.lev[2] = 8)
    <3> DEFINE n == NextMap(boot.commercial, v.lev, v.secretexit, v.next)
               w == WI_Start(Kind(v), frags)
               x == [v EXCEPT !.action = "nothing", !.state = "intermission", !.next = n, !.wi = w]
    <3>1. u = x  BY <2>1, <2>3 DEF G_DoCompleted
    <3> HIDE DEF n, w
    <3>2. Differs(x, v, {"action", "state", "next", "wi"}) /\ x.action = "nothing" /\ x.next = n
      BY <1>t DEF Differs, Typed, Fields
    <3> HIDE DEF x
    <3>3. x.lev = v.lev /\ x.secretexit = v.secretexit /\ x.ps = v.ps /\ x.in = v.in
      BY <3>2 DEF Differs, Fields
    <3>4. NextKnown(x)  BY <3>2, <3>3 DEF NextKnown, n
    <3>5. Spawned(x)  BY <2>1, <3>3 DEF Spawned
    <3> QED  BY <3>1, <3>2, <3>4, <3>5 DEF Route
  <2> QED  BY <2>2, <2>3
<1>7. CASE v.action = "victory"
  <2>1. u = F_StartFinale(v)  BY <1>7 DEF Act
  <2>2. F_StartFinale(v).state = "finale" /\ F_StartFinale(v).action = "nothing"
    BY <1>t DEF F_StartFinale, Typed, Fields
  <2> QED  BY <2>1, <2>2 DEF Route
<1>8. CASE v.action = "worlddone"
  <2> DEFINE t == [v EXCEPT !.lev = <<v.lev[1], v.next>>]
  <2>1. u = G_DoLoadLevel(t)  BY <1>8 DEF Act, G_DoWorldDone
  <2>2. Differs(t, v, {"lev"}) /\ t.lev \in Nat \X Nat  BY <1>t DEF Differs, Typed, Fields
  <2> HIDE DEF t
  <2>3. Typed(t)  BY <1>t, <2>2 DEF Typed, Fields, Differs
  <2>4. G_DoLoadLevel(t).state = "level" /\ G_DoLoadLevel(t).action = "nothing"
    BY <2>3, LoadLevelIs
  <2> QED  BY <1>0, <2>1, <2>4
<1>9. CASE v.action = "nothing"
  <2>1. u = v  BY <1>9 DEF Act
  <2>2. Route(v)  BY <1>9 DEF Ready
  <2> QED  BY <1>9, <2>1, <2>2
<1>10. v.action \in {"nothing", "loadlevel", "newgame", "loadgame", "savegame", "playdemo",
                     "completed", "victory", "worlddone"}
  BY <1>t DEF Typed, Actions
<1> QED  BY <1>1, <1>2, <1>3, <1>4, <1>5, <1>6, <1>7, <1>8, <1>9, <1>10

\* The rest of a tic keeps the route and the level.
Keeps(u, v) == Route(u) /\ u.lev = v.lev

\* Most of it changes other fields only.
LEMMA KeepsBut ==
  ASSUME NEW v, Route(v), NEW S, NEW u, Differs(u, v, S),
         S \cap {"state", "next", "lev", "secretexit", "ps", "in"} = {}
  PROVE  Keeps(u, v)
<1>1. u.lev = v.lev  BY DEF Differs, Fields
<1> QED  BY <1>1, RouteBut DEF Keeps

\* The end of a demo.
LEMMA CheckDemoKeeps ==
  ASSUME NEW v, Good(v), Route(v)
  PROVE  Keeps(G_CheckDemoStatus(v), v)
<1> DEFINE a == Alone(v)
           u == [a EXCEPT !.advance = TRUE]
<1>1. /\ Typed(a) /\ a.in = v.in \cap {0}
      /\ \A f \in Fields \ {"demo", "netdemo", "netgame", "deathmatch", "in", "fast"} : a[f] = v[f]
  <2>1. v.in \subseteq Slots /\ v = [f \in Fields |-> v[f]]  BY DEF Good, Typed
  <2>2. a.in = v.in \cap {0}  BY <2>1 DEF Alone, Fields
  <2> QED  BY <2>2, AloneIs DEF Good
<1> HIDE DEF a
<1>2. Differs(u, a, {"advance"})  BY <1>1 DEF Differs, Typed
<1> HIDE DEF u
<1>3. /\ u.state = v.state /\ u.next = v.next /\ u.lev = v.lev /\ u.secretexit = v.secretexit
      /\ u.ps = v.ps /\ u.in = a.in
  BY <1>1, <1>2 DEF Differs, Fields
<1>4. Route(u)  BY <1>1, <1>3, RouteSame
<1> QED  BY <1>3, <1>4 DEF Keeps, G_CheckDemoStatus, u, a

\* A pause, or a save.
LEMMA CmdsKeep ==
  ASSUME NEW v, Good(v), Route(v), NEW late
  PROVE  Keeps(Cmds(v, late), v)
<1> DEFINE p == IF v.cmd = "pause" THEN ~ v.paused ELSE v.paused
           a == IF v.cmd = "save" THEN "savegame" ELSE v.action
           u == [v EXCEPT !.cmd = "none", !.paused = p, !.action = a]
<1>1. Cmds(v, late) = v \/ Cmds(v, late) = u  BY DEF Cmds
<1> HIDE DEF p, a
<1>2. Differs(u, v, {"cmd", "paused", "action"})  BY DEF Differs, Good, Typed
<1> HIDE DEF u
<1>3. {"cmd", "paused", "action"} \cap {"state", "next", "lev", "secretexit", "ps", "in"} = {}
  OBVIOUS
<1>4. Keeps(u, v)  BY <1>2, <1>3, KeepsBut
<1> QED  BY <1>1, <1>4 DEF Keeps

\* In a level there is no route to lose.
LEMMA PlaysimKeeps ==
  ASSUME NEW v, Good(v), v.state = "level", NEW who, NEW fate, NEW exit
  PROVE  Keeps(P_Ticker(v, who, fate, exit), v)
<1> DEFINE x == CASE fate = "die" -> "dead" [] fate = "use" -> "reborn" [] OTHER -> v.ps[who]
           m == [v EXCEPT !.ps[who] = x]
           s == v.spent \/ v.lev \in SwitchExits
           e == (exit = "secret")
           u == [m EXCEPT !.action = "completed", !.secretexit = e, !.spent = s]
<1>1. P_Ticker(v, who, fate, exit) \in {v, m, u}  BY DEF P_Ticker
<1> HIDE DEF x, s, e
<1>2. m.state = "level" /\ m.lev = v.lev /\ m = [f \in Fields |-> m[f]]
  BY DEF Good, Typed, Fields
<1> HIDE DEF m
<1>3. u.state = "level" /\ u.lev = v.lev  BY <1>2 DEF Fields
<1> QED  BY <1>1, <1>2, <1>3 DEF Keeps, Route

\* The next level is asked for, or a finale begins.
LEMMA LeaveKeeps ==
  ASSUME NEW v, Good(v), Route(v)
  PROVE  Keeps(G_WorldDone(v), v)
<1> DEFINE u == F_StartFinale(v)
           w == [v EXCEPT !.action = "worlddone"]
<1>1. G_WorldDone(v) = u \/ G_WorldDone(v) = w  BY DEF G_WorldDone
<1>2. Keeps(w, v)
  <2>1. Differs(w, v, {"action"})  BY DEF Differs, Good, Typed
  <2>2. {"action"} \cap {"state", "next", "lev", "secretexit", "ps", "in"} = {}  OBVIOUS
  <2> HIDE DEF w
  <2> QED  BY <2>1, <2>2, KeepsBut
<1>3. u.state = "finale" /\ u.lev = v.lev  BY DEF F_StartFinale, Good, Typed, Fields
<1> HIDE DEF u, w
<1> QED  BY <1>1, <1>2, <1>3 DEF Keeps, Route

\* A count goes on.
LEMMA CountKeeps ==
  ASSUME NEW v, Good(v), Route(v), NEW press, NEW passes
  PROVE  Keeps(WI_Tick(v, press, passes), v)
<1> DEFINE w == WI_Ticker(v.wi, press, boot.commercial, passes)
           u == [v EXCEPT !.wi = w]
<1>1. WI_Tick(v, press, passes) = u \/ WI_Tick(v, press, passes) = G_WorldDone(u)
  BY DEF WI_Tick
<1> HIDE DEF w
<1>2. Differs(u, v, {"wi"})  BY DEF Differs, Good, Typed
<1> HIDE DEF u
<1>3. Good(u)
  <2>1. Typed(u)  BY <1>2 DEF Good, Typed, Fields, Differs
  <2>2. {"wi"} \cap (Remembered \cup {"action", "seq"}) = {}  BY DEF Remembered
  <2> QED  BY <1>2, <2>1, <2>2, GoodBut
<1>4. {"wi"} \cap {"state", "next", "lev", "secretexit", "ps", "in"} = {}  OBVIOUS
<1>5. Keeps(u, v)  BY <1>2, <1>4, KeepsBut
<1>6. Keeps(G_WorldDone(u), u)  BY <1>3, <1>5, LeaveKeeps DEF Keeps
<1> QED  BY <1>1, <1>5, <1>6 DEF Keeps

\* A finale's text runs.
LEMMA TextKeeps ==
  ASSUME NEW v, Good(v), v.state = "finale", NEW press
  PROVE  Keeps(F_Ticker(v, press), v)
<1> DEFINE c == [v EXCEPT !.stage = "cast"]
           d == [v EXCEPT !.action = "worlddone"]
<1>1. PICK u \in {v, c, d} :
        F_Ticker(v, press) \in {[u EXCEPT !.count = 0, !.stage = "picture"],
                                [u EXCEPT !.count = v.count], [u EXCEPT !.count = v.count + 1]}
  BY DEF F_Ticker
<1>2. u.state = "finale" /\ u.lev = v.lev /\ u = [f \in Fields |-> u[f]]
  BY DEF Good, Typed, Fields
<1> HIDE DEF c, d
<1>3. F_Ticker(v, press).state = "finale" /\ F_Ticker(v, press).lev = v.lev
  BY <1>1, <1>2 DEF Fields
<1> QED  BY <1>3 DEF Keeps, Route

\* A title page runs.
LEMMA PageKeeps ==
  ASSUME NEW v, Good(v), v.state = "demoscreen"
  PROVE  Keeps(D_PageTicker(v), v)
<1>1. D_PageTicker(v).state = "demoscreen" /\ D_PageTicker(v).lev = v.lev
  BY DEF D_PageTicker, Good, Typed, Fields
<1> QED  BY <1>1 DEF Keeps, Route

\* What an intermission needs is not forgotten.
LEMMA SettledKeeps ==
  ASSUME NEW v, Good(v), Route(v)
  PROVE  Keeps(Settled(v), v)
<1> DEFINE u == Settled(v)
<1>1. Differs(u, v, {"wi", "stage", "count", "page", "new", "secretexit"})
  BY DEF Differs, Good, Typed, Settled
<1>2. v.state = "intermission" => u.secretexit = v.secretexit
  BY DEF Settled, Good, Typed, Fields
<1> HIDE DEF u
<1>3. /\ u.state = v.state /\ u.next = v.next /\ u.lev = v.lev /\ u.ps = v.ps /\ u.in = v.in
  BY <1>1 DEF Differs, Fields
<1>4. Route(u)  BY <1>2, <1>3, RouteSame
<1> QED  BY <1>3, <1>4 DEF Keeps, u

\* What a tic leaves of the state that its requests led to.
LEMMA TicKeeps ==
  ASSUME NEW b, Good(b), Route(b), NEW over, NEW late, NEW press, NEW d,
         d = Cmds(IF over THEN G_CheckDemoStatus(b) ELSE b, late), Ticker(d, press)
  PROVE  Keeps(g', b)
<1> DEFINE c == IF over THEN G_CheckDemoStatus(b) ELSE b
<1>1. Good(c) /\ Keeps(c, b)
  <2>1. Good(G_CheckDemoStatus(b)) /\ Keeps(G_CheckDemoStatus(b), b)
    BY CheckDemoGood, CheckDemoKeeps
  <2> QED  BY <2>1 DEF Keeps
<1> HIDE DEF c
<1>2. d = Cmds(c, late)  BY DEF c
<1>3. Good(d) /\ Keeps(d, b)  BY <1>1, <1>2, CmdsGood, CmdsKeep DEF Keeps
<1>4. d.state \in {"level", "intermission", "finale", "demoscreen"}
  BY <1>3 DEF Good, Typed, States
<1>5. \E z : Good(z) /\ Keeps(z, d) /\ g' = Settled(z)
  <2>1. CASE d.state = "level"
    <3>0. \E who \in d.in : \E fate \in Fates(d, who), exit \in Exits(d) :
            g' = Settled(P_Ticker(d, who, fate, exit))
      BY <2>1 DEF Ticker
    <3>1. PICK who \in d.in : \E fate, exit : g' = Settled(P_Ticker(d, who, fate, exit))
      BY <3>0
    <3>2. PICK fate, exit : g' = Settled(P_Ticker(d, who, fate, exit))  BY <3>1
    <3> QED  BY <1>3, <2>1, <3>2, PlaysimGood, PlaysimKeeps
  <2>2. CASE d.state = "intermission"
    <3>1. PICK passes : g' = Settled(WI_Tick(d, press, passes))  BY <2>2 DEF Ticker
    <3>2. Route(d)  BY <1>3 DEF Keeps
    <3> QED  BY <1>3, <3>1, <3>2, CountGood, CountKeeps
  <2>3. CASE d.state = "finale"
    <3>1. g' = Settled(F_Ticker(d, press))  BY <2>3 DEF Ticker
    <3> QED  BY <1>3, <2>3, <3>1, TextGood, TextKeeps
  <2>4. CASE d.state = "demoscreen"
    <3>1. g' = Settled(D_PageTicker(d))  BY <2>4 DEF Ticker
    <3> QED  BY <1>3, <2>4, <3>1, PageGood, PageKeeps
  <2> QED  BY <1>4, <2>1, <2>2, <2>3, <2>4
<1>6. PICK z : Good(z) /\ Keeps(z, d) /\ g' = Settled(z)  BY <1>5
<1>7. Keeps(g', z)  BY <1>6, SettledKeeps DEF Keeps
<1> QED  BY <1>3, <1>6, <1>7 DEF Keeps

\* A tic up to its cmds: the route is kept, and if all there is to do is to leave the
\* intermission, the next level is loaded.
LEMMA BegunRoute ==
  ASSUME boot \in Boots, Good(g), Route(g), NEW now \in SUBSET Slots, NEW frags,
         NEW b \in Begun(now, frags)
  PROVE  /\ Route(b)
         /\ g.state = "intermission" /\ g.action = "worlddone" /\ ~ g.advance
              => b.lev = <<g.lev[1], g.next>>
<1> DEFINE r0 == Roster(g, now)
           a0 == IF r0.advance THEN D_DoAdvanceDemo(r0) ELSE r0
           r1 == Reborns(a0)
           a1 == Act(r1, frags)
<1>1. b = Act(a1, frags)  BY DEF Begun
<1>2. Good(r0) /\ Joined(r0) /\ r0.action = g.action /\ r0.advance = g.advance
  BY RosterGood, RosterRoute
<1>3. \/ r0 = g
      \/ /\ g.netgame /\ r0.netgame = g.netgame
         /\ r0.lev = g.lev /\ r0.next = g.next /\ r0.state = g.state
  <2> DEFINE q == [p \in Slots |-> IF p \in now \ g.in THEN "reborn" ELSE g.ps[p]]
             u == [g EXCEPT !.in = now, !.ps = q]
  <2>1. r0 = g \/ (r0 = u /\ g.netgame)  BY DEF Roster
  <2> HIDE DEF q, r0
  <2>2. Differs(u, g, {"in", "ps"})  BY DEF Differs, Good, Typed
  <2> HIDE DEF u
  <2> QED  BY <2>1, <2>2 DEF Differs, Fields
<1> HIDE DEF r0
<1>4. Good(a0) /\ Joined(a0)  BY <1>2, AdvanceGood, AdvanceRoute
<1>5. ~ g.advance => a0 = r0  BY <1>2
<1> HIDE DEF a0
<1>6. /\ Good(r1) /\ Ready(r1)
      /\ ~ a0.netgame /\ Spawned(a0) => r1 = a0
      /\ a0.netgame => r1.action = a0.action /\ r1.state = a0.state /\ r1.lev = a0.lev /\ r1.next = a0.next
  BY <1>4, RebornsGood, RebornsRoute
<1> HIDE DEF r1
<1>7. Good(a1) /\ Route(a1) /\ a1.action \notin {"loadlevel", "completed"}
  BY <1>6, ActGood, ActRoute
<1>8. Ready(a1)  BY <1>7 DEF Ready
<1>9. Route(b)
  <2> HIDE DEF a1
  <2> QED  BY <1>1, <1>7, <1>8, ActRoute
<1>10. ASSUME g.state = "intermission", g.action = "worlddone", ~ g.advance
       PROVE  b.lev = <<g.lev[1], g.next>>
  <2>1. a0 = r0 /\ a0.action = "worlddone"  BY <1>2, <1>5, <1>10
  <2>2. r1.action = "worlddone" /\ r1.lev = g.lev /\ r1.next = g.next
    <3>1. CASE a0.netgame  BY <1>3, <1>6, <2>1, <3>1
    <3>2. CASE ~ a0.netgame
      <4>1. a0 = g  BY <1>3, <2>1, <3>2
      <4>2. Spawned(a0)  BY <1>10, <4>1 DEF Route
      <4> QED  BY <1>6, <2>1, <3>2, <4>1, <4>2
    <3> QED  BY <3>1, <3>2
  <2>3. a1 = G_DoWorldDone(r1)  BY <2>2 DEF Act
  <2> DEFINE t == [r1 EXCEPT !.lev = <<r1.lev[1], r1.next>>]
  <2>4. a1 = G_DoLoadLevel(t)  BY <2>3 DEF G_DoWorldDone
  <2>5. Differs(t, r1, {"lev"}) /\ t.lev = <<g.lev[1], g.next>> /\ t.lev \in Nat \X Nat
    BY <1>6, <2>2 DEF Differs, Good, Typed, Fields
  <2> HIDE DEF t
  <2>6. Typed(t)  BY <1>6, <2>5 DEF Good, Typed, Fields, Differs
  <2>7. a1.lev = t.lev /\ a1.action = "nothing"
    <3>1. "lev" \in Fields \ {"state", "action", "paused", "sendsave", "spent", "ps"}  BY DEF Fields
    <3> HIDE DEF a1
    <3> QED  BY <2>4, <2>6, <3>1, LoadLevelIs
  <2>8. b = a1
    <3> HIDE DEF a1
    <3> QED  BY <1>1, <2>7 DEF Act
  <2> QED  BY <2>5, <2>7, <2>8
<1> QED  BY <1>9, <1>10

\* A tic.
LEMMA TicRoute ==
  ASSUME boot \in Boots, Good(g), Route(g), NEW press, Tic(press)
  PROVE  /\ Route(g')
         /\ g.state = "intermission" /\ g.action = "worlddone" /\ ~ g.advance
              => g'.lev = <<g.lev[1], g.next>>
<1>1. PICK now \in IF boot.netgame THEN {r \in SUBSET Slots : 0 \in r} ELSE {g.in},
           frags \in {FALSE} \cup IF g.action = "completed" THEN {g.netgame} ELSE {} :
     \E b \in Begun(now, frags), over \in BOOLEAN, late \in BOOLEAN :
       /\ over => b.demo
       /\ late => b.cmd # "none"
       /\ \E d \in {Cmds(c, late) : c \in {IF over THEN G_CheckDemoStatus(b) ELSE b}} :
            Ticker(d, press)
  BY DEF Tic
<1>2. PICK b \in Begun(now, frags), over \in BOOLEAN, late \in BOOLEAN :
       \E d \in {Cmds(c, late) : c \in {IF over THEN G_CheckDemoStatus(b) ELSE b}} :
            Ticker(d, press)
  BY <1>1
<1> DEFINE d == Cmds(IF over THEN G_CheckDemoStatus(b) ELSE b, late)
<1>3. Ticker(d, press)  BY <1>2
<1>4. now \in SUBSET Slots  BY <1>1 DEF Good, Typed
<1>5. Good(b)  BY <1>2, <1>4, BegunGood
<1>6. /\ Route(b)
      /\ g.state = "intermission" /\ g.action = "worlddone" /\ ~ g.advance
           => b.lev = <<g.lev[1], g.next>>
  BY <1>2, <1>4, BegunRoute
<1>7. Keeps(g', b)
  <2>1. d = Cmds(IF over THEN G_CheckDemoStatus(b) ELSE b, late)  OBVIOUS
  <2> HIDE DEF d
  <2> QED  BY <1>3, <1>5, <1>6, <2>1, TicKeeps
<1> QED  BY <1>6, <1>7 DEF Keeps

\* Between two tics only a replay touches the route, and it starts in a level.
LEMMA RequestsRoute ==
  ASSUME FlowInv, Route(g), BuildTiccmd \/ Menu
  PROVE  Route(g') /\ boot' = boot
<1>0. Good(g) /\ boot \in Boots /\ g = [f \in Fields |-> g[f]]  BY DEF FlowInv, Good, Typed
<1>1. boot' = boot
  BY MenuTyped DEF FlowInv, Menu, Requests, Replay, Seek, User
<1> DEFINE S == {"action", "new", "sendsave", "cmd", "seq", "advance"}
<1>2. S \cap {"state", "next", "lev", "secretexit", "ps", "in"} = {}  OBVIOUS
<1>3. ASSUME Differs(g', g, S)  PROVE Route(g')  BY <1>2, <1>3, RouteBut
<1> HIDE DEF S
<1>4. ASSUME NEW skill, NEW lev, DeferNew(skill, lev)
      PROVE  Route(g')
  <2>1. Differs(g', g, S)  BY <1>0, <1>4 DEF DeferNew, Differs, S
  <2> QED  BY <1>3, <2>1
<1>5. CASE LoadGame
  <2>1. Differs(g', g, S)  BY <1>0, <1>5 DEF LoadGame, Differs, S
  <2> QED  BY <1>1, <1>3, <2>1
<1>6. CASE SaveGame
  <2>1. Differs(g', g, S)  BY <1>0, <1>6 DEF SaveGame, Differs, S
  <2> QED  BY <1>1, <1>3, <2>1
<1>7. CASE EndGame
  <2>1. Differs(g', g, S)  BY <1>0, <1>7 DEF EndGame, Differs, S
  <2> QED  BY <1>1, <1>3, <2>1
<1>8. CASE BuildTiccmd
  <2>1. Differs(g', g, S)  BY <1>0, <1>8 DEF BuildTiccmd, Differs, S
  <2> QED  BY <1>1, <1>3, <2>1
<1>9. ASSUME NEW h \in boot.replays, Replay(h)  PROVE Route(g')
  <2> DEFINE v == begin_replay(g, h)
             f1 == IF g.hdr = h THEN g.first ELSE Fresh(v)
             u == [v EXCEPT !.first = f1]
  <2>1. g' = u  BY <1>9 DEF Replay
  <2>2. Restarted(v, g, h)  BY <1>0, ReplayIs
  <2> HIDE DEF v, f1
  <2>3. u.state = "level"  BY <2>2 DEF Restarted, Fields
  <2> QED  BY <2>1, <2>3 DEF Route
<1>10. CASE Seek
  <2> DEFINE u == begin_replay(g, g.hdr)
  <2>1. g' = u /\ g.hdr \in boot.replays  BY <1>0, <1>10 DEF Seek, Good, Rewinds
  <2>2. Restarted(u, g, g.hdr)  BY <1>0, <2>1, ReplayIs
  <2> HIDE DEF u
  <2> QED  BY <1>1, <2>1, <2>2 DEF Restarted, Route
<1>11. CASE g' = g  BY <1>1, <1>11 DEF Route, NextKnown, Spawned
<1> QED
  BY <1>1, <1>4, <1>5, <1>6, <1>7, <1>8, <1>9, <1>10, <1>11
  DEF Menu, NewGame, LevelCheat, OpenMenu, CloseMenu

\* Every intermission knows its way out.
LEMMA RouteInvariance == GameSpec => [](FlowInv /\ Route(g))
<1>1. GameInit => Route(g)
  <2> SUFFICES ASSUME GameInit  PROVE Route(g)  OBVIOUS
  <2>1. PICK f \in {NoFile} \cup IF "load" \in boot.uses THEN {BadFile} ELSE {} :
          LET v == [Idle EXCEPT !.netgame = boot.netgame, !.deathmatch = boot.deathmatch,
                                !.fast = boot.fast, !.in = boot.in, !.file = f]
          IN g = IF boot.start = Title THEN v
                 ELSE G_InitNew([v EXCEPT !.advance = FALSE], boot.skill, boot.start)
    BY DEF GameInit
  <2> DEFINE v == [Idle EXCEPT !.netgame = boot.netgame, !.deathmatch = boot.deathmatch,
                               !.fast = boot.fast, !.in = boot.in, !.file = f]
  <2>2. g.state \in {"demoscreen", "level"}
    <3>1. CASE boot.start = Title  BY <2>1, <3>1 DEF Idle
    <3>2. CASE boot.start # Title
      <4> DEFINE t == [[v EXCEPT !.advance = FALSE]
                         EXCEPT !.shift = Shift([v EXCEPT !.advance = FALSE], boot.skill),
                                !.skill = boot.skill, !.lev = boot.start,
                                !.ps = [p \in Slots |-> "reborn"], !.usergame = TRUE, !.demo = FALSE,
                                !.under = FALSE]
      <4>1. g = G_DoLoadLevel(t)  BY <2>1, <3>2 DEF G_InitNew
      <4>2. "state" \in DOMAIN t  BY DEF Idle
      <4> HIDE DEF t
      <4> QED  BY <4>1, <4>2 DEF G_DoLoadLevel
    <3> QED  BY <3>1, <3>2
  <2> QED  BY <2>2 DEF Route
<1>2. FlowInv /\ Route(g) /\ [GameNext]_gameVars => Route(g)'
  <2> SUFFICES ASSUME FlowInv, Route(g), [GameNext]_gameVars  PROVE Route(g)'  OBVIOUS
  <2>0. boot \in Boots /\ Good(g)  BY DEF FlowInv
  <2>1. Route(g') /\ boot' = boot
    <3>1. ASSUME NEW press \in BOOLEAN, Tic(press)  PROVE Route(g') /\ boot' = boot
      BY <2>0, <3>1, TicGood, TicRoute
    <3>2. CASE BuildTiccmd \/ Menu  BY <3>2, RequestsRoute
    <3>3. CASE UNCHANGED gameVars  BY <3>3 DEF gameVars
    <3> QED  BY <3>1, <3>2, <3>3 DEF GameNext
  <2> QED  BY <2>1 DEF Route, NextKnown, Spawned
<1> QED  BY <1>1, <1>2, FlowStart, FlowStep, PTL DEF GameSpec

\* The way back from a secret level leads to the level after the one with its exit.
THEOREM RoutesReturn == GameSpec => RouteReturns
<1> DEFINE Returns ==
      Leaving /\ g.lev[2] \in SecretMaps /\ ~ g.secretexit /\ g.lev[1] \in 1 .. 4
        => \E l \in SecretExits[boot.commercial] :
             /\ l[2] \notin SecretMaps /\ (boot.commercial \/ l[1] = g.lev[1])
             /\ g'.lev = <<g.lev[1], l[2] + 1>>
<1>1. ASSUME FlowInv, Route(g), Leaving, g.lev[2] \in SecretMaps, ~ g.secretexit,
             g.lev[1] \in 1 .. 4
      PROVE  \E l \in SecretExits[boot.commercial] :
               /\ l[2] \notin SecretMaps /\ (boot.commercial \/ l[1] = g.lev[1])
               /\ g'.lev = <<g.lev[1], l[2] + 1>>
  <2>0. boot \in Boots /\ Good(g)  BY <1>1 DEF FlowInv
  <2>1. PICK press \in BOOLEAN : Tic(press)  BY <1>1 DEF Leaving
  <2>2. g.state = "intermission" /\ g.action = "worlddone" /\ ~ g.advance
    BY <1>1 DEF Leaving
  <2>3. g'.lev = <<g.lev[1], g.next>>  BY <1>1, <2>0, <2>1, <2>2, TicRoute
  <2>4. PICK old : g.next = NextMap(boot.commercial, g.lev, FALSE, old)
    <3>1. g.secretexit = FALSE  BY <1>1, <2>0 DEF Good, Typed
    <3> QED  BY <1>1, <2>2, <3>1 DEF Route, NextKnown
  <2> DEFINE m == g.lev[2]
             e == g.lev[1]
  <2>5. CASE boot.commercial
    <3>1. m \in {31, 32} /\ SecretMaps = {31, 32}  BY <1>1, <2>5 DEF SecretMaps
    <3>2. g.next = 16  BY <2>4, <2>5, <3>1 DEF NextMap
    <3>3. boot.commercial = TRUE  BY <2>0, <2>5, MapsAssumption
    <3>4. <<1, 15>> \in SecretExits[boot.commercial]  BY <3>3, MapsAssumption
    <3>5. 15 \notin SecretMaps /\ 15 + 1 = 16  BY <3>1
    <3> QED  BY <2>3, <2>5, <3>2, <3>4, <3>5
  <2>6. CASE ~ boot.commercial
    <3>1. m = 9 /\ SecretMaps = {9}  BY <1>1, <2>6 DEF SecretMaps
    <3>2. g.next = AfterSecret(e, old)
      <4> HIDE DEF e
      <4> QED  BY <2>4, <2>6, <3>1 DEF NextMap, e
    <3>3. boot.commercial = FALSE  BY <2>0, <2>6, MapsAssumption
    <3>4. {<<1, 3>>, <<2, 5>>, <<3, 6>>, <<4, 2>>} \subseteq SecretExits[boot.commercial]
      BY <3>3, MapsAssumption
    <3>5. \/ e = 1 /\ g.next = 3 + 1
          \/ e = 2 /\ g.next = 5 + 1
          \/ e = 3 /\ g.next = 6 + 1
          \/ e = 4 /\ g.next = 2 + 1
      <4>1. e \in 1 .. 4  BY <1>1
      <4> HIDE DEF e
      <4> QED  BY <3>2, <4>1 DEF AfterSecret
    <3> HIDE DEF e
    <3>6. PICK l \in {<<1, 3>>, <<2, 5>>, <<3, 6>>, <<4, 2>>} : l[1] = e /\ g.next = l[2] + 1
      BY <3>5
    <3>7. l[2] \notin SecretMaps  BY <3>1, <3>6
    <3>8. l \in SecretExits[boot.commercial]  BY <3>4, <3>6
    <3> QED  BY <2>3, <3>6, <3>7, <3>8 DEF e
  <2> QED  BY <2>5, <2>6
<1>2. FlowInv /\ Route(g) /\ [GameNext]_gameVars => [Returns]_gameVars  BY <1>1
<1>3. GameSpec => [][Returns]_gameVars  BY <1>2, RouteInvariance, PTL DEF GameSpec
<1> QED  BY <1>3 DEF RouteReturns

-----------------------------------------------------------------------------
(* The tab.                                                                *)

Alive == {"loading", "catchup", "running"}

Entries ==
  [phase : Phases, kind : {"sp", "player", "join", "spectate"},
   conn : Conns \cup {None}, slot : Conns \cup {None}]

\* The state of the tab, field by field.
TabTypes ==
  /\ booted \in BOOLEAN /\ canvas \in BOOLEAN
  /\ lobby \in Conns \cup {None} /\ active \in Games \cup {None}
  /\ screen \in Screens /\ overlay \in {"hidden", "shown", "melting"}
  /\ conn \in [Conns -> {"unused", "connecting", "seat", "observer", "closing", "closed"}]
  /\ asked \subseteq Conns /\ released \subseteq Games
  /\ launches \subseteq [conn : Conns, join : BOOLEAN, left : 1 .. Pings]
  /\ entry \in [Games -> Entries]

\* The game that runs is known while its engine may run, and only then.
Known ==
  /\ booted <=> active # None
  /\ active # None => entry[active].phase \in Alive /\ active \notin released

\* What was ended had been entered, and nothing is ended before its engine is there.
Ended == \A b \in released : entry[b].phase \notin {"none", "loading"}

TabInv == TabTypes /\ OneSession /\ NoSeatUnseen /\ Known /\ Ended

\* The tab starts at its title, with nothing open.
LEMMA TabStart == LauncherInit => TabInv
<1> SUFFICES ASSUME LauncherInit  PROVE TabInv  OBVIOUS
<1>1. TabTypes
  <2>1. NoBoot \in Entries  BY DEF NoBoot, Entries, Phases
  <2> QED  BY <2>1 DEF LauncherInit, TabTypes, Screens
<1>2. OneSession  BY DEF LauncherInit, OneSession, NoBoot
<1>3. NoSeatUnseen  BY DEF LauncherInit, NoSeatUnseen, Open
<1>4. Known /\ Ended  BY DEF LauncherInit, Known, Ended
<1> QED  BY <1>1, <1>2, <1>3, <1>4 DEF TabInv

\* What a step that leaves the boots and the launches alone must keep.
LEMMA ClosedIs ==
  ASSUME TabInv, NEW c \in Conns \cup {None}
  PROVE  /\ Closed(conn, c) \in
              [Conns -> {"unused", "connecting", "seat", "observer", "closing", "closed"}]
         /\ \A d \in Conns : d # c => Closed(conn, c)[d] = conn[d]
         /\ c \in Conns => Closed(conn, c)[c] \in {"closing", "closed"}
BY LauncherAssumption DEF TabInv, TabTypes, Closed

\* The launcher takes over: nothing is open and no game is known.  The games may
\* only be over since.
TakesOver ==
  /\ released' = released \cup ({active} \ {None}) /\ active' = None
  /\ canvas' = (canvas /\ active = None) /\ booted' = FALSE /\ lobby' = None
  /\ overlay' = "hidden" /\ screen' = "root"
  /\ conn' \in [Conns -> {"unused", "connecting", "seat", "observer", "closing", "closed"}]
  /\ \A c \in Conns : conn'[c] \notin {"connecting", "seat", "observer"}
  /\ asked' = asked /\ launches' \subseteq [conn : Conns, join : BOOLEAN, left : 1 .. Pings]
  /\ entry' \in [Games -> Entries]
  /\ \A b \in Games : entry'[b].phase \in {entry[b].phase, "over"}
  /\ active # None => entry'[active].phase # "loading"

\* Taking over keeps the invariant.
LEMMA TakenOver == ASSUME TabInv, TakesOver  PROVE TabInv'
<1>1. TabTypes'  BY DEF TakesOver, TabInv, TabTypes, Screens
<1>2. ~ canvas'  BY DEF TakesOver, TabInv, TabTypes, OneSession, Known
<1>3. OneSession'
  BY <1>2, LauncherAssumption DEF TakesOver, TabInv, TabTypes, OneSession, Alive
<1>4. NoSeatUnseen'  BY DEF TakesOver, NoSeatUnseen, Open
<1>5. Known'  BY DEF TakesOver, Known
<1>6. Ended'
  BY DEF TakesOver, TabInv, TabTypes, Ended, Known, Alive
<1> QED  BY <1>1, <1>3, <1>4, <1>5, <1>6 DEF TabInv

\* resetToLauncher is the take-over.
LEMMA ResetTakesOver ==
  ASSUME TabInv, resetToLauncher, asked' = asked,
         launches' \subseteq [conn : Conns, join : BOOLEAN, left : 1 .. Pings],
         entry' \in [Games -> Entries],
         \A b \in Games : entry'[b].phase \in {entry[b].phase, "over"},
         active # None => entry'[active].phase # "loading"
  PROVE  TabInv'
<1>1. lobby \in Conns \cup {None}  BY DEF TabInv, TabTypes
<1>2. conn' \in [Conns -> {"unused", "connecting", "seat", "observer", "closing", "closed"}]
  BY <1>1, ClosedIs DEF resetToLauncher
<1>3. \A c \in Conns : conn'[c] \notin {"connecting", "seat", "observer"}
  BY <1>1, ClosedIs DEF resetToLauncher, TabInv, NoSeatUnseen, Open
<1>4. TakesOver  BY <1>2, <1>3 DEF resetToLauncher, TakesOver
<1> QED  BY <1>4, TakenOver

\* A handler that only shows another screen, moves the countdown, asks or pings.
LEMMA ShowKeeps ==
  ASSUME TabInv, UNCHANGED <<booted, lobby, conn, released, active, canvas, entry>>,
         asked' \subseteq Conns,
         launches' \subseteq [conn : Conns, join : BOOLEAN, left : 1 .. Pings],
         screen' \in Screens, overlay' \in {"hidden", "shown", "melting"},
         overlay' # "hidden" => overlay # "hidden" \/ booted \/ lobby # None,
         screen' \in {"root", "sp"} => screen \in {"root", "sp"}
  PROVE  TabInv'
<1>1. TabTypes'  BY DEF TabInv, TabTypes
<1>2. OneSession'  BY DEF TabInv, OneSession
<1>3. NoSeatUnseen'
  <2>1. \A c \in Conns : conn'[c] = conn[c] /\ lobby' = lobby /\ booted' = booted  OBVIOUS
  <2> QED  BY <2>1 DEF TabInv, NoSeatUnseen, Open
<1>4. Known' /\ Ended'  BY DEF TabInv, Known, Ended
<1> QED  BY <1>1, <1>2, <1>3, <1>4 DEF TabInv

\* A game is entered when none runs.
LEMMA EnterKeeps ==
  ASSUME TabInv, NEW kind \in {"sp", "player", "join", "spectate"}, NEW c \in Conns \cup {None},
         NEW s \in Conns \cup {None}, enterGame(kind, c, s),
         UNCHANGED <<lobby, screen, overlay, conn, asked, released>>,
         launches' \subseteq launches
  PROVE  TabInv'
<1>1. CASE booted
  <2>1. UNCHANGED <<booted, entry, active, canvas>>  BY <1>1 DEF enterGame
  <2> QED  BY <2>1, ShowKeeps DEF TabInv, TabTypes
<1>2. CASE ~ booted
  <2>1. PICK b \in Games :
          /\ entry[b] = NoBoot /\ booted' = TRUE /\ active' = b /\ canvas' = TRUE
          /\ entry' = [entry EXCEPT ![b] = [phase |-> "loading", kind |-> kind, conn |-> c, slot |-> s]]
    BY <1>2 DEF enterGame
  <2>2. [phase |-> "loading", kind |-> kind, conn |-> c, slot |-> s] \in Entries
    BY DEF Entries, Phases
  <2>3. /\ entry' \in [Games -> Entries] /\ entry'[b].phase = "loading"
        /\ \A d \in Games : d # b => entry'[d] = entry[d]
    BY <2>1, <2>2 DEF TabInv, TabTypes
  <2>4. b \notin released
    BY <2>1 DEF TabInv, Ended, NoBoot
  <2>5. TabTypes'  BY <2>1, <2>3 DEF TabInv, TabTypes
  <2>6. OneSession'
    <3>1. \A d \in Games : d # b => ~ (entry[d].phase \in Alive /\ d \notin released)
      BY <1>2 DEF TabInv, OneSession, Alive
    <3> QED  BY <2>1, <2>3, <3>1 DEF OneSession, Alive
  <2>7. NoSeatUnseen'
    BY <2>1 DEF TabInv, NoSeatUnseen, Open
  <2>8. Known'  BY <2>1, <2>3, <2>4, LauncherAssumption DEF Known, Alive
  <2>9. Ended'  BY <2>3, <2>4 DEF TabInv, TabTypes, Ended
  <2> QED  BY <2>5, <2>6, <2>7, <2>8, <2>9 DEF TabInv
<1> QED  BY <1>1, <1>2

\* A lobby connection changes, and what is open is still the lobby's.
LEMMA WireKeeps ==
  ASSUME TabInv, UNCHANGED <<booted, lobby, released, active, canvas, entry, asked, launches>>,
         conn' \in [Conns -> {"unused", "connecting", "seat", "observer", "closing", "closed"}],
         screen' \in Screens, overlay' \in {"hidden", "shown", "melting"},
         overlay' # "hidden" => overlay # "hidden",
         \A c \in Conns : conn'[c] \in {"connecting", "seat", "observer"} =>
           conn[c] \in {"connecting", "seat", "observer"},
         screen' \in {"root", "sp"} => screen \in {"root", "sp"}
  PROVE  TabInv'
<1>1. TabTypes'  BY DEF TabInv, TabTypes
<1>2. OneSession'  BY DEF TabInv, OneSession
<1>3. NoSeatUnseen'
  <2>1. lobby' = lobby /\ booted' = booted  OBVIOUS
  <2> QED  BY <2>1 DEF TabInv, NoSeatUnseen, Open
<1>4. Known' /\ Ended'  BY DEF TabInv, Known, Ended
<1> QED  BY <1>1, <1>2, <1>3, <1>4 DEF TabInv

\* What the user does keeps the tab one.
LEMMA UserKeeps == ASSUME TabInv, TabUser  PROVE TabInv'
<1>0. /\ asked \subseteq Conns /\ launches \subseteq [conn : Conns, join : BOOLEAN, left : 1 .. Pings]
      /\ overlay \in {"hidden", "shown", "melting"} /\ screen \in Screens
      /\ lobby \in Conns \cup {None} /\ entry \in [Games -> Entries]
  BY DEF TabInv, TabTypes
<1>1. CASE SinglePlayer
  <2>1. screen' \in Screens  BY <1>1 DEF SinglePlayer, Screens
  <2> QED  BY <1>0, <1>1, <2>1, ShowKeeps DEF SinglePlayer, Unbooted
<1>2. CASE PickGame
  <2>1. enterGame("sp", None, None) /\ UNCHANGED <<lobby, screen, overlay, conn, asked, released>>
        /\ launches' \subseteq launches
    BY <1>2 DEF PickGame
  <2> QED  BY <2>1, EnterKeeps
<1>3. CASE enterMultiplayer
  <2>1. PICK c \in Conns : lobby' = c /\ conn' = [conn EXCEPT ![c] = "connecting"]
    BY <1>3 DEF enterMultiplayer
  <2>2. /\ ~ booted /\ lobby = None /\ screen' = "connecting"
        /\ UNCHANGED <<booted, overlay, released, active, canvas, entry, asked, launches>>
    BY <1>3 DEF enterMultiplayer, Unbooted
  <2>3. TabTypes'  BY <2>1, <2>2 DEF TabInv, TabTypes, Screens
  <2>4. OneSession'  BY <2>2 DEF TabInv, OneSession
  <2>5. NoSeatUnseen'
    <3>1. \A d \in Conns : conn[d] \notin {"connecting", "seat", "observer"}
      BY <2>2, LauncherAssumption DEF TabInv, NoSeatUnseen, Open
    <3>2. \A d \in Conns : d # c => conn'[d] = conn[d]  BY <2>1 DEF TabInv, TabTypes
    <3> QED  BY <2>1, <2>2, <3>1, <3>2, LauncherAssumption DEF NoSeatUnseen, Open
  <2>6. Known' /\ Ended'  BY <2>2 DEF TabInv, Known, Ended
  <2> QED  BY <2>3, <2>4, <2>5, <2>6 DEF TabInv
<1>4. CASE Picker
  <2>1. screen' \in Screens \ {"root", "sp"}  BY <1>4 DEF Picker, Screens
  <2> QED  BY <1>0, <1>4, <2>1, ShowKeeps DEF Picker, Unbooted
<1>5. CASE Back
  <2>1. CASE screen = "sp"
    <3>1. screen' \in Screens  BY <1>5, <2>1 DEF Back, Screens
    <3> QED  BY <1>0, <1>5, <2>1, <3>1, ShowKeeps DEF Back, Unbooted
  <2>2. CASE screen # "sp"
    <3>1. resetToLauncher /\ ~ booted /\ UNCHANGED <<entry, asked, launches>>
      BY <1>5, <2>2 DEF Back, Unbooted
    <3>2. active = None  BY <3>1 DEF TabInv, Known
    <3> QED  BY <1>0, <3>1, <3>2, ResetTakesOver
  <2> QED  BY <2>1, <2>2
<1>6. CASE DropIn
  <2>1. asked' \subseteq Conns  BY <1>0, <1>6 DEF DropIn
  <2> QED  BY <1>0, <1>6, <2>1, ShowKeeps DEF DropIn
<1>7. CASE Spectate
  <2>1. enterGame("spectate", lobby, None) /\ UNCHANGED <<lobby, screen, overlay, conn, asked, released>>
        /\ launches' \subseteq launches
    BY <1>7 DEF Spectate
  <2> QED  BY <1>0, <2>1, EnterKeeps
<1> QED  BY <1>1, <1>2, <1>3, <1>4, <1>5, <1>6, <1>7 DEF TabUser

\* So does what comes of a lobby connection.
LEMMA ConnKeeps ==
  ASSUME TabInv, NEW c \in Conns,
         \/ Answered(c) \/ Full(c) \/ CountdownShown(c) \/ SocketCloses(c)
         \/ \E good \in BOOLEAN : Launch(c, good)
  PROVE  TabInv'
<1>0. /\ asked \subseteq Conns /\ launches \subseteq [conn : Conns, join : BOOLEAN, left : 1 .. Pings]
      /\ overlay \in {"hidden", "shown", "melting"} /\ screen \in Screens
      /\ lobby \in Conns \cup {None} /\ entry \in [Games -> Entries]
      /\ conn \in [Conns -> {"unused", "connecting", "seat", "observer", "closing", "closed"}]
  BY DEF TabInv, TabTypes
<1>s. conn[c] \in {"seat"} => lobby # None
  BY LauncherAssumption DEF TabInv, NoSeatUnseen, Open
<1>1. CASE Answered(c)
  <2>1. PICK role \in {"seat", "observer"} :
          /\ conn' = [conn EXCEPT ![c] = role]
          /\ screen' = IF screen # "connecting" THEN screen
                       ELSE IF role = "seat" THEN "lobby" ELSE "inprogress"
    BY <1>1 DEF Answered
  <2>2. screen' \in Screens /\ (screen' \in {"root", "sp"} => screen \in {"root", "sp"})
    BY <1>0, <2>1 DEF Screens
  <2>3. conn[c] = "connecting" /\ UNCHANGED <<booted, lobby, overlay, released, active, canvas, entry, asked, launches>>
    BY <1>1 DEF Answered, Unbooted
  <2> QED  BY <1>0, <2>1, <2>2, <2>3, WireKeeps
<1>2. CASE Full(c)
  <2>1. UNCHANGED <<entry, asked, launches>>  BY <1>2 DEF Full, Unbooted
  <2>2. CASE booted  BY <1>0, <1>2, <2>1, <2>2, ShowKeeps DEF Full
  <2>3. CASE ~ booted
    <3>1. active = None  BY <2>3 DEF TabInv, Known
    <3> QED  BY <1>0, <1>2, <2>1, <2>3, <3>1, ResetTakesOver DEF Full
  <2> QED  BY <2>2, <2>3
<1>3. CASE CountdownShown(c)
  <2>1. /\ conn[c] = "seat" /\ overlay' \in {"hidden", "shown", "melting"}
        /\ UNCHANGED <<booted, lobby, screen, conn, released, active, canvas, entry, asked, launches>>
    BY <1>0, <1>3 DEF CountdownShown, Unbooted
  <2> QED  BY <1>0, <1>s, <2>1, ShowKeeps
<1>4. CASE SocketCloses(c)
  <2>1. UNCHANGED <<entry, asked, launches>>  BY <1>4 DEF SocketCloses, Unbooted
  <2>2. CASE ~ booted /\ lobby # None
    <3>1. active = None  BY <2>2 DEF TabInv, Known
    <3>2. /\ released' = released \cup ({active} \ {None}) /\ active' = None
          /\ canvas' = (canvas /\ active = None) /\ booted' = FALSE /\ lobby' = None
          /\ overlay' = "hidden" /\ screen' = "root"
          /\ conn' = [Closed(conn, lobby) EXCEPT ![c] = "closed"]
      BY <1>4, <2>2 DEF SocketCloses
    <3>3. Closed(conn, lobby) \in
            [Conns -> {"unused", "connecting", "seat", "observer", "closing", "closed"}]
      BY <1>0, ClosedIs
    <3>4. \A d \in Conns : Closed(conn, lobby)[d] \notin {"connecting", "seat", "observer"}
      BY <1>0, ClosedIs DEF TabInv, NoSeatUnseen, Open
    <3>5. /\ conn' \in [Conns -> {"unused", "connecting", "seat", "observer", "closing", "closed"}]
          /\ \A d \in Conns : conn'[d] \notin {"connecting", "seat", "observer"}
      BY <3>2, <3>3, <3>4
    <3>6. TakesOver  BY <1>0, <2>1, <3>1, <3>2, <3>5 DEF TakesOver
    <3> QED  BY <3>6, TakenOver
  <2>3. CASE ~ (~ booted /\ lobby # None)
    <3>1. conn' = [conn EXCEPT ![c] = "closed"]
          /\ UNCHANGED <<booted, lobby, screen, overlay, released, active, canvas>>
      BY <1>4, <2>3 DEF SocketCloses
    <3> QED  BY <1>0, <2>1, <3>1, WireKeeps
  <2> QED  BY <2>2, <2>3
<1>5. ASSUME NEW good \in BOOLEAN, Launch(c, good)  PROVE TabInv'
  <2>1. UNCHANGED <<entry, asked>>  BY <1>5 DEF Launch
  <2>2. CASE booted  BY <1>0, <1>5, <2>1, <2>2, ShowKeeps DEF Launch
  <2>3. CASE ~ booted /\ ~ good
    <3>1. active = None  BY <2>3 DEF TabInv, Known
    <3> QED  BY <1>0, <1>5, <2>1, <2>3, <3>1, ResetTakesOver DEF Launch
  <2>4. CASE ~ booted /\ good
    <3>1. /\ overlay' = IF conn[c] = "seat" THEN "shown" ELSE overlay
          /\ launches' = launches \cup {[conn |-> c, join |-> conn[c] = "observer", left |-> Pings]}
          /\ UNCHANGED <<booted, lobby, screen, conn, released, active, canvas>>
      BY <1>5, <2>4 DEF Launch
    <3>2. launches' \subseteq [conn : Conns, join : BOOLEAN, left : 1 .. Pings]
      <4> DEFINE asks == conn[c] = "observer"
      <4>1. asks \in BOOLEAN /\ Pings \in 1 .. Pings  BY LauncherAssumption
      <4>2. launches' = launches \cup {[conn |-> c, join |-> asks, left |-> Pings]}  BY <3>1
      <4> HIDE DEF asks
      <4> QED  BY <1>0, <4>1, <4>2
    <3>3. /\ overlay' \in {"hidden", "shown", "melting"}
          /\ overlay' # "hidden" => overlay # "hidden" \/ booted \/ lobby # None
      BY <1>0, <1>s, <3>1
    <3> QED  BY <1>0, <2>1, <3>1, <3>2, <3>3, ShowKeeps
  <2> QED  BY <2>2, <2>3, <2>4
<1> QED  BY <1>1, <1>2, <1>3, <1>4, <1>5

\* And a ping that is answered, or was the last.
LEMMA PingKeeps ==
  ASSUME TabInv, NEW h \in launches, Ponged(h) \/ LastPing(h)  PROVE TabInv'
<1>0. /\ asked \subseteq Conns /\ launches \subseteq [conn : Conns, join : BOOLEAN, left : 1 .. Pings]
      /\ overlay \in {"hidden", "shown", "melting"} /\ screen \in Screens
      /\ lobby \in Conns \cup {None} /\ h \in [conn : Conns, join : BOOLEAN, left : 1 .. Pings]
  BY DEF TabInv, TabTypes
<1>1. CASE Ponged(h)
  <2>1. h.left > 1
        /\ UNCHANGED <<booted, lobby, screen, overlay, conn, asked, entry, released, active, canvas>>
        /\ launches' = (launches \ {h}) \cup IF lobby = None THEN {} ELSE {[h EXCEPT !.left = h.left - 1]}
    BY <1>1 DEF Ponged
  <2>2. [h EXCEPT !.left = h.left - 1] \in [conn : Conns, join : BOOLEAN, left : 1 .. Pings]
    BY <1>0, <2>1, LauncherAssumption
  <2>3. launches' \subseteq [conn : Conns, join : BOOLEAN, left : 1 .. Pings]
    BY <1>0, <2>1, <2>2
  <2> QED  BY <1>0, <2>1, <2>3, ShowKeeps
<1>2. CASE LastPing(h)
  <2>1. launches' \subseteq launches /\ UNCHANGED <<lobby, screen, overlay, conn, asked, released>>
    BY <1>2 DEF LastPing
  <2>2. CASE lobby = None
    <3>1. UNCHANGED <<booted, entry, active, canvas>>  BY <1>2, <2>2 DEF LastPing
    <3> QED  BY <1>0, <2>1, <3>1, ShowKeeps
  <2>3. CASE lobby # None
    <3> DEFINE kind == IF h.join THEN "join" ELSE "player"
    <3>1. enterGame(kind, h.conn, lobby)  BY <1>2, <2>3 DEF LastPing
    <3>2. kind \in {"sp", "player", "join", "spectate"} /\ h.conn \in Conns \cup {None}  BY <1>0
    <3> HIDE DEF kind
    <3> QED  BY <1>0, <2>1, <3>1, <3>2, EnterKeeps
  <2> QED  BY <2>2, <2>3
<1> QED  BY <1>1, <1>2

\* A boot comes to its end: what is known of the running game stays.
LEMMA ArrivedKeeps ==
  ASSUME TabInv, NEW b \in Games, Arrived(b), b \notin released, entry[b].phase \in Alive,
         UNCHANGED <<asked, launches>>
  PROVE  TabInv'
<1>0. /\ lobby \in Conns \cup {None} /\ entry \in [Games -> Entries]
      /\ conn \in [Conns -> {"unused", "connecting", "seat", "observer", "closing", "closed"}]
  BY DEF TabInv, TabTypes
<1>1. /\ entry' \in [Games -> Entries] /\ entry'[b].phase = "running"
      /\ \A d \in Games : d # b => entry'[d] = entry[d]
  BY <1>0 DEF Arrived, Phase, Entries, Phases
<1>2. UNCHANGED <<booted, lobby, screen, released, active, canvas>>  BY DEF Arrived
<1>3. /\ conn' \in [Conns -> {"unused", "connecting", "seat", "observer", "closing", "closed"}]
      /\ \A c \in Conns : conn'[c] \in {"connecting", "seat", "observer"} =>
           conn[c] \in {"connecting", "seat", "observer"}
  BY <1>0, ClosedIs DEF Arrived
<1>4. TabTypes'
  BY <1>1, <1>2, <1>3 DEF Arrived, TabInv, TabTypes
<1>5. OneSession'
  BY <1>1, <1>2 DEF TabInv, OneSession, Alive
<1>6. NoSeatUnseen'
  BY <1>2, <1>3 DEF Arrived, TabInv, NoSeatUnseen, Open
<1>7. Known'  BY <1>0, <1>1, <1>2 DEF TabInv, TabTypes, Known, Alive
<1>8. Ended'  BY <1>1, <1>2 DEF TabInv, TabTypes, Ended
<1> QED  BY <1>4, <1>5, <1>6, <1>7, <1>8 DEF TabInv

\* So does a boot that goes on, fails or ends its session.
LEMMA BootKeeps ==
  ASSUME TabInv, NEW b \in Games, Loaded(b) \/ BootCaughtUp(b) \/ Fails(b) \/ Ends(b)
  PROVE  TabInv'
<1>0. /\ asked \subseteq Conns /\ launches \subseteq [conn : Conns, join : BOOLEAN, left : 1 .. Pings]
      /\ overlay \in {"hidden", "shown", "melting"} /\ screen \in Screens
      /\ lobby \in Conns \cup {None} /\ entry \in [Games -> Entries]
      /\ conn \in [Conns -> {"unused", "connecting", "seat", "observer", "closing", "closed"}]
      /\ UNCHANGED <<asked, launches>>
  BY DEF TabInv, TabTypes, Loaded, BootCaughtUp, Fails, Ends
<1>p. ASSUME NEW p \in Phases, Phase(b, p)
      PROVE  /\ entry' \in [Games -> Entries] /\ entry'[b].phase = p
             /\ \A d \in Games : d # b => entry'[d] = entry[d]
  BY <1>0, <1>p DEF Phase, Entries
<1>1. CASE Loaded(b)
  <2>0. entry[b].phase = "loading" /\ b \notin released
    BY <1>1 DEF Loaded, TabInv, Ended
  <2>1. CASE entry[b].kind \in {"join", "spectate"}
    <3>1. Phase(b, "catchup")
          /\ UNCHANGED <<booted, lobby, screen, overlay, conn, released, active, canvas>>
      BY <1>1, <2>0, <2>1 DEF Loaded
    <3>2. /\ entry' \in [Games -> Entries] /\ entry'[b].phase = "catchup"
          /\ \A d \in Games : d # b => entry'[d] = entry[d]
      BY <1>p, <3>1 DEF Phases
    <3>3. TabTypes'  BY <1>0, <3>1, <3>2 DEF TabInv, TabTypes
    <3>4. OneSession'  BY <2>0, <3>1, <3>2 DEF TabInv, OneSession
    <3>5. NoSeatUnseen'  BY <3>1 DEF TabInv, NoSeatUnseen, Open
    <3>6. Known'  BY <1>0, <3>1, <3>2 DEF TabInv, TabTypes, Known, Alive
    <3>7. Ended'  BY <3>1, <3>2 DEF TabInv, TabTypes, Ended
    <3> QED  BY <3>3, <3>4, <3>5, <3>6, <3>7 DEF TabInv
  <2>2. CASE entry[b].kind \notin {"join", "spectate"}
    <3>1. Arrived(b)  BY <1>1, <2>0, <2>2 DEF Loaded
    <3> QED  BY <1>0, <2>0, <3>1, ArrivedKeeps DEF Alive
  <2> QED  BY <2>1, <2>2
<1>2. CASE BootCaughtUp(b)
  BY <1>0, <1>2, ArrivedKeeps DEF BootCaughtUp, Alive
<1>3. CASE Fails(b)
  <2>1. entry[b].phase \in {"loading", "catchup"} /\ Phase(b, "over")  BY <1>3 DEF Fails
  <2>2. /\ entry' \in [Games -> Entries] /\ entry'[b].phase = "over"
        /\ \A d \in Games : d # b => entry'[d] = entry[d]
    BY <1>p, <2>1 DEF Phases
  <2>3. CASE b \in released
    <3>1. entry[b].phase = "catchup"  BY <2>1, <2>3 DEF TabInv, Ended
    <3>2. UNCHANGED <<booted, lobby, screen, overlay, conn, released, active, canvas>>
      BY <1>3, <2>3, <3>1 DEF Fails
    <3>3. TabTypes'  BY <1>0, <2>2, <3>2 DEF TabInv, TabTypes
    <3>4. OneSession'  BY <2>2, <3>2 DEF TabInv, OneSession
    <3>5. NoSeatUnseen'  BY <3>2 DEF TabInv, NoSeatUnseen, Open
    <3>6. Known'  BY <2>2, <2>3, <3>2 DEF TabInv, TabTypes, Known
    <3>7. Ended'  BY <2>2, <3>2 DEF TabInv, TabTypes, Ended
    <3> QED  BY <3>3, <3>4, <3>5, <3>6, <3>7 DEF TabInv
  <2>4. CASE b \notin released
    <3>1. active = b  BY <2>1, <2>4 DEF TabInv, OneSession
    <3>2. resetToLauncher  BY <1>3, <2>4 DEF Fails
    <3>3. \A d \in Games : entry'[d].phase \in {entry[d].phase, "over"}  BY <2>2
    <3> QED  BY <1>0, <2>2, <3>1, <3>2, <3>3, ResetTakesOver
  <2> QED  BY <2>3, <2>4
<1>4. CASE Ends(b)
  <2>1. entry[b].phase \in {"running", "catchup"} /\ b \notin released  BY <1>4 DEF Ends
  <2>2. active = b  BY <2>1 DEF TabInv, OneSession
  <2>3. /\ released' = released \cup {b} /\ active' = None /\ canvas' = FALSE
        /\ booted' = FALSE /\ lobby' = None /\ conn' = Closed(conn, lobby)
        /\ overlay' = "hidden" /\ screen' = "root"
    BY <1>4, <2>1 DEF Ends, endSession
  <2>4. /\ entry' \in [Games -> Entries]
        /\ \A d \in Games : entry'[d].phase \in {entry[d].phase, "over"}
        /\ entry'[b].phase # "loading"
    <3>1. CASE entry[b].phase = "running"
      <4>1. Phase(b, "over")  BY <1>4, <3>1 DEF Ends, Phase
      <4> QED  BY <1>p, <4>1 DEF Phases
    <3>2. CASE entry[b].phase # "running"
      BY <1>0, <1>4, <2>1, <3>2 DEF Ends
    <3> QED  BY <3>1, <3>2
  <2>5. /\ conn' \in [Conns -> {"unused", "connecting", "seat", "observer", "closing", "closed"}]
        /\ \A c \in Conns : conn'[c] \notin {"connecting", "seat", "observer"}
    BY <1>0, <2>3, ClosedIs DEF TabInv, NoSeatUnseen, Open
  <2>6. {active} \ {None} = {b} /\ (canvas /\ active = None) = FALSE
    BY <2>2, LauncherAssumption
  <2>7. TakesOver  BY <1>0, <2>2, <2>3, <2>4, <2>5, <2>6 DEF TakesOver
  <2> QED  BY <2>7, TakenOver
<1> QED  BY <1>1, <1>2, <1>3, <1>4

\* TabInv holds after each step.
LEMMA TabStep == TabInv /\ [LauncherNext]_launcherVars => TabInv'
<1> SUFFICES ASSUME TabInv, [LauncherNext]_launcherVars  PROVE TabInv'  OBVIOUS
<1>1. CASE TabUser  BY <1>1, UserKeeps
<1>2. CASE Melted
  BY <1>2, ShowKeeps DEF Melted, Unbooted, TabInv, TabTypes
<1>3. ASSUME NEW c \in Conns,
             \/ Answered(c) \/ Full(c) \/ CountdownShown(c) \/ SocketCloses(c)
             \/ \E good \in BOOLEAN : Launch(c, good)
      PROVE  TabInv'
  BY <1>3, ConnKeeps
<1>4. ASSUME NEW h \in launches, Ponged(h) \/ LastPing(h)  PROVE TabInv'  BY <1>4, PingKeeps
<1>5. ASSUME NEW b \in Games, Loaded(b) \/ BootCaughtUp(b) \/ Fails(b) \/ Ends(b)  PROVE TabInv'
  BY <1>5, BootKeeps
<1>6. CASE UNCHANGED launcherVars
  BY <1>6, ShowKeeps DEF launcherVars, TabInv, TabTypes
<1> QED  BY <1>1, <1>2, <1>3, <1>4, <1>5, <1>6 DEF LauncherNext

\* The invariant that the two theorems below rest on.
LEMMA TabInvariance == LauncherSpec => []TabInv
BY TabStart, TabStep, PTL DEF LauncherSpec

\* The state of the tab is of its types.
THEOREM TabTyped == LauncherSpec => []LauncherTypeOK
<1>1. TabInv => LauncherTypeOK
  BY DEF TabInv, TabTypes, LauncherTypeOK, Entries
<1> QED  BY <1>1, TabInvariance, PTL

\* A tab is one thing at a time: one engine at most, no seat held behind a menu, and
\* no boot that takes another game down when it fails.
THEOREM TabStaysOne == LauncherSpec => TabIsOne
<1>1. TabInv => OneSession /\ NoSeatUnseen  BY DEF TabInv
<1>2. ASSUME TabInv, NEW b \in Games, Fails(b)  PROVE released' \subseteq released \cup {b}
  <2>1. CASE b \in released
    <3>1. entry[b].phase = "catchup"  BY <1>2, <2>1 DEF TabInv, Ended, Fails
    <3> QED  BY <1>2, <2>1, <3>1 DEF Fails
  <2>2. CASE b \notin released
    <3>1. active = b  BY <1>2, <2>2 DEF TabInv, OneSession, Fails
    <3> QED  BY <1>2, <2>2, <3>1 DEF Fails, resetToLauncher
  <2> QED  BY <2>1, <2>2
<1>3. TabInv => [\A b \in Games : Fails(b) => released' \subseteq released \cup {b}]_launcherVars
  BY <1>2
<1> QED  BY <1>1, <1>3, TabInvariance, PTL DEF TabIsOne, BootsDoNotCross
=============================================================================
