------------------------------- MODULE MCSite -------------------------------
(* The browser and the server's demos, on small instances: a client's bundle *)
(* pump, the flow of a game, the tab that enters it, the saves it keeps and  *)
(* the demo store.  part says which of them runs.                            *)
EXTENDS Client, Persist, Game, Launcher, DemoStore, MCGame

CONSTANTS d1, d2, d3, d4

VARIABLES part

\* d1 and d2 differ in their bytes only; d4 alone is more than the quota.
SiteBytes == d1 :> 1 @@ d2 :> 1 @@ d3 :> 2 @@ d4 :> TotalQuota

siteVars == <<part, vars, gameVars, launcherVars, persistVars, demoVars>>

FirstBoot == CHOOSE b \in Boots : TRUE

SiteInit ==
  /\ part \in {"client", "game", "launcher", "persist", "demos"}
  /\ Init
  /\ GameInit /\ (part # "game" => boot = FirstBoot /\ g.file = NoFile)
  /\ LauncherInit /\ PersistInit /\ DemoInit

ClientStep(A) ==
  part = "client" /\ A /\ UNCHANGED <<part, gameVars, launcherVars, persistVars, demoVars>>
GameStep(A) ==
  part = "game" /\ A /\ UNCHANGED <<part, vars, launcherVars, persistVars, demoVars>>
LauncherStep(A) ==
  part = "launcher" /\ A /\ UNCHANGED <<part, vars, gameVars, persistVars, demoVars>>
PersistStep(A) ==
  part = "persist" /\ A /\ UNCHANGED <<part, vars, gameVars, launcherVars, demoVars>>
DemosStep(A) ==
  part = "demos" /\ A /\ UNCHANGED <<part, vars, gameVars, launcherVars, persistVars>>

SiteNext ==
  \/ ClientStep(Next) \/ GameStep(GameNext) \/ LauncherStep(LauncherNext) \/ PersistStep(PersistNext)
  \/ DemosStep(DemoNext)

SiteSpec == SiteInit /\ [][SiteNext]_siteVars /\ WF_siteVars(GameStep(Tic(TRUE)))

\* The type invariants: every field of the client, of the game, of the tab, of
\* the waiting requests and of a record holds what the code that reads it allows.
TypesOK ==
  CASE part = "client" -> TypeOK
    [] part = "game" -> GameTypeOK
    [] part = "launcher" -> LauncherTypeOK
    [] part = "persist" -> PersistTypeOK
    [] part = "demos" -> DemoTypeOK
=============================================================================
