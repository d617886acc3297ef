---------------------------- MODULE MonsterInfo -----------------------------
(***************************************************************************)
(* The tables that drive the monsters (info.c): for each kind its frames,   *)
(* states[], as named sequences of action functions, and its mobjinfo[].    *)
(*                                                                         *)
(* "-" is a frame whose action changes nothing but sounds, angles and       *)
(* positions (A_FaceTarget, A_Pain, A_Scream, A_Tracer, ...); such a frame  *)
(* that follows another is merged with it, as are the frames of a walk.     *)
(* After a sequence comes the frame that after names; or the last frame     *)
(* stays (Lie: tics of -1), or the mobj is removed (Null: S_NULL).          *)
(***************************************************************************)
EXTENDS Integers, Sequences, TLC

Run1 == <<"run", 1>>
Lie == <<"lie", 1>>
Null == <<"null", 1>>

\* Every kind can be crushed to S_GIBS.
Frames(chains, after) ==
  [chains |-> chains @@ [gibs |-> <<"-">>],
   after |-> after @@ [stnd |-> <<"stnd", 1>>, run |-> Run1, atk |-> Run1, fist |-> Run1,
                       pain |-> Run1, raise |-> Run1, heal |-> Run1,
                       die |-> Lie, xdie |-> Lie, gibs |-> Lie]]
Usual == <<>>

\* One that walks, attacks, falls and may be raised.
Walker(attack) ==
  [stnd |-> <<"A_Look", "A_Look">>, run |-> <<"A_Chase">>, atk |-> attack, pain |-> <<"-">>,
   die |-> <<"-", "A_Fall", "-">>, raise |-> <<"-">>]
Gibbed == [xdie |-> <<"-", "A_Fall", "-">>]
Floater(attack) == [Walker(attack) EXCEPT !.stnd = <<"A_Look">>]
Boss(attack) == [Walker(attack) EXCEPT !.die = <<"-", "A_Fall", "A_BossDeath">>]

POSS == Frames(Walker(<<"-", "A_PosAttack">>) @@ Gibbed, Usual)
SPOS == Frames(Walker(<<"-", "A_SPosAttack">>) @@ Gibbed, Usual)
VILE == Frames([Walker(<<"-", "A_VileTarget", "A_VileAttack">>)
                  EXCEPT !.run = <<"A_VileChase">>] @@ [heal |-> <<"-">>], Usual)
FIRE == Frames([stnd |-> <<"A_Fire", "A_Fire">>], [stnd |-> Null])
TRACER == Frames([stnd |-> <<"-">>, die |-> <<"-">>], [die |-> Null])
SKEL == Frames(Walker(<<"-", "A_SkelMissile">>) @@ [fist |-> <<"-", "A_SkelFist">>], Usual)
FATT == Frames(Boss(<<"-", "A_FatAttack", "A_FatAttack", "A_FatAttack">>), Usual)
CPOS == Frames(Walker(<<"-", "A_CPosAttack", "A_CPosAttack", "A_CPosRefire">>) @@ Gibbed,
               [atk |-> <<"atk", 2>>])
TROO == Frames(Walker(<<"-", "A_TroopAttack">>) @@ Gibbed, Usual)
SARG == Frames(Walker(<<"-", "A_SargAttack">>), Usual)
HEAD == Frames(Floater(<<"-", "A_HeadAttack">>), Usual)
BOSS == Frames(Boss(<<"-", "A_BruisAttack">>), Usual)
BOS2 == Frames(Walker(<<"-", "A_BruisAttack">>), Usual)
SKULL == Frames([Walker(<<"-", "A_SkullAttack", "-">>) EXCEPT !.die = <<"-", "A_Fall">>],
                [atk |-> <<"atk", 3>>, die |-> Null])
SPID == Frames(Boss(<<"-", "A_SPosAttack", "A_SPosAttack", "A_SpidRefire">>), [atk |-> <<"atk", 2>>])
\* S_BSPI_SIGHT comes before the walk.
BSPI == LET walk == <<"run", 2>> IN
        Frames([Boss(<<"-", "A_BspiAttack", "A_SpidRefire">>) EXCEPT !.run = <<"-", "A_Chase">>],
               [atk |-> <<"atk", 2>>, run |-> walk, pain |-> walk, raise |-> walk])
CYBER == Frames(Boss(<<"-", "A_CyberAttack", "A_CyberAttack", "A_CyberAttack">>), Usual)
PAIN == Frames([Floater(<<"-", "A_PainAttack">>) EXCEPT !.die = <<"-", "A_PainDie">>], [die |-> Null])
\* S_PAIN_ATK4 lasts 0 tics.
Instant(kind, st) == kind = "MT_PAIN" /\ st = <<"atk", 2>>
SSWV == Frames(Walker(<<"-", "A_CPosAttack", "A_CPosAttack", "A_CPosRefire">>) @@ Gibbed,
               [atk |-> <<"atk", 1>>])
KEEN == Frames([stnd |-> <<"-">>, pain |-> <<"-">>, die |-> <<"-", "A_KeenDie", "-">>],
               [stnd |-> Lie, pain |-> <<"stnd", 1>>])
BRAIN == Frames([stnd |-> <<"-">>, pain |-> <<"-">>, die |-> <<"-", "A_BrainDie">>],
                [stnd |-> Lie, pain |-> <<"stnd", 1>>])
BAR == Frames([stnd |-> <<"-">>, die |-> <<"-", "A_Explode">>], [die |-> Null])
\* A monster's other missiles, and its rockets.
BALL == Frames([stnd |-> <<"-">>, die |-> <<"-">>], [die |-> Null])
MISL == Frames([stnd |-> <<"-">>, die |-> <<"A_Explode">>], [die |-> Null])

-----------------------------------------------------------------------------
(* mobjinfo[], by what differs from most.                                  *)

Monster(states, what) ==
  what @@ [states |-> states, seestate |-> "run", meleestate |-> "null", missilestate |-> "atk",
           painstate |-> "pain", deathstate |-> "die", xdeathstate |-> "null",
           raisestate |-> "raise", flags |-> {"SOLID", "SHOOTABLE", "COUNTKILL"}]
Missile(states) ==
  Monster(states, [seestate |-> "null", missilestate |-> "null", painstate |-> "null",
                   raisestate |-> "null", flags |-> {"MISSILE"}])

MT_POSSESSED == Monster(POSS, [xdeathstate |-> "xdie"])
MT_SHOTGUY == Monster(SPOS, [xdeathstate |-> "xdie"])
MT_VILE == Monster(VILE, [raisestate |-> "null"])
MT_FIRE == Monster(FIRE, [seestate |-> "null", missilestate |-> "null", painstate |-> "null",
                          deathstate |-> "null", raisestate |-> "null", flags |-> {}])
MT_UNDEAD == Monster(SKEL, [meleestate |-> "fist"])
MT_TRACER == Missile(TRACER)
MT_FATSO == Monster(FATT, Usual)
MT_FATSHOT == Missile(BALL)
MT_CHAINGUY == Monster(CPOS, [xdeathstate |-> "xdie"])
MT_TROOP == Monster(TROO, [meleestate |-> "atk", xdeathstate |-> "xdie"])
MT_SERGEANT == Monster(SARG, [meleestate |-> "atk", missilestate |-> "null"])
MT_SHADOWS == Monster(SARG, [meleestate |-> "atk", missilestate |-> "null"])
MT_HEAD == Monster(HEAD, Usual)
MT_BRUISER == Monster(BOSS, [meleestate |-> "atk"])
MT_BRUISERSHOT == Missile(BALL)
MT_KNIGHT == Monster(BOS2, [meleestate |-> "atk"])
MT_SKULL == Monster(SKULL, [raisestate |-> "null", flags |-> {"SOLID", "SHOOTABLE"}])
MT_SPIDER == Monster(SPID, [raisestate |-> "null"])
MT_BABY == Monster(BSPI, Usual)
MT_CYBORG == Monster(CYBER, [raisestate |-> "null"])
MT_PAIN == Monster(PAIN, Usual)
MT_WOLFSS == Monster(SSWV, [xdeathstate |-> "xdie"])
MT_KEEN == Monster(KEEN, [seestate |-> "null", missilestate |-> "null", raisestate |-> "null"])
MT_BOSSBRAIN == Monster(BRAIN, [seestate |-> "null", missilestate |-> "null", raisestate |-> "null",
                                flags |-> {"SOLID", "SHOOTABLE"}])
MT_BARREL == Monster(BAR, [seestate |-> "null", missilestate |-> "null", painstate |-> "null",
                           raisestate |-> "null", flags |-> {"SOLID", "SHOOTABLE"}])
MT_TROOPSHOT == Missile(BALL)
MT_HEADSHOT == Missile(BALL)
MT_ROCKET == Missile(MISL)
MT_ARACHPLAZ == Missile(BALL)

mobjinfo ==
  [MT_POSSESSED |-> MT_POSSESSED, MT_SHOTGUY |-> MT_SHOTGUY, MT_VILE |-> MT_VILE, MT_FIRE |-> MT_FIRE,
   MT_UNDEAD |-> MT_UNDEAD, MT_TRACER |-> MT_TRACER, MT_FATSO |-> MT_FATSO, MT_FATSHOT |-> MT_FATSHOT,
   MT_CHAINGUY |-> MT_CHAINGUY, MT_TROOP |-> MT_TROOP, MT_SERGEANT |-> MT_SERGEANT,
   MT_SHADOWS |-> MT_SHADOWS, MT_HEAD |-> MT_HEAD, MT_BRUISER |-> MT_BRUISER,
   MT_BRUISERSHOT |-> MT_BRUISERSHOT, MT_KNIGHT |-> MT_KNIGHT, MT_SKULL |-> MT_SKULL,
   MT_SPIDER |-> MT_SPIDER, MT_BABY |-> MT_BABY, MT_CYBORG |-> MT_CYBORG, MT_PAIN |-> MT_PAIN,
   MT_WOLFSS |-> MT_WOLFSS, MT_KEEN |-> MT_KEEN, MT_BOSSBRAIN |-> MT_BOSSBRAIN,
   MT_BARREL |-> MT_BARREL, MT_TROOPSHOT |-> MT_TROOPSHOT, MT_HEADSHOT |-> MT_HEADSHOT,
   MT_ROCKET |-> MT_ROCKET, MT_ARACHPLAZ |-> MT_ARACHPLAZ]
=============================================================================
