------------------------------ MODULE MCMovers ------------------------------
(* Ten small maps for Movers.  Sector 0 is the outside. *)
EXTENDS Movers

Line(op, type, face) == [op |-> op, type |-> type, face |-> face, once |-> "no"]
Switch(op, type) == [Line(op, type, <<>>) EXCEPT !.once = "switch"]
Cross(op, type) == [Line(op, type, <<>>) EXCEPT !.once = "cross"]
Tagged(op, type) == Line(op, type, <<>>)

Base == [lines |-> {}, tagged |-> <<1>>, stairs |-> <<>>, ring |-> 2,
         special |-> (0 :> 0 @@ 1 :> 0), floor |-> (0 :> 0 @@ 1 :> 2), ceil |-> (0 :> 3 @@ 1 :> 3)]

Two(f1, f2) == [Base EXCEPT !.special = 0 :> 0 @@ 1 :> 0 @@ 2 :> 0,
                            !.floor = 0 :> 0 @@ 1 :> f1 @@ 2 :> f2,
                            !.ceil = 0 :> 3 @@ 1 :> 3 @@ 2 :> 3]

Lift == [Base EXCEPT !.lines = {Tagged("plat", "perpetualRaise"), Tagged("stopplat", "-"),
                                Switch("plat", "raiseAndChange"), Line("own", "normal", <<1>>)}]
Lifts == [Two(1, 1) EXCEPT !.tagged = <<1, 2>>, !.lines = {Tagged("plat", "perpetualRaise"),
                                Tagged("stopplat", "-"), Switch("plat", "downWaitUpStay")}]
Press == [Base EXCEPT !.lines = {Tagged("ceiling", "crushAndRaise"), Tagged("stopceiling", "-"),
                                Tagged("ceiling", "lowerToFloor"), Tagged("ceiling", "raiseToHighest")}]
Crusher == [Two(0, 0) EXCEPT !.tagged = <<1, 2>>, !.lines = {Tagged("ceiling", "crushAndRaise"),
                                Tagged("stopceiling", "-"), Tagged("ceiling", "raiseToHighest")}]
Full == [Base EXCEPT !.tagged = <<1, 2, 3>>, !.lines = {Tagged("plat", "downWaitUpStay"), Cross("stopplat", "-")},
                     !.special = [s \in 0 .. 3 |-> 0], !.floor = [s \in 0 .. 3 |-> s % 2], !.ceil = [s \in 0 .. 3 |-> 3]]
Doors(sp, ops) == [Base EXCEPT !.special = 0 :> 0 @@ 1 :> sp, !.floor = 0 :> 0 @@ 1 :> 0,
                     !.ceil = 0 :> 3 @@ 1 :> IF sp = 0 THEN 0 ELSE 3,
                     !.lines = {Line("own", "normal", <<1>>)} \cup ops]
Shut == Doors(0, {Line("own", "open", <<1>>), Cross("door", "close"), Tagged("door", "close30ThenOpen"),
                  Tagged("door", "open"), Tagged("door", "normal")})
Closing == Doors(10, {Tagged("door", "open"), Tagged("door", "close")})
Opening == Doors(14, {Line("own", "open", <<1>>), Tagged("door", "close")})
Pond == [Two(1, 0) EXCEPT !.lines = {Switch("donut", "-"), Tagged("floor", "raiseFloor"),
                                Tagged("floor", "lowerFloor")}]
Steps == [Two(0, 0) EXCEPT !.stairs = <<2>>, !.lines = {Cross("stairs", "-"),
                                Tagged("floor", "raiseFloorCrush")}]

MCLevels == {Lift, Lifts, Crusher, Press, Full, Shut, Closing, Opening, Pond, Steps}
=============================================================================
