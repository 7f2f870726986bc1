------------------------------ MODULE MCScoring ------------------------------
\* A small instance of Scoring; the shares are those of api/fleet_rules.py.
EXTENDS Scoring

MCTypeOf == [a |-> "web", b |-> "db"]
MCTelemetry == [1..3 -> {0, 2}]
MCTrainingFile == {{<<"a", "night">>}, {<<"a", "night">>, <<"a", "morning">>, <<"b", "morning">>}}
MCCauses == <<"cpu", "ram">>
MCPerClass == {[cpu |-> 1], [cpu |-> 1, ram |-> 2]}
MCFleet == <<"r1", "m1", "m2", "m3">>
TwoFifths == <<2, 5>>
ThreeTwentieths == <<3, 20>>
ThreeFifths == <<3, 5>>
MCHours == <<1, 20>>
MCCauseOf == [p1 |-> "cpu", p2 |-> "net_only"]
MCReading(m, real) == [machine |-> m, label |-> real]
MCFleetFile == {<<MCReading("a", FALSE), MCReading("a", TRUE), MCReading("a", FALSE)>>,
                <<MCReading("a", FALSE), MCReading("none", FALSE), MCReading("a", TRUE), MCReading("b", TRUE)>>}
MCReplayFile == {<<MCReading("a", FALSE), MCReading("a", TRUE), MCReading("b", TRUE), MCReading("b", TRUE)>>,
                 <<MCReading("a", FALSE), MCReading("none", FALSE), MCReading("a", TRUE), MCReading("b", TRUE)>>}
\* The tabs are alike.
Tlc == INSTANCE TLC
TabsAlike == Tlc!Permutations(Tab)
==============================================================================
