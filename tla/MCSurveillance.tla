--------------------------- MODULE MCSurveillance ----------------------------
(* Surveillance of a gated camera with a restricted zone, and of an ungated  *)
(* one with zones that have rules and schedules of their own.                *)
EXTENDS Surveillance

MCZones == {"z1", "z2"}
MCObjects == {1, 2}
MCKeys ==
    {<<"intrusion", i, "z1">> : i \in 1..MaxTracks}
    \cup {<<"running", i, z>> : i \in 1..MaxTracks, z \in MCZones}
    \cup {<<"direction", i, "z2">> : i \in 1..MaxTracks}
    \cup {<<"crowding", i, "z2">> : i \in (1..MaxTracks) \cup {None}}
MCCooldown == [k \in MCKeys |-> CASE k[1] = "intrusion" -> 3 [] k[1] = "crowding" -> 4 [] OTHER -> 2]

Zone(type) == BackendZone(
    [type |-> type, timeWindows |-> {}, baseMode |-> None, relaxed |-> 0, strict |-> 1,
     medium |-> 2, high |-> 5, decay |-> 1, cooldown |-> 2])

Person(zones) == [class |-> "person", zones |-> zones, fast |-> FALSE, against |-> {}]
Runner(zones, against) == [class |-> "person", zones |-> zones, fast |-> TRUE, against |-> against]

Empty == [o \in {} |-> None]
One(sighting) == [o \in {1} |-> sighting]
Both(first, second) == [o \in {1, 2} |-> IF o = 1 THEN first ELSE second]

\* As deployed: the backend's zones have neither rules nor schedules.
Gated == [zones |-> [z \in {"z1"} |-> Zone("restricted")], gate |-> TRUE, switches |-> 2,
          scenes |-> {Empty, One(Person(<<"z1">>)), One(Person(<< >>))}]

\* As the engine's tests build zones: the night is quiet on z1, a crowd of two is
\* HIGH and one of more than one person MEDIUM on z2, where people do run.
Night == [start |-> 3, end |-> 1, days |-> 0..6, shift |-> 0, reduceBy |-> 2]
Noon == [start |-> 1, end |-> 3, days |-> {0, 2}, shift |-> 1, reduceBy |-> 1]
Ruled == [zones |-> [z1 |-> [Zone("restricted") EXCEPT !.schedules = {Night, Noon}, !.strict = 0,
                             !.timeWindows = {[start |-> 3, end |-> 1]}],
                     z2 |-> [Zone("entrance") EXCEPT !.strict = 0, !.schedules = {Noon},
                             !.rules = << [Rule("*", High, "crowding") EXCEPT !.maxCount = 1] >>]],
          gate |-> FALSE, switches |-> 0,
          scenes |-> {Empty, One(Person(<<"z1">>)),
                      One(Runner(<<"z1", "z2">>, {"z2"})),
                      Both(Runner(<<"z2">>, {}), Person(<<"z2">>))}]

\* What FullLevelReturns and IntruderReported are true under.
ASSUME MCConditions == Unhidden /\ LongBooted

MCGated == {Gated}
MCSetups == {Gated, Ruled}
=============================================================================
