------------------------------ MODULE MCJourney ------------------------------
(* Instances of Journey for TLC: trips from <<0,0>> to <<60,0>>.           *)
EXTENDS Journey

Trip(modes) == [id |-> "q1", origin |-> <<0, 0>>, destination |-> <<60, 0>>, country |-> "TH",
                area |-> {}, modes |-> modes, departure |-> 360, return |-> {}, avoid |-> 0]

\* A direct road and one that goes north around the middle.
Direct == [id |-> "direct", path |-> <<<<0, 0>>, <<30, 0>>, <<60, 0>>>>, minutes |-> 60]
North  == [id |-> "north", minutes |-> 80,
           path |-> <<<<0, 0>>, <<15, 30>>, <<30, 60>>, <<45, 30>>, <<60, 0>>>>]
Roads(features) == [code |-> "ok", features |-> features]
NoRoads(code)   == [code |-> code, features |-> <<>>]

Calm   == [code |-> {1}, gust |-> {20}, precip |-> {0}, visibility |-> {9000}]
Heavy  == [code |-> {95}, gust |-> {95}, precip |-> {35}, visibility |-> {150}]
Blind  == [Calm EXCEPT !.precip = {}]
Places == Range(Direct.path) \cup Range(North.path)
Sky(reading) == [code |-> "ok", hourly |-> [p \in Places |->
                   [t \in {360, 420, 720, 780} |-> reading]]]
NoSky(code)  == [code |-> code, hourly |-> <<>>]

Silent == [code |-> "ok", features |-> <<>>]
Quake(m) == [code |-> "ok", features |-> <<[id |-> "us1", magnitude |-> {m}, at |-> <<30, 0>>,
                                            time |-> -30, updated |-> {-20}]>>]
Flood(level, at) == [code |-> "ok", features |-> <<[id |-> "gd1", type |-> "FL", level |-> level,
                       at |-> at, from |-> {-60}, to |-> {}, modified |-> {-5}, current |-> TRUE]>>]
FloodSeen(first) == [code |-> "ok", features |-> <<[id |-> "eo1", category |-> "floods", knots |-> {},
                       at |-> <<30, 0>>, first |-> first, latest |-> -1]>>]
Trains(effect, age) == [code |-> "ok", feeds |-> <<[age |-> age, trips |-> 4, cancelled |-> 0,
                          delays |-> <<0, 0>>, alerts |-> <<[effect |-> effect, active |-> TRUE]>>]>>]

Base == [routes |-> Roads(<<Direct, North>>), weather |-> Sky(Calm), usgs |-> Silent,
         gdacs |-> Silent, eonet |-> Silent, transport |-> [code |-> "NOT_CONFIGURED"]]

Closure(at, severity, start) ==
  [id |-> "cl1", provider |-> "authority", content |-> "cl1", type |-> "TRANSPORT_CLOSURE",
   severity |-> severity, magnitude |-> {}, at |-> at, start |-> {start}, ends |-> {},
   updated |-> {-10}, official |-> TRUE, closure |-> TRUE, authority |-> OFFICIAL,
   quality |-> Quality({-10}, 600, 0, 0, {})]

Open(answers) == [answers |-> answers, closures |-> <<>>]
Closed(answers, closure) == [answers |-> answers, closures |-> <<closure>>]

\* Two providers report the same flood, the one that is not official a little later.
Doubled == [Base EXCEPT !.gdacs = Flood("red", <<30, 0>>), !.eonet = FloodSeen(-30)]

\* One thing at a time goes wrong outside, and a few of them together.
Outsides ==
  {Open(Base),
   Open([Base EXCEPT !.routes = Roads(<<Direct>>)]),
   Open([Base EXCEPT !.routes = NoRoads("DEPENDENCY_TIMEOUT"), !.usgs = NoRoads("DEPENDENCY_TIMEOUT")]),
   Open([Base EXCEPT !.routes = Roads(<<[Direct EXCEPT !.minutes = 0]>>)]),
   Open([Base EXCEPT !.weather = Sky(Heavy)]),
   Open([Base EXCEPT !.weather = Sky(Blind)]),
   Open([Base EXCEPT !.weather = NoSky("DEPENDENCY_UNAVAILABLE")]),
   Open([Base EXCEPT !.usgs = Quake(62)]),
   Open([Base EXCEPT !.gdacs = Flood("orange", <<30, -90>>)]),
   Open([Base EXCEPT !.gdacs = Flood("red", <<30, 0>>), !.eonet = FloodSeen(-600)]),
   Open([Base EXCEPT !.usgs = Quake(55), !.gdacs = [Flood("red", <<30, 10>>) EXCEPT !.features[1].type = "EQ"]]),
   Open(Doubled),
   Open([Base EXCEPT !.transport = Trains("SIGNIFICANT_DELAYS", 30)]),
   Closed(Base, Closure(<<30, 0>>, 3, -10)),
   Closed(Base, Closure(<<30, 0>>, 3, 425)),
   Closed(Base, Closure(<<30, 30>>, 5, -10)),
   Closed([Base EXCEPT !.weather = Sky(Heavy)], Closure(<<30, 0>>, 3, -10))}

TwoPassages == <<[id |-> "g1", document |-> "d1", hazards |-> {"FLOOD", "EARTHQUAKE"}, expires |-> 1,
                  effective |-> -1000, close |-> TRUE, lexical |-> FALSE],
                 [id |-> "g2", document |-> "d2", hazards |-> {"STORM", "FLOOD"}, expires |-> 9000,
                  effective |-> -1000, close |-> FALSE, lexical |-> TRUE]>>
Indexed   == [ready |-> TRUE, passages |-> TwoPassages]
Unindexed == [ready |-> FALSE, passages |-> <<>>]

\* A model that was promoted, and one that was altered after it was registered.
Learned == [stage |-> "ACTIVE", schema |-> "1.0.0", checksum |-> 1, content |-> 1,
            probability |-> ("direct" :> 30) @@ ("north" :> 10) @@ ("geodesic-CAR" :> 40)]
Altered == [Learned EXCEPT !.content = 2]

Setup(modes, found, idx) == [query |-> Trip(modes), artifact |-> found, index |-> idx]
\* A flight in three weeks, beyond the forecast, to a place without a directory.
LongAhead == [query |-> [Trip(<<"FLIGHT">>) EXCEPT !.departure = 30000, !.country = "XX"],
              artifact |-> {}, index |-> Indexed]
AllSetups == {Setup(<<"CAR">>, {}, Indexed), Setup(<<"CAR">>, {Learned}, Unindexed),
              Setup(<<"TRAIN", "CAR">>, {Altered}, Indexed), LongAhead}
OneSetup  == {Setup(<<"CAR">>, {}, Indexed)}
OneFlood   == {Open(Doubled)}

Says(action, cites) == [action |-> action, cites |-> cites, numbers |-> TRUE, allowed |-> TRUE,
                        length |-> TRUE]
TwoTexts == {Says("NORMAL", {"g2"}), Says("AVOID", {})}

Hotline(id, state, due) == [id |-> id, country |-> "TH", area |-> {}, status |-> state,
                            effective |-> -100, due |-> due]
OneDirectory == {{Hotline("tourist-police", "VERIFIED", 100), Hotline("rescue", "VERIFIED", -1)}}
AllFaults == {"connection", "timeout", "crash"}
NoFault   == {}

\* The closures of the instance are reports of their own.
ASSUME ClosuresAssumption == ClosuresStandAlone
=============================================================================
