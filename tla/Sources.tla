------------------------------- MODULE Sources -------------------------------
(***************************************************************************)
(* External-data: what each adapter makes of a provider's answer, and what *)
(* the query service makes of the adapters (services/external-data).  A    *)
(* provider answers a record [code, ...]: "ok" with its data, or the code  *)
(* of the error its call ended with.  Circuits, cache and coalescing are   *)
(* in module ExternalData; here only what an answer becomes.               *)
(***************************************************************************)
EXTENDS Contracts, SequencesExt

\* settings.py, in seconds; the other times here are minutes.
TTL_ROUTE    == 6 * 3600
TTL_HOURLY   == 3600
TTL_DISASTER == 600
TTL_GTFS     == 90

DEGREE_KM   == 111
HORIZON     == 16 * 1440
DELAY_PROBE == 360

\* quality(): no caller gives a coverage below 1; observed is an optional time.
Quality(observed, ttl, missing, total, extra) ==
  LET age      == {Larger(0, -60 * t) : t \in observed}
      stale    == \E a \in age : a > ttl
      fresh    == Largest({Larger(0, 100 - (50 * a) \div ttl) : a \in age}, 100)
      complete == IF total = 0 THEN 100 ELSE 100 - (100 * missing) \div total
      score    == (50 * fresh + 30 * complete + 20 * 100) \div 100
  IN [status       |-> IF stale THEN "STALE" ELSE "FRESH",
      score        |-> IF observed = {} THEN (9 * score) \div 10 ELSE score,
      flags        |-> extra \cup (IF stale THEN {"STALE"} ELSE {})
                             \cup (IF observed = {} THEN {"MISSING"} ELSE {})
                             \cup (IF missing > 0 THEN {"INCOMPLETE"} ELSE {}),
      coverage     |-> 100,
      completeness |-> complete,
      age          |-> age]

\* _guarded: a configuration or coverage error is a missing capability, any other
\* one degrades the context; neither is raised.
Guarded(name, answer) ==
  LET absent == answer.code \in {"NOT_CONFIGURED", "OUTSIDE_COVERAGE", "LICENSE_RESTRICTION"}
  IN [degraded    |-> IF answer.code = "ok" \/ absent THEN {} ELSE {name},
      unavailable |-> IF absent THEN {name} ELSE {}]

-----------------------------------------------------------------------------
\* Routes.

\* MODE_SPEED_KMH: hectometres per hour and minutes of overhead.
MODE_SPEED == [FLIGHT |-> <<7500, 120>>, TRAIN |-> <<800, 20>>, BUS |-> <<600, 20>>,
               CAR |-> <<700, 0>>, WALK |-> <<45, 0>>, BICYCLE |-> <<150, 0>>,
               MULTIMODAL |-> <<600, 30>>]
PROFILE_BY_MODE == {"CAR", "WALK", "BICYCLE"}

NoExposure == [score |-> 0, events |-> {}, closed |-> FALSE, severeMinutes |-> 0,
               severity |-> 0]

Candidate(id, label, mode, path, minutes, qual) ==
  [id |-> id, label |-> label, labels |-> {}, mode |-> mode, path |-> path,
   minutes |-> minutes, exposure |-> NoExposure, usable |-> TRUE, rank |-> 0,
   quality |-> qual]

\* geodesic_route: the straight line (its middle stands for the inner points),
\* with an assumed speed, marked as inferred.
GeodesicRoute(q, mode) ==
  LET km  == Distance(q.origin, q.destination)
      mid == <<(q.origin[1] + q.destination[1]) \div 2, (q.origin[2] + q.destination[2]) \div 2>>
  IN Candidate("geodesic-" \o mode, "ORIGINAL", mode, <<q.origin, mid, q.destination>>,
               (600 * km) \div MODE_SPEED[mode][1] + MODE_SPEED[mode][2],
               [status |-> "PARTIAL", score |-> 45, flags |-> {"INFERRED", "OUTSIDE_COVERAGE"},
                coverage |-> 0, completeness |-> 50, age |-> {0}])

\* directions: the provider's limits are checked first; alternatives are asked for
\* short trips without areas to avoid; the first feature is the original route.
\* answer.features is a sequence of [id, path, minutes].
Directions(q, mode, answer) ==
  LET km    == Distance(q.origin, q.destination)
      asked == km < 100 /\ q.avoid = 0
      code  == IF q.avoid > 0 /\ km >= 150 THEN "OUTSIDE_COVERAGE" ELSE answer.code
      kept  == IF asked THEN answer.features ELSE SubSeq(answer.features, 1, 1)
  IN [code   |-> code,
      routes |-> IF code # "ok" THEN <<>>
                 ELSE [i \in 1 .. Len(kept) |->
                         Candidate(kept[i].id, IF i = 1 THEN "ORIGINAL" ELSE "ALTERNATIVE", mode,
                                   kept[i].path, kept[i].minutes,
                                   Quality({0}, TTL_ROUTE, 0, 0, {}))]]

\* QueryService.routes for one mode: an empty answer and an error both fall back
\* to the straight line.
RoutesForMode(q, mode, answer) ==
  LET ors   == Directions(q, mode, answer)
      known == mode \in PROFILE_BY_MODE /\ answer.code # "NOT_CONFIGURED"
      noted == Guarded("openrouteservice", ors)
  IN [routes      |-> IF known /\ ors.routes # <<>> THEN ors.routes ELSE <<GeodesicRoute(q, mode)>>,
      degraded    |-> IF known THEN noted.degraded ELSE {},
      unavailable |-> IF known THEN noted.unavailable
                      ELSE IF mode \in PROFILE_BY_MODE THEN {"openrouteservice"}
                      ELSE {"route provider"}]

\* QueryService.routes: the modes one after the other.
RoutesOf(q, answer) ==
  LET perMode == [k \in 1 .. Len(q.modes) |-> RoutesForMode(q, q.modes[k], answer)]
  IN [routes      |-> FlattenSeq([k \in DOMAIN perMode |-> perMode[k].routes]),
      degraded    |-> UNION {perMode[k].degraded : k \in DOMAIN perMode},
      unavailable |-> UNION {perMode[k].unavailable : k \in DOMAIN perMode}]

-----------------------------------------------------------------------------
\* Weather.

\* WMO_CATEGORY and wmo_category: the severity of an optional weather code.
WMO_CATEGORY == <<{0, 1, 2, 3}, {45, 48, 51, 53, 55, 61, 71, 77, 80},
                  {56, 57, 63, 73, 81, 85}, {65, 66, 67, 75, 82, 86, 95}, {96, 99}>>
WmoSeverity(code) == Largest({s \in 1 .. 5 : code \cap WMO_CATEGORY[s] # {}}, 0)

\* escalate_weather_severity: the measured values can only raise the severity.
Escalated(base, gust, precip, visibility) ==
  Largest({base} \cup {s \in 3 .. 5 : \E g \in gust : g >= <<62, 89, 118>>[s - 2]}
                 \cup {s \in 3 .. 4 : \E p \in precip : p >= <<10, 30>>[s - 2]}
                 \cup {s \in 3 .. 4 : \E v \in visibility : v < <<1000, 200>>[s - 2]}, 0)

\* cumulative_distances and sample_route: positions and times at equal distances
\* along the route, every 25 km up to the maximum, with the share covered.
SampleRoute(route, departure, maximum) ==
  LET ideal == Larger(2, PathLength(route.path) \div 25 + 1)
      n     == Larger(2, Smaller(maximum, ideal))
  IN [coverage |-> Smaller(100, (100 * n) \div ideal),
      samples  |-> [i \in 1 .. n |->
                      [at  |-> route.path[1 + ((i - 1) * (Len(route.path) - 1)) \div (n - 1)],
                       eta |-> departure + (route.minutes * (i - 1)) \div (n - 1)]]]

\* _align: the slot of the hour of the ETA, else the nearest one within three hours.
Aligned(times, eta) ==
  LET target == 60 * (eta \div 60)
      nearest == {t \in times : \A u \in times : \/ Gap(t, target) < Gap(u, target)
                                                 \/ Gap(t, target) = Gap(u, target) /\ t <= u}
  IN {t \in nearest : Gap(t, target) <= 180}

\* _point_from_hourly: no point without a slot near enough.  A reading has the
\* optional values code, gust, precip and visibility; the other fields are complete.
PointFromHourly(hourly, at, eta, probe) ==
  LET Point(t) ==
        LET r       == hourly[t]
            missing == Cardinality({f \in {"code", "gust", "precip", "visibility"} : r[f] = {}})
        IN [at |-> at, valid |-> t, probe |-> probe, precip |-> r.precip, gust |-> r.gust,
            severity |-> Escalated(WmoSeverity(r.code), r.gust, r.precip, r.visibility),
            quality  |-> Quality({t}, TTL_HOURLY, missing, 9,
                                 IF t = 60 * (eta \div 60) THEN {} ELSE {"INFERRED"})]
  IN {Point(t) : t \in Aligned(DOMAIN hourly, eta)}

\* forecast_for_samples and _query_batch: a sample beyond the horizon fails the whole
\* query before the provider is asked; answer.hourly maps positions to their series.
ForecastForSamples(samples, answer) ==
  LET code  == IF \E i \in DOMAIN samples : samples[i].eta > HORIZON
                 THEN "OUTSIDE_COVERAGE" ELSE answer.code
      found == [i \in DOMAIN samples |->
                  PointFromHourly(answer.hourly[samples[i].at], samples[i].at,
                                  samples[i].eta, samples[i].probe)]
  IN [code   |-> code,
      points |-> IF code # "ok" THEN <<>>
                 ELSE FlattenSeq([i \in DOMAIN samples |-> SetToSeq(found[i])])]

\* QueryService.weather: sampled along the first route only, at the planned time and
\* six hours later; the share of the route sampled becomes the points' coverage.
WeatherOf(q, routes, answer) ==
  LET sampled == SampleRoute(routes[1], q.departure, 12)
      At(probe, late) == [i \in DOMAIN sampled.samples |->
                            [at |-> sampled.samples[i].at, eta |-> sampled.samples[i].eta + late,
                             probe |-> probe]]
      forecast == ForecastForSamples(At("PLANNED", 0) \o At("DELAYED", DELAY_PROBE), answer)
      noted    == Guarded("open_meteo", forecast)
  IN [points      |-> [i \in DOMAIN forecast.points |->
                         [forecast.points[i] EXCEPT !.quality.coverage = sampled.coverage]],
      degraded    |-> noted.degraded,
      unavailable |-> noted.unavailable]

-----------------------------------------------------------------------------
\* Disasters.

\* _bbox: origin, destination and routes, with one degree around them.
InBox(q, routes, p) ==
  LET points == {q.origin, q.destination} \cup UNION {Range(routes[i].path) : i \in DOMAIN routes}
  IN \A k \in 1 .. 2 : /\ \E u \in points : u[k] - DEGREE_KM <= p[k]
                      /\ \E u \in points : p[k] <= u[k] + DEGREE_KM

\* usgs_severity: by the (tenths of the) optional magnitude.
UsgsSeverity(magnitude) ==
  LET steps == {s \in 2 .. 5 : \E m \in magnitude : m >= 10 * (s + 2)}
  IN IF magnitude = {} THEN 0 ELSE Largest(steps, 1)

\* usgs query: every earthquake is an official record; its time is its observation.
UsgsEvent(f) ==
  [id |-> f.id, provider |-> "usgs", content |-> f.id, type |-> "EARTHQUAKE",
   severity |-> UsgsSeverity(f.magnitude), magnitude |-> f.magnitude, at |-> f.at,
   start |-> {f.time}, ends |-> {}, updated |-> f.updated, official |-> TRUE,
   closure |-> FALSE, authority |-> OFFICIAL,
   quality |-> Quality({f.time}, TTL_DISASTER, 0, 0, {})]

GDACS_ALERT_SEVERITY == [green |-> 2, orange |-> 4, red |-> 5, none |-> 0]
GDACS_EVENT_TYPE == [EQ |-> "EARTHQUAKE", TC |-> "CYCLONE", FL |-> "FLOOD",
                     VO |-> "VOLCANO", DR |-> "EXTREME_TEMPERATURE", WF |-> "WILDFIRE",
                     TS |-> "OTHER"]

\* gdacs query: orange and red are official; a current episode has no end yet.
GdacsEvent(f) ==
  [id |-> f.id, provider |-> "gdacs", content |-> f.id, type |-> GDACS_EVENT_TYPE[f.type],
   severity |-> GDACS_ALERT_SEVERITY[f.level], magnitude |-> {}, at |-> f.at,
   start |-> f.from, ends |-> IF f.current THEN {} ELSE f.to, updated |-> f.modified,
   official |-> f.level \in {"orange", "red"}, closure |-> FALSE,
   authority |-> INTERGOVERNMENTAL,
   quality |-> Quality(IF f.modified # {} THEN f.modified ELSE f.from, TTL_DISASTER, 0, 0, {})]

EONET_CATEGORY_TYPE ==
  [severeStorms |-> "STORM", wildfires |-> "WILDFIRE", volcanoes |-> "VOLCANO",
   floods |-> "FLOOD", earthquakes |-> "EARTHQUAKE", landslides |-> "LANDSLIDE",
   snow |-> "STORM", tempExtremes |-> "EXTREME_TEMPERATURE",
   drought |-> "EXTREME_TEMPERATURE", other |-> "OTHER"]

\* eonet_severity: curated metadata, at most SEVERE, by the optional knots of a storm.
EonetSeverity(category, knots) ==
  IF category = "severeStorms" /\ knots # {}
    THEN Largest({s \in 3 .. 4 : \E k \in knots : k >= <<34, 64>>[s - 2]}, 2)
    ELSE IF category \in {"wildfires", "volcanoes", "floods"} THEN 3 ELSE 2

\* eonet query: placed at its latest position, started at its first; never official.
EonetEvent(f) ==
  [id |-> f.id, provider |-> "eonet", content |-> f.id, type |-> EONET_CATEGORY_TYPE[f.category],
   severity |-> EonetSeverity(f.category, f.knots), magnitude |-> f.knots, at |-> f.at,
   start |-> {f.first}, ends |-> {}, updated |-> {f.latest}, official |-> FALSE,
   closure |-> FALSE, authority |-> INTERGOVERNMENTAL,
   quality |-> Quality({f.latest}, TTL_DISASTER, 0, 0, {})]

\* dedup_events: only an update time later than the one seen replaces a record (the
\* links between probable duplicates are notes).
DedupEvents(events) ==
  LET Newer(e, seen) == {i \in DOMAIN seen : \E t \in e.updated, u \in seen[i].updated : t > u}
  IN FoldLeft(LAMBDA seen, e : Versioned(seen, e, Newer(e, seen)), <<>>, events)

\* QueryService.disasters: the three providers side by side, each with its own outcome;
\* GDACS has no area filter of its own.
DisastersOf(q, routes, usgs, gdacs, eonet) ==
  LET Read(answer, Event(_)) ==
        IF answer.code # "ok" THEN <<>>
        ELSE [i \in DOMAIN answer.features |-> Event(answer.features[i])]
      near == SelectSeq(Read(gdacs, GdacsEvent), LAMBDA e : InBox(q, routes, e.at))
      noted == {Guarded("usgs", usgs), Guarded("gdacs", gdacs), Guarded("eonet", eonet)}
  IN [events      |-> DedupEvents(Read(usgs, UsgsEvent) \o near \o Read(eonet, EonetEvent)),
      degraded    |-> UNION {n.degraded : n \in noted},
      unavailable |-> UNION {n.unavailable : n \in noted}]

-----------------------------------------------------------------------------
\* Transport.

ALERT_EFFECT_STATUS ==
  [NO_SERVICE |-> "CANCELLED", REDUCED_SERVICE |-> "DISRUPTED",
   SIGNIFICANT_DELAYS |-> "DELAYED", DETOUR |-> "DISRUPTED",
   ADDITIONAL_SERVICE |-> "ON_TIME", MODIFIED_SERVICE |-> "DISRUPTED",
   OTHER_EFFECT |-> "UNKNOWN", UNKNOWN_EFFECT |-> "UNKNOWN", STOP_MOVED |-> "DISRUPTED",
   NO_EFFECT |-> "ON_TIME", ACCESSIBILITY_ISSUE |-> "DISRUPTED"]

FeedQuality(age, fresh) ==
  [status |-> IF age > TTL_GTFS THEN "STALE" ELSE "FRESH",
   score |-> IF age > TTL_GTFS THEN 40 ELSE fresh,
   flags |-> IF age > TTL_GTFS THEN {"STALE"} ELSE {},
   coverage |-> 100, completeness |-> 100, age |-> {age}]

\* parse_alerts: inactive alerts are left out, those of a stale feed say UNKNOWN.
FeedAlerts(msg, mode) ==
  LET active == SelectSeq(msg.alerts, LAMBDA a : a.active)
  IN [i \in DOMAIN active |->
        [mode |-> mode, quality |-> FeedQuality(msg.age, 90),
         status |-> IF msg.age > TTL_GTFS THEN "UNKNOWN" ELSE ALERT_EFFECT_STATUS[active[i].effect]]]

\* summarize_trip_updates: msg has the trips, how many are cancelled, and the delays of
\* the others in seconds.
TripSummary(msg, mode) ==
  LET late == Cardinality({i \in DOMAIN msg.delays : msg.delays[i] >= 300})
  IN [mode |-> mode, quality |-> FeedQuality(msg.age, 85),
      status |-> IF msg.age > TTL_GTFS \/ msg.trips = 0 THEN "UNKNOWN"
                 ELSE IF 10 * msg.cancelled > 2 * msg.trips THEN "DISRUPTED"
                 ELSE IF 10 * late > 3 * Len(msg.delays) THEN "DELAYED" ELSE "ON_TIME"]

\* _unknown_transport: the absence of evidence is UNKNOWN, never ON_TIME.
UnknownTransport(mode) ==
  [mode |-> mode, status |-> "UNKNOWN",
   quality |-> [status |-> "UNAVAILABLE", score |-> 0, flags |-> {"OUTSIDE_COVERAGE", "MISSING"},
                coverage |-> 0, completeness |-> 100, age |-> {}]]

\* QueryService.transport for one mode: the feeds that cover the trip (none: outside
\* coverage), else a placeholder; a car or a walk has no service to report.
TransportForMode(mode, answer) ==
  LET code  == IF answer.code = "ok" /\ answer.feeds = <<>> THEN "OUTSIDE_COVERAGE" ELSE answer.code
      found == IF code # "ok" THEN <<>>
               ELSE FlattenSeq([i \in DOMAIN answer.feeds |->
                       FeedAlerts(answer.feeds[i], mode) \o <<TripSummary(answer.feeds[i], mode)>>])
      noted == Guarded("gtfs_rt", [code |-> code])
  IN CASE mode \in {"TRAIN", "BUS", "MULTIMODAL"} ->
            [records     |-> IF found = <<>> THEN <<UnknownTransport(mode)>> ELSE found,
             degraded    |-> noted.degraded,
             unavailable |-> noted.unavailable]
       [] mode = "FLIGHT" -> [records |-> <<UnknownTransport(mode)>>, degraded |-> {},
                              unavailable |-> {"amadeus"}]
       [] OTHER -> [records |-> <<>>, degraded |-> {}, unavailable |-> {}]

TransportOf(q, answer) ==
  LET perMode == [k \in 1 .. Len(q.modes) |-> TransportForMode(q.modes[k], answer)]
  IN [records     |-> FlattenSeq([k \in DOMAIN perMode |-> perMode[k].records]),
      degraded    |-> UNION {perMode[k].degraded : k \in DOMAIN perMode},
      unavailable |-> UNION {perMode[k].unavailable : k \in DOMAIN perMode}]

-----------------------------------------------------------------------------
\* The context of the routes, weather, disasters and transport.
Gathered(r, w, d, t, closures) ==
  [routes      |-> r.routes,
   weather     |-> w.points,
   transport   |-> t.records,
   events      |-> d.events \o closures,
   degraded    |-> r.degraded \cup w.degraded \cup d.degraded \cup t.degraded,
   unavailable |-> r.unavailable \cup w.unavailable \cup d.unavailable \cup t.unavailable]

\* Weather, disasters and transport, side by side.
AlongRoutes(q, r, answers, closures) ==
  Gathered(r, WeatherOf(q, r.routes, answers.weather),
           DisastersOf(q, r.routes, answers.usgs, answers.gdacs, answers.eonet),
           TransportOf(q, answers.transport), closures)

\* QueryService.context: the routes first.  closures are official events with a closure,
\* which the contract allows and no adapter produces (external).
ContextOf(q, answers, closures) == AlongRoutes(q, RoutesOf(q, answers.routes), answers, closures)
=============================================================================
