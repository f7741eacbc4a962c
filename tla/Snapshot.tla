------------------------------ MODULE Snapshot ------------------------------
(***************************************************************************)
(* Data-integration: from an external context to one snapshot with a       *)
(* quality gate (services/data-integration).  The stages follow            *)
(* build_snapshot: validate, normalise, deduplicate and resolve, enrich    *)
(* each route, features, quality and gate.  Geometry is reduced to points: *)
(* an event is its centre with the radius of its type and severity.        *)
(***************************************************************************)
EXTENDS Contracts, SequencesExt

Sum(s)   == FoldLeft(LAMBDA acc, x : acc + x, 0, s)
Mean(s)  == Sum(s) \div Len(s)
Truth(b) == IF b THEN 1 ELSE 0

-----------------------------------------------------------------------------
\* Validation and normalisation.

\* validate_context: invalid records are set aside and never repaired.  A line of a
\* single place is invalid, as is an event that ends before it takes effect.  A transport
\* status carries no times here, so that its checks (delay, order of the times) always pass.
ValidRoute(r)   == Cardinality(Range(r.path)) > 1 /\ r.minutes > 0
ValidWeather(w) == \A p \in w.precip : p >= 0
ValidEvent(e)   == \A s \in e.start, t \in e.ends : t >= s

\* _normalize_route: consecutive duplicates of a vertex are dropped, if two remain.
NormalizedPath(path) ==
  LET kept == Kept(path, {i \in DOMAIN path : i = 1 \/ path[i] # path[i - 1]})
  IN IF Len(kept) >= 2 THEN kept ELSE path

-----------------------------------------------------------------------------
\* Deduplication and conflicts.

CLUSTER_KM      == 50
CLUSTER_MINUTES == 180

EventTime(e) == IF e.start # {} THEN e.start ELSE e.updated

\* First stage of deduplicate: one record per event id (the later version), then one
\* per content hash (the first).
UniqueEvents(events) ==
  LET Version(e)      == IF e.updated # {} THEN e.updated ELSE e.start
      Newer(e, seen)  == {i \in DOMAIN seen : \E t \in Version(e), u \in Version(seen[i]) : t > u}
      byId            == FoldLeft(LAMBDA seen, e : Versioned(seen, e, Newer(e, seen)), <<>>, events)
  IN FoldLeft(LAMBDA seen, e : IF \E i \in DOMAIN seen : seen[i].content = e.content
                                 THEN seen ELSE Append(seen, e), <<>>, byId)

\* Second stage: an event joins the first cluster whose first member is of the same
\* type and another provider, near it in space and time.
Joins(cluster, e) ==
  LET rep == cluster[1]
  IN /\ rep.type = e.type
     /\ rep.provider # e.provider
     /\ Distance(rep.at, e.at) <= CLUSTER_KM
     /\ \A s \in EventTime(rep), t \in EventTime(e) : Gap(s, t) <= CLUSTER_MINUTES

Clusters(events) ==
  LET Place(clusters, e) ==
        LET near == {i \in DOMAIN clusters : Joins(clusters[i], e)}
        IN IF near = {} THEN Append(clusters, <<e>>)
           ELSE LET first == CHOOSE i \in near : \A j \in near : i <= j
                IN [clusters EXCEPT ![first] = Append(@, e)]
  IN FoldLeft(Place, <<>>, events)

\* _rank, of the i-th member: authority, then time (none is the earliest), then score, each
\* descending; equals stay in their order.
Rank(e, i) == <<-e.authority, Truth(EventTime(e) = {}), -Largest(EventTime(e), 0),
                -e.quality.score, i>>

\* Third stage: the representative takes the severity of a more severe official member
\* and any member's closure; the others are dropped, except official ones of another
\* authority.
Resolve(members) ==
  LET order      == Sorted([i \in DOMAIN members |-> Rank(members[i], i)])
      ranked     == [k \in DOMAIN order |-> members[order[k]]]
      rep        == ranked[1]
      severities == {members[i].severity : i \in DOMAIN members}
      closures   == {members[i].closure : i \in DOMAIN members}
      official   == Largest({members[i].severity : i \in {j \in DOMAIN members : members[j].official}}, 0)
      raised     == official > rep.severity
      marked     == raised \/ Cardinality(closures) > 1
      others     == {k \in DOMAIN ranked : /\ k > 1
                                           /\ ranked[k].official
                                           /\ ranked[k].authority # rep.authority}
  IN [events    |-> <<[rep EXCEPT !.severity = Larger(@, official),
                                  !.closure = (@ \/ Cardinality(closures) > 1),
                                  !.quality.flags = @ \cup (IF marked THEN {"CONFLICTING"} ELSE {})]>>
                    \o Kept(ranked, others),
      conflicts |-> Truth(Cardinality(severities) > 1) + Truth(Cardinality(closures) > 1)]

Deduplicate(events) ==
  LET clusters == Clusters(UniqueEvents(events))
      resolved == [c \in DOMAIN clusters |-> Resolve(clusters[c])]
  IN [events    |-> FlattenSeq([c \in DOMAIN resolved |-> resolved[c].events]),
      conflicts |-> Sum([c \in DOMAIN resolved |-> resolved[c].conflicts])]

-----------------------------------------------------------------------------
\* Enrichment of one route.

\* EVENT_BUFFER_KM, by severity rank plus one.
EVENT_BUFFER_KM ==
  [EARTHQUAKE |-> <<30, 10, 30, 80, 150, 300>>, CYCLONE |-> <<150, 50, 100, 200, 300, 400>>,
   STORM |-> <<100, 30, 60, 120, 200, 300>>, FLOOD |-> <<50, 20, 40, 80, 120, 200>>,
   WILDFIRE |-> <<30, 10, 20, 40, 80, 120>>, VOLCANO |-> <<50, 20, 40, 80, 150, 300>>,
   LANDSLIDE |-> <<15, 5, 10, 20, 40, 60>>,
   EXTREME_TEMPERATURE |-> <<100, 50, 100, 200, 300, 400>>,
   HEALTH |-> <<50, 20, 50, 100, 200, 300>>, TRANSPORT_CLOSURE |-> <<5, 2, 5, 10, 20, 30>>]
  @@ ("OTHER" :> <<30, 10, 20, 40, 80, 120>>)

DEFAULT_ACTIVE_HOURS ==
  [EARTHQUAKE |-> 72, CYCLONE |-> 120, STORM |-> 48, FLOOD |-> 240, WILDFIRE |-> 240,
   VOLCANO |-> 720, LANDSLIDE |-> 168, EXTREME_TEMPERATURE |-> 120, HEALTH |-> 720,
   TRANSPORT_CLOSURE |-> 24] @@ ("OTHER" :> 72)

\* buffer_for_mode: kilometres on each side of the route.
BufferFor(modes) == IF \E i \in DOMAIN modes : modes[i] = "FLIGHT" THEN 60 ELSE 15

ToPath(p, path) == LET d == {Distance(p, path[i]) : i \in DOMAIN path}
                   IN CHOOSE m \in d : \A n \in d : m <= n

\* active_window and overlaps: an event without an end lasts the default of its type,
\* one without times is taken to be active.
Overlaps(window, e) ==
  LET ends == IF e.ends # {} THEN e.ends
              ELSE {s + 60 * DEFAULT_ACTIVE_HOURS[e.type] : s \in e.start}
  IN /\ \A s \in e.start : s <= window.arrival
     /\ \A t \in ends : t >= window.departure

\* intersect_events: the area of the event meets the corridor.
Inside(path, buffer, e) ==
  ToPath(e.at, path) <= EVENT_BUFFER_KM[e.type][e.severity + 1] + buffer

Hits(path, buffer, events, window) ==
  {e \in Range(events) : Inside(path, buffer, e) /\ Overlaps(window, e)}

\* match_weather: the places in the list of the points near the route whose hour is near the
\* time of passing there; the coverage counts expected positions, from the route's length alone.
ExpectedSamples(path) == Larger(2, Smaller(12, PathLength(path) \div 50 + 1))

MatchWeather(route, weather, departure) ==
  LET n          == Len(route.path)
      nearest(w) == CHOOSE i \in DOMAIN route.path :
                      Distance(w.at, route.path[i]) = ToPath(w.at, route.path)
      eta(w)     == departure + (route.minutes * (nearest(w) - 1)) \div (n - 1)
      matched    == {k \in DOMAIN weather : /\ ToPath(weather[k].at, route.path) <= 40
                                            /\ Gap(weather[k].valid, eta(weather[k])) <= 180}
      expected   == ExpectedSamples(route.path)
      covered    == {i \in 0 .. expected - 1 : \E k \in matched :
                       2 * Gap((nearest(weather[k]) - 1) * (expected - 1), i * (n - 1)) <= n - 1}
  IN [points |-> matched, coverage |-> (100 * Cardinality(covered)) \div expected]

\* exposure_for_route: active hazards, severe weather and closures of one route.
EXPOSURE_SCORE == <<15, 5, 10, 25, 50, 80>>

ExposureOf(route, hits, weather, matched) ==
  LET severe  == {k \in matched : weather[k].severity >= SEVERE}
      minutes == Cardinality(severe) * (route.minutes \div ExpectedSamples(route.path))
      closed  == \E e \in hits : e.closure
      score   == MapThenSumSet(LAMBDA e : EXPOSURE_SCORE[e.severity + 1], hits)
                 + (60 * Smaller(60, (100 * minutes) \div route.minutes)) \div 100
  IN [score         |-> IF closed THEN 100 ELSE Smaller(100, score),
      events        |-> {e.id : e \in hits},
      closed        |-> closed,
      severeMinutes |-> minutes,
      severity      |-> Largest({e.severity : e \in hits}
                                \cup {weather[k].severity : k \in matched}, 0)]

Enriched(route, events, weather, buffer, window) ==
  LET hits == Hits(route.path, buffer, events, window)
      met  == MatchWeather(route, weather, window.departure).points
      exp  == ExposureOf(route, hits, weather, met)
  IN [route EXCEPT !.exposure = exp, !.usable = ~exp.closed]

\* build_features: of the (enriched) primary route only, with the sets of events and of
\* forecasts on its way.
FeaturesOf(route, hits, wx, coverage, transport, qualities) ==
  LET precip == Largest(UNION {w.precip : w \in wx}, -1)
      gust   == Largest(UNION {w.gust : w \in wx}, -1)
      Given(x) == IF x < 0 THEN {} ELSE {x}
      quakes == {e \in hits : e.type = "EARTHQUAKE"}
      stale  == {i \in DOMAIN qualities : \/ "STALE" \in qualities[i].flags
                                           \/ qualities[i].status = "STALE"}
      late   == {i \in DOMAIN transport : transport[i].status \in {"DELAYED", "DISRUPTED", "CANCELLED"}}
  IN [precip        |-> Given(precip),
      gust          |-> Given(gust),
      weather       |-> Given(Largest({w.severity : w \in wx}, -1)),
      severeMinutes |-> route.exposure.severeMinutes,
      coverage      |-> coverage,
      magnitude     |-> Given(Largest(UNION {e.magnitude : e \in quakes}, -1)),
      alerts        |-> Cardinality({e \in hits : e.official}),
      events        |-> Cardinality(hits),
      closures      |-> Cardinality({e \in hits : e.closure}),
      delayed       |-> Cardinality(late),
      missing       |-> Truth(precip < 0) + Truth(gust < 0),
      stale         |-> IF qualities = <<>> THEN 0 ELSE (100 * Cardinality(stale)) \div Len(qualities)]

-----------------------------------------------------------------------------
\* Quality and gate.

\* _freshness_score and summarize_group: a weighted mean of freshness, completeness,
\* coverage, agreement and authority; coverage is an optional value given by the caller.
SummarizeGroup(qualities, ttl, coverage) ==
  LET fresh(q)    == Largest({Larger(0, 100 - (50 * a) \div ttl) : a \in q.age}, 70)
      Of(F(_))    == [i \in DOMAIN qualities |-> F(qualities[i])]
      complete    == Mean(Of(LAMBDA q : q.completeness))
      covered     == Largest(coverage, Mean(Of(LAMBDA q : q.coverage)))
      stale       == Cardinality({i \in DOMAIN qualities : qualities[i].status = "STALE"})
      conflicting == \E i \in DOMAIN qualities : "CONFLICTING" \in qualities[i].flags
      absent      == \A i \in DOMAIN qualities : qualities[i].status = "UNAVAILABLE"
      score       == 35 * Mean(Of(fresh)) + 20 * complete + 20 * covered
                     + 15 * (IF conflicting THEN 50 ELSE 100) + 10 * 100
      status      == IF absent THEN "UNAVAILABLE" ELSE IF conflicting THEN "CONFLICTING"
                     ELSE IF 2 * stale > Len(qualities) THEN "STALE"
                     ELSE IF covered < 100 \/ stale > 0 THEN "PARTIAL" ELSE "FRESH"
  IN IF qualities = <<>>
       THEN [status |-> "UNAVAILABLE", score |-> 0, flags |-> {"MISSING"}, coverage |-> 0,
             completeness |-> 0, age |-> {}]
       ELSE [status |-> status, score |-> IF absent THEN 0 ELSE score \div 100,
             flags |-> UNION {q.flags : q \in Range(qualities)}, coverage |-> covered,
             completeness |-> complete,
             age |-> {Largest(UNION {q.age : q \in Range(qualities)}, 0)}]

\* The disaster group of build_snapshot: no event at all is full evidence of calm, less
\* a fifth for each disaster provider that failed.
DisasterQuality(events, degraded) ==
  LET group == IF events # <<>>
                 THEN SummarizeGroup([i \in DOMAIN events |-> events[i].quality], 600, {100})
                 ELSE [status |-> "FRESH", score |-> 100, flags |-> {}, coverage |-> 100,
                       completeness |-> 100, age |-> {}]
      failed == Cardinality(degraded \cap {"usgs", "gdacs", "eonet"})
  IN IF failed = 0 THEN group
     ELSE [group EXCEPT !.score = (@ * <<800, 640, 512>>[failed]) \div 1000,
                        !.status = IF @ = "FRESH" THEN "PARTIAL" ELSE @,
                        !.flags = @ \cup {"INCOMPLETE"}]

\* overall_and_gate: BLOCK has one reason, DEGRADED as many as hold.
OverallAndGate(route, weather, disaster, transport, routes, coverage, conflicts, alerts) ==
  LET usable  == {i \in DOMAIN routes : routes[i].usable}
      bonus   == Largest({(2 * e.authority) \div 4 : e \in alerts}, 0)
      score   == Smaller(100, (35 * route.score + 35 * weather.score + 20 * disaster.score
                               + 10 * transport.score) \div 100 + bonus)
      blocked == IF usable = {} THEN {"NO_USABLE_ROUTE"}
                 ELSE IF weather.status = "UNAVAILABLE" /\ disaster.status = "UNAVAILABLE"
                        THEN {"NO_WEATHER_AND_NO_DISASTER_EVIDENCE"}
                 ELSE IF score < 25 THEN {"SCORE_BELOW_BLOCK_THRESHOLD"} ELSE {}
      degraded == (IF score < 60 THEN {"SCORE_BELOW_DEGRADED_THRESHOLD"} ELSE {})
                  \cup (IF coverage < 50 THEN {"WEATHER_COVERAGE_LOW"} ELSE {})
                  \cup (IF conflicts > 0 THEN {"SAFETY_CRITICAL_CONFLICTS"} ELSE {})
                  \cup (IF \E i \in usable : "INFERRED" \in routes[i].quality.flags
                           THEN {"ROUTE_GEOMETRY_INFERRED"} ELSE {})
                  \cup (IF \E e \in alerts : e.quality.status = "STALE"
                           THEN {"STALE_OFFICIAL_ALERTS"} ELSE {})
      gate    == IF blocked # {} THEN "BLOCK" ELSE IF degraded # {} THEN "DEGRADED" ELSE "PASS"
      parts   == <<route, weather, disaster, transport>>
  IN [gate    |-> gate,
      reasons |-> IF blocked # {} THEN blocked ELSE degraded,
      overall |-> [status |-> IF conflicts > 0 /\ gate # "BLOCK" THEN "CONFLICTING"
                              ELSE CASE gate = "PASS"     -> "FRESH"
                                     [] gate = "DEGRADED" -> "PARTIAL"
                                     [] gate = "BLOCK"    -> "UNAVAILABLE",
                   score        |-> score,
                   flags        |-> UNION {q.flags : q \in Range(parts)},
                   coverage     |-> coverage,
                   completeness |-> Mean([k \in 1 .. 4 |-> parts[k].completeness]),
                   age          |-> {Largest(UNION {q.age : q \in Range(parts)}, 0)}]]

-----------------------------------------------------------------------------
\* build_snapshot.

\* The routes that passed validation, original ones first, then the faster ones.
SortedRoutes(routes) ==
  LET valid == {i \in DOMAIN routes : ValidRoute(routes[i])}
      order == Sorted([i \in valid |-> <<Truth(routes[i].label # "ORIGINAL"), routes[i].minutes, i>>])
  IN [k \in DOMAIN order |-> [routes[order[k]] EXCEPT !.path = NormalizedPath(@)]]

\* The enriched routes, judged and put together.
Judged(q, ctx, id, enriched, weather, dedup, window, match) ==
  LET events   == dedup.events
      alerts   == {e \in Range(events) : e.official}
      primary  == enriched[1]
      QualityOf(records) == [i \in DOMAIN records |-> records[i].quality]
      planned  == Kept(weather, {k \in DOMAIN weather : weather[k].probe = "PLANNED"})
      route_q     == SummarizeGroup(QualityOf(enriched), 6 * 3600, {})
      weather_q   == SummarizeGroup(QualityOf(planned), 3600, {match.coverage})
      transport_q == SummarizeGroup(QualityOf(ctx.transport), 90, {})
      disaster_q  == DisasterQuality(events, ctx.degraded)
      gated       == OverallAndGate(route_q, weather_q, disaster_q, transport_q, enriched,
                                    match.coverage, dedup.conflicts, alerts)
  IN [id |-> id, request |-> q.id, window |-> window, routes |-> enriched,
      weather |-> weather, transport |-> ctx.transport, events |-> events, alerts |-> alerts,
      features |-> FeaturesOf(primary, Hits(primary.path, BufferFor(q.modes), events, window),
                              {weather[k] : k \in match.points}, match.coverage, ctx.transport,
                              QualityOf(enriched) \o QualityOf(weather) \o QualityOf(ctx.transport)
                                \o QualityOf(events)),
      quality  |-> [gate |-> gated.gate, overall |-> gated.overall, weather |-> weather_q,
                    transport |-> transport_q, disaster |-> disaster_q, route |-> route_q,
                    degraded |-> ctx.degraded \cup ctx.unavailable, reasons |-> gated.reasons],
      conflicts |-> dedup.conflicts]

\* The window is the primary route's, and every route's events are judged against it.
Matched(q, ctx, id, routes, weather, dedup) ==
  LET window == [departure |-> q.departure, arrival |-> q.departure + routes[1].minutes]
  IN Judged(q, ctx, id,
            [i \in DOMAIN routes |->
               Enriched(routes[i], dedup.events, weather, BufferFor(q.modes), window)],
            weather, dedup, window, MatchWeather(routes[1], weather, q.departure))

\* With valid routes (else create_snapshot refuses).
BuildSnapshot(q, ctx, id) ==
  Matched(q, ctx, id, SortedRoutes(ctx.routes), Kept(ctx.weather, {k \in DOMAIN ctx.weather : ValidWeather(ctx.weather[k])}),
          Deduplicate(Kept(ctx.events, {k \in DOMAIN ctx.events : ValidEvent(ctx.events[k])})))
=============================================================================
