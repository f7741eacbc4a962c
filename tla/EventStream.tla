----------------------------- MODULE EventStream -----------------------------
(***************************************************************************)
(* Following a run: the API's bridge from the agent's Redis stream to      *)
(* Server-Sent Events (services/api/app/application/sse.py, runs.py), with *)
(* its per-user connection guard, and the browser's EventSource as the web *)
(* client uses it (apps/web/features/assessment/useRunEvents.ts).          *)
(*                                                                         *)
(* Connections break without the server noticing at once; the browser      *)
(* opens the next one with the id of the last event it received, and the   *)
(* server reads the run's stream from its beginning again.                 *)
(*                                                                         *)
(* An event carries the next id of the run, but the end of an emergency    *)
(* answer takes its id from the clock.  When that id is not above the ids  *)
(* before it, the bridge takes the event for one it has sent.              *)
(*                                                                         *)
(* Abstractions.  One user who follows one run.  Heartbeats and the result *)
(* URL, which say nothing of the run, are left out; so is a read that      *)
(* fails: it returns nothing and leaves the cursor.  A batch of 100 is     *)
(* never exceeded, the stream is neither trimmed (maxlen 500) nor expired  *)
(* (state_ttl) while it is followed, and Redis receives the events in the  *)
(* order they were given their ids.                                        *)
(***************************************************************************)
EXTENDS Integers, Sequences, FiniteSets

CONSTANTS
  Streams,       \* response generators
  MaxPerUser,    \* max_sse_connections_per_user
  MaxEvents,     \* bound of the ids the agent gives out
  ClockIds,      \* values of int(time.time() * 1000) % 1_000_000
  MaxDrops,      \* bound of the connections that break
  StreamFaults,  \* "publish": an event is lost before Redis; "start": a response is
                 \* given up before its generator runs
  NoStream

ASSUME EventStreamAssumption ==
  /\ MaxPerUser \in Nat \ {0} /\ MaxEvents \in Nat /\ MaxDrops \in Nat
  /\ ClockIds \subseteq Nat
  /\ StreamFaults \subseteq {"publish", "start"}
  /\ NoStream \notin Streams /\ IsFiniteSet(Streams)

TerminalEvents == {"completed", "failed"}
EventTypes == {"progress", "needs_input"} \cup TerminalEvents
RunEvent == [id : Nat, type : EventTypes]

NoId == -1  \* last_sent without a Last-Event-ID

VARIABLES
  log,      \* the Redis stream of the run, as the agent publishes it
  counter,  \* the last event id the agent gave out
  stream,   \* stream[s]: a generator's locals; batch holds what is still to be sent
  slots,    \* ConnectionGuard._open of the user
  leaked,   \* history: slots taken for generators that never ran
  browser,  \* EventSource: its connection, state, Last-Event-ID, received ids (history)
  drops     \* connections that broke

streamVars == <<log, counter, stream, slots, leaked, browser, drops>>
agentSide == <<log, counter>>

Closed == [pc |-> "closed", cursor |-> 0, last |-> NoId, batch |-> <<>>, terminal |-> FALSE]

StreamInit ==
  /\ log = <<>> /\ counter = 0
  /\ stream = [s \in Streams |-> Closed]
  /\ slots = 0 /\ leaked = 0 /\ drops = 0
  /\ browser = [conn |-> NoStream, state |-> "open", last |-> NoId, got |-> <<>>]

StreamAt(s, p) == stream[s].pc = p
Connected(s)   == browser.conn = s

\* An event that does not come with a higher id than every event before it.
Overtaken(i) == \E j \in 1 .. i - 1 : log[j].id >= log[i].id

-----------------------------------------------------------------------------
\* Nothing follows a terminal event, but that a cancellation may be announced again
\* (AgentRun, SilentAfterTerminal).
MayFollow(type) ==
  \A i \in DOMAIN log : log[i].type \in TerminalEvents => log[i].type = "failed" /\ type = "failed"

\* ProgressPublisher.publish of an event with the next id.
Emit ==
  /\ counter < MaxEvents
  /\ counter' = counter + 1
  /\ \E type \in EventTypes :
       /\ MayFollow(type)
       /\ \/ log' = Append(log, [id |-> counter + 1, type |-> type])
          \/ "publish" \in StreamFaults /\ UNCHANGED log
  /\ UNCHANGED <<stream, slots, leaked, browser, drops>>

\* The end of an emergency answer, after some progress (the run was accepted at least):
\* _event takes the id from the clock.  When it is lost, nothing changes.
EmitEmergency ==
  /\ counter > 0 /\ \A i \in DOMAIN log : log[i].type = "progress"
  /\ \E id \in ClockIds : log' = Append(log, [id |-> id, type |-> "completed"])
  /\ UNCHANGED <<counter, stream, slots, leaked, browser, drops>>

-----------------------------------------------------------------------------
(* run_events: the guard, and the response's generator.                    *)

\* Mutant: Last-Event-ID is ignored.
ConnectAnew(s) ==
  /\ browser.state = "open" /\ Connected(NoStream) /\ StreamAt(s, "closed")
  /\ slots < MaxPerUser
  /\ slots' = slots + 1
  /\ stream' = [stream EXCEPT ![s] = [Closed EXCEPT !.pc = "accepted"]]
  /\ browser' = [browser EXCEPT !.conn = s]
  /\ UNCHANGED <<agentSide, leaked, drops>>

\* ConnectionGuard.acquire; last_sent is the Last-Event-ID header.
Connect(s) ==
  /\ browser.state = "open" /\ Connected(NoStream) /\ StreamAt(s, "closed")
  /\ slots < MaxPerUser
  /\ slots' = slots + 1
  /\ stream' = [stream EXCEPT ![s] = [Closed EXCEPT !.pc = "accepted", !.last = browser.last]]
  /\ browser' = [browser EXCEPT !.conn = s]
  /\ UNCHANGED <<agentSide, leaked, drops>>

\* 429: an EventSource gives up on any status but 200.
ConnectRefused ==
  /\ browser.state = "open" /\ Connected(NoStream)
  /\ slots >= MaxPerUser
  /\ browser' = [browser EXCEPT !.state = "refused"]
  /\ UNCHANGED <<agentSide, stream, slots, leaked, drops>>

\* Mutant: the stream is followed from its end.
BeginStreamAtEnd(s) ==
  /\ StreamAt(s, "accepted")
  /\ stream' = [stream EXCEPT ![s].pc = "reading", ![s].cursor = Len(log)]
  /\ UNCHANGED <<agentSide, slots, leaked, browser, drops>>

\* The generator begins at the start of the run's stream.
BeginStream(s) ==
  /\ StreamAt(s, "accepted")
  /\ stream' = [stream EXCEPT ![s].pc = "reading"]
  /\ UNCHANGED <<agentSide, slots, leaked, browser, drops>>

\* The client is gone before the first byte: no generator, so no finally.
NeverBegins(s) ==
  /\ "start" \in StreamFaults /\ StreamAt(s, "accepted") /\ ~Connected(s)
  /\ stream' = [stream EXCEPT ![s] = Closed]
  /\ leaked' = leaked + 1
  /\ UNCHANGED <<agentSide, slots, browser, drops>>

\* Mutant: the handler and the generator both give the slot back.
ReleaseTwice(s) ==
  /\ stream' = [stream EXCEPT ![s] = Closed]
  /\ slots' = slots - 2

\* The generator ends, however it ends: finally, ConnectionGuard.release.
Release(s) ==
  /\ stream' = [stream EXCEPT ![s] = Closed]
  /\ slots' = IF slots = 0 THEN 0 ELSE slots - 1

\* XREAD from the cursor.
Read(s) ==
  /\ StreamAt(s, "reading") /\ stream[s].cursor < Len(log)
  /\ stream' = [stream EXCEPT ![s].pc = "sending", ![s].cursor = Len(log),
                  ![s].batch = SubSeq(log, stream[s].cursor + 1, Len(log))]
  /\ UNCHANGED <<agentSide, slots, leaked, browser, drops>>

\* What the browser makes of an event: it closes on a terminal one.
Receive(s, ev) ==
  IF ~Connected(s) THEN UNCHANGED browser
  ELSE browser' = [browser EXCEPT !.last = ev.id, !.got = Append(@, ev.id),
         !.state = IF ev.type \in TerminalEvents THEN "closed" ELSE @,
         !.conn = IF ev.type \in TerminalEvents THEN NoStream ELSE @]

\* What does not come with a higher id is taken for sent before and skipped, terminal or
\* not: `continue` leaves `terminal` alone.
Skip(s) ==
  /\ StreamAt(s, "sending") /\ stream[s].batch # <<>>
  /\ Head(stream[s].batch).id <= stream[s].last
  /\ stream' = [stream EXCEPT ![s].batch = Tail(@)]
  /\ UNCHANGED <<agentSide, slots, leaked, browser, drops>>

Send(s) ==
  /\ StreamAt(s, "sending") /\ stream[s].batch # <<>>
  /\ LET ev == Head(stream[s].batch) IN
     /\ ev.id > stream[s].last
     /\ stream' = [stream EXCEPT ![s].batch = Tail(@), ![s].last = ev.id,
                     ![s].terminal = @ \/ ev.type \in TerminalEvents]
     /\ Receive(s, ev)
  /\ UNCHANGED <<agentSide, slots, leaked, drops>>

EndBatch(s) ==
  /\ StreamAt(s, "sending") /\ stream[s].batch = <<>> /\ ~stream[s].terminal
  /\ stream' = [stream EXCEPT ![s].pc = "reading"]
  /\ UNCHANGED <<agentSide, slots, leaked, browser, drops>>

\* The generator returns after a terminal event, or at its deadline, when it yields a
\* run.failed without an id, which parseEventData drops; the connection ends with it.
Return1(s) ==
  /\ \/ StreamAt(s, "reading")
     \/ StreamAt(s, "sending") /\ stream[s].batch = <<>> /\ stream[s].terminal
  /\ Release(s)
  /\ browser' = IF Connected(s) THEN [browser EXCEPT !.conn = NoStream] ELSE browser
  /\ UNCHANGED <<agentSide, leaked, drops>>

\* The connection breaks; the browser will open another.
Drop ==
  /\ drops < MaxDrops /\ ~Connected(NoStream)
  /\ browser' = [browser EXCEPT !.conn = NoStream]
  /\ drops' = drops + 1
  /\ UNCHANGED <<agentSide, stream, slots, leaked>>

\* Mutant: the slot is given back only when the generator returns by itself.
NoticeKeeping(s) ==
  /\ stream[s].pc \in {"reading", "sending"} /\ ~Connected(s)
  /\ stream' = [stream EXCEPT ![s] = Closed]
  /\ UNCHANGED <<agentSide, slots, leaked, browser, drops>>

\* The server learns of it: the generator is closed at its await.
Notice(s) ==
  /\ stream[s].pc \in {"reading", "sending"} /\ ~Connected(s)
  /\ Release(s)
  /\ UNCHANGED <<agentSide, leaked, browser, drops>>

-----------------------------------------------------------------------------
StreamStep(s) ==
  \/ Connect(s) \/ BeginStream(s) \/ NeverBegins(s) \/ Read(s) \/ Skip(s) \/ Send(s)
  \/ EndBatch(s) \/ Return1(s) \/ Notice(s)

StreamNext == Emit \/ EmitEmergency \/ ConnectRefused \/ Drop \/ \E s \in Streams : StreamStep(s)

\* The browser reconnects and generators run on; a read returns within the poll
\* interval, long before the deadline of a stream, so not every stream misses it.
StreamFairness ==
  /\ WF_streamVars(\E s \in Streams : Connect(s)) /\ WF_streamVars(ConnectRefused)
  /\ \A s \in Streams :
       /\ WF_streamVars(BeginStream(s)) /\ SF_streamVars(Read(s))
       /\ WF_streamVars(Skip(s)) /\ WF_streamVars(Send(s)) /\ WF_streamVars(EndBatch(s))
       /\ WF_streamVars(Notice(s))

StreamSpec == StreamInit /\ [][StreamNext]_streamVars
StreamFairSpec == StreamSpec /\ StreamFairness

-----------------------------------------------------------------------------
StreamTypeOK ==
  /\ log \in Seq(RunEvent) /\ counter \in Nat
  /\ stream \in [Streams -> [pc : {"closed", "accepted", "reading", "sending"}, cursor : Nat,
                             last : Nat \cup {NoId}, batch : Seq(RunEvent), terminal : BOOLEAN]]
  /\ slots \in Nat /\ leaked \in Nat /\ drops \in Nat
  /\ browser \in [conn : Streams \cup {NoStream}, state : {"open", "closed", "refused"},
                  last : Nat \cup {NoId}, got : Seq(Nat)]

\* Over all its connections the browser receives the events of the run in their order and
\* each once; and of what the connection it has now has read and dealt with, none is left
\* out, except an emergency's end whose clock id does not exceed the ids before it
\* (EventBridge.stream, last_sent; runner.py, _event).
ReceivedInOrder ==
  /\ \A i \in DOMAIN browser.got :
       i \in DOMAIN log /\ ~Overtaken(i) /\ browser.got[i] = log[i].id
  /\ \A s \in Streams : Connected(s) /\ StreamAt(s, "reading") =>
       \A i \in 1 .. stream[s].cursor : i \in DOMAIN browser.got \/ Overtaken(i)

\* The guard counts the generators that are running, and those that never ran
\* (ConnectionGuard, run_events).
SlotsMatchStreams ==
  slots = Cardinality({s \in Streams : ~StreamAt(s, "closed")}) + leaked /\ slots <= MaxPerUser

\* A follower learns how the run ended, unless all the user's slots are taken when it
\* reconnects.  The runbook's "reconnect Last-Event-ID, no missed terminal event" does not
\* hold as it stands: an emergency's end whose clock id is not above the ids before it is
\* skipped on every connection, and its follower reconnects for ever.  That end is left
\* out of the premise, and nothing else is.
TerminalReaches ==
  (\E i \in DOMAIN log : log[i].type \in TerminalEvents /\ ~Overtaken(i))
    ~> browser.state \in {"closed", "refused"}
=============================================================================
