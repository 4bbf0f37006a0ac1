----------------------------- MODULE EventSpool -----------------------------
(***************************************************************************)
(* The way of a broker event from the yard that records it to the log of   *)
(* the physical host: EventRecorder in events.go writes an immutable file  *)
(* per record into a spool, HostSink in host_sink.go exports a batch,      *)
(* ingests it under a lock, adds host evidence to the incidents and        *)
(* acknowledges the batch, upon which the yard removes it from the spool.  *)
(*                                                                         *)
(* Handlers of the broker record concurrently; several sink processes may  *)
(* run at once (a timer and an operator); every process may die and every  *)
(* call of the sink into the yard may fail between two steps.              *)
(***************************************************************************)
EXTENDS Integers, FiniteSets, FiniteSetsExt

CONSTANTS
    Slots,              \* lease slots of the broker
    Sinks,              \* processes that may run HostSink.Sync
    MaxBatch,           \* maxSpoolBatchRecords
    EventRetention,     \* closedEventRetention, in ticks
    EventMax,           \* closedEventMaxBytes, in events
    IncidentRetention,  \* closedIncidentRetention, in ticks
    IncidentMax,        \* closedIncidentMaxBytes, in artifacts
    MaxText,            \* bytes that redactBrokerText keeps of an error
    Texts,              \* error texts <<n, w, m>>: n bytes of ASCII, then one
                        \* character of w bytes; m: its first bytes are those of
                        \* U+FFFD, which stands for a byte that is no character
    Horizons            \* bounds of a behaviour: the sinks that run, how many
                        \* crashes and failed calls, how many ticks

ASSUME SpoolAssumption ==
    /\ MaxBatch \in Nat \ {0}
    /\ Horizons \subseteq [sinks : SUBSET Sinks, failures : Nat, ticks : Nat]
    /\ EventRetention \in Nat /\ EventMax \in Nat
    /\ IncidentRetention \in Nat /\ IncidentMax \in Nat
    /\ MaxText \in Nat /\ Texts \subseteq (Nat \X Nat \X BOOLEAN)

VARIABLES
    clock,      \* nanoseconds; a record that is stamped takes a tick of its own
    sequence,   \* the durable counter of EventRecorder
    slot,       \* slot[s]: generation and progress of the incident of slot s
    recorder,   \* recorder[s]: the event that the handler of s is recording
    events,     \* events in the spool
    incidents,  \* incidents in the spool
    sink,       \* sink[k]: where the sink process k is, and its batch
    hostEvents, \* event files on the host
    hostIncidents, \* incident artifacts on the host
    evidence,   \* evidence[i]: when the host evidence of incident i was taken
    log,        \* the materialized log of the host
    recorded,   \* history: every record that reached the spool
    imported,   \* history: every record that reached the host
    horizon     \* what this behaviour may still see

yardVars == <<sequence, slot, recorder, events, incidents, recorded>>
hostVars == <<hostEvents, hostIncidents, evidence, log, imported>>
vars == <<clock, sequence, slot, recorder, events, incidents, sink, hostEvents,
          hostIncidents, evidence, log, recorded, imported, horizon>>

MaxClock == Max({h.ticks : h \in Horizons})
Ids == 1 .. MaxClock
NoText == <<0, 0, FALSE>>
Kinds == {"note", "quarantined", "available", "cleaned"}

\* The identity of a record is its time followed by a random part, so records
\* sort by time.  inc is the incident it refers to, 0 for none.
Event == [id : Ids, seq : 0 .. MaxClock, kind : Kinds, slot : Slots,
          gen : Nat, inc : 0 .. MaxClock, text : Texts \cup {NoText}]
Incident == [id : Ids, slot : Slots, gen : Nat, builder : BOOLEAN]

NoEvent == [pc |-> "idle"]
IdleSink == [pc |-> "idle", events |-> {}, incidents |-> {}, seen |-> 0,
             pending |-> {}]

Init ==
    /\ clock = 0 /\ sequence = 0 /\ horizon \in Horizons
    /\ slot = [s \in Slots |-> [gen |-> 1, stage |-> "ok", inc |-> 0, built |-> 0]]
    /\ recorder = [s \in Slots |-> NoEvent]
    /\ events = {} /\ incidents = {} /\ recorded = {} /\ imported = {}
    /\ sink = [k \in Sinks |-> IdleSink]
    /\ hostEvents = {} /\ hostIncidents = {} /\ log = {}
    /\ evidence = [i \in {} |-> 0]

-----------------------------------------------------------------------------
(* Texts: cut to MaxText bytes, encoded as JSON, decoded again.            *)

\* The length of an error text once it has been cut, written and read.  A cut
\* inside a character leaves MaxText - n stray bytes, and JSON replaces each
\* of them by the three bytes of U+FFFD.
StoredLength(text) ==
    LET n == text[1]  w == text[2] IN
    CASE n + w <= MaxText -> n + w
      [] n >= MaxText     -> MaxText
      [] OTHER            -> n + 3 * (MaxText - n)

\* A text that is cut inside a character.
CutInside(text) == text[1] < MaxText /\ MaxText < text[1] + text[2]

\* A text is valid when redactBrokerText leaves it as it is.  Record validates
\* the text in memory: redacting once more puts U+FFFD in the place of each stray
\* byte and cuts again, which changes nothing only where the bytes are its own.
validateBrokerEvent(e) == CutInside(e.text) => e.text[3]

\* Export and Ingest validate the text that they read, which is too long when
\* JSON has written U+FFFD for stray bytes.
validateStoredEvent(e) == StoredLength(e.text) <= MaxText

-----------------------------------------------------------------------------
(* The yard: Record and SaveIncident.                                      *)

\* The clock moves on while nothing is recorded.
Tick ==
    /\ clock < horizon.ticks
    /\ clock' = clock + 1
    /\ UNCHANGED <<yardVars, hostVars, sink, horizon>>

\* What a handler records next: a lease event at any time, the quarantine with
\* its incident, the recovery with the incident that FinishRecovery keeps, and
\* the receipt of a cleaned builder.
Recordable(s, kind) ==
    CASE kind = "note"        -> slot[s].stage = "ok"
      [] kind = "quarantined" -> slot[s].stage = "saved"
      [] kind = "available"   -> slot[s].stage = "recovered"
      [] kind = "cleaned"     -> slot[s].built # 0

Reference(s, kind) ==
    CASE kind = "note"    -> 0
      [] kind = "cleaned" -> slot[s].built
      [] OTHER            -> slot[s].inc

\* Record takes the time first.  A recovery and a receipt carry no error text, a
\* quarantine always does.
Stamp(s, kind, text) ==
    /\ clock < horizon.ticks /\ recorder[s].pc = "idle" /\ Recordable(s, kind)
    /\ kind \in {"available", "cleaned"} => text = NoText
    /\ kind = "quarantined" => text # NoText
    /\ clock' = clock + 1
    /\ recorder' = [recorder EXCEPT ![s] =
          [pc |-> "stamped",
           event |-> [id |-> clock', seq |-> 0, kind |-> kind, slot |-> s,
                      gen |-> slot[s].gen, inc |-> Reference(s, kind),
                      text |-> text]]]
    /\ UNCHANGED <<sequence, slot, events, incidents, recorded, hostVars, sink,
                   horizon>>

\* Then the next sequence number, under the record lock.
nextSequence(s) ==
    /\ recorder[s].pc = "stamped"
    /\ sequence' = sequence + 1
    /\ recorder' = [recorder EXCEPT ![s].pc = "numbered",
                                    ![s].event.seq = sequence']
    /\ UNCHANGED <<slot, events, incidents, recorded, clock, hostVars, sink,
                   horizon>>

\* Last the record is validated and written, after which the handler goes on.
Record(s) ==
    LET e == recorder[s].event IN
    /\ recorder[s].pc = "numbered" /\ validateBrokerEvent(e)
    /\ events' = events \cup {e}
    /\ recorded' = recorded \cup {e}
    /\ recorder' = [recorder EXCEPT ![s] = NoEvent]
    /\ slot' = [slot EXCEPT ![s] =
          CASE e.kind = "quarantined" -> [@ EXCEPT !.stage = "quarantined"]
            [] e.kind = "available"   -> [@ EXCEPT !.stage = "ok", !.inc = 0]
            [] e.kind = "cleaned"     -> [@ EXCEPT !.built = 0]
            [] OTHER                  -> @]
    /\ UNCHANGED <<sequence, incidents, clock, hostVars, sink, horizon>>

\* A record that is not valid is not written: a note is dropped, and the
\* quarantine fails, to be repeated with a new incident.
RefuseRecord(s) ==
    LET e == recorder[s].event IN
    /\ recorder[s].pc = "numbered" /\ ~validateBrokerEvent(e)
    /\ recorder' = [recorder EXCEPT ![s] = NoEvent]
    /\ slot' = [slot EXCEPT ![s] = IF e.kind = "quarantined"
                                   THEN [@ EXCEPT !.stage = "ok", !.inc = 0] ELSE @]
    /\ UNCHANGED <<clock, sequence, events, incidents, recorded, hostVars, sink,
                   horizon>>

\* A quarantine saves its incident before it records anything.
SaveIncident(s, builder) ==
    LET i == [id |-> clock + 1, slot |-> s, gen |-> slot[s].gen,
              builder |-> builder] IN
    /\ clock < horizon.ticks /\ recorder[s].pc = "idle"
    /\ IF builder THEN slot[s].built = 0 ELSE slot[s].stage = "ok"
    /\ clock' = clock + 1
    /\ incidents' = incidents \cup {i}
    /\ recorded' = recorded \cup {i}
    /\ slot' = [slot EXCEPT ![s] =
          IF builder THEN [@ EXCEPT !.built = i.id]
                     ELSE [@ EXCEPT !.stage = "saved", !.inc = i.id]]
    /\ UNCHANGED <<sequence, recorder, events, hostVars, sink, horizon>>

\* FinishRecovery: the environment has been rebuilt.
FinishRecovery(s) ==
    /\ slot[s].stage = "quarantined"
    /\ slot' = [slot EXCEPT ![s].stage = "recovered", ![s].gen = @ + 1]
    /\ UNCHANGED <<clock, sequence, recorder, events, incidents, recorded,
                   hostVars, sink, horizon>>

\* The handler dies.  What it had in hand is lost; a quarantine that did not get
\* as far as its event is repeated with a new incident, a recovery is not.
CrashRecorder(s) ==
    /\ horizon.failures > 0
    /\ \/ recorder[s].pc # "idle"
       \/ slot[s].stage \in {"saved", "recovered"}
    /\ horizon' = [horizon EXCEPT !.failures = @ - 1]
    /\ recorder' = [recorder EXCEPT ![s] = NoEvent]
    /\ slot' = [slot EXCEPT ![s] =
          IF @.stage \in {"saved", "recovered"}
          THEN [@ EXCEPT !.stage = "ok", !.inc = 0] ELSE @]
    /\ UNCHANGED <<clock, sequence, events, incidents, recorded, hostVars, sink>>

-----------------------------------------------------------------------------
(* The sink: Sync on a yard is export, ingest, evidence, acknowledge.      *)

\* The number of members of S that come before r in the order of their names.
Before(r, S) == Cardinality({q \in S : q.id < r.id})

Oldest(n, S) == {r \in S : Before(r, S) < n}

Moved(k, pc) == sink' = [sink EXCEPT ![k].pc = pc]

\* Export reads the directory of events first.  A record that does not pass
\* validation fails the whole export.
ExportEvents(k) ==
    LET batch == Oldest(MaxBatch, events) IN
    /\ sink[k].pc = "idle" /\ k \in horizon.sinks
    /\ events \cup incidents # {}
    /\ \A e \in batch : validateStoredEvent(e)
    /\ sink' = [sink EXCEPT ![k].pc = "events", ![k].events = batch]
    /\ UNCHANGED <<clock, yardVars, hostVars, horizon>>

FaultExportIncidents(k) ==
    LET batch == Oldest(MaxBatch - Cardinality(sink[k].events), incidents) IN
    /\ sink[k].pc = "events"
    /\ sink' = [sink EXCEPT ![k] =
          IF @.events = {} THEN IdleSink
          ELSE [@ EXCEPT !.pc = "fetched", !.incidents = batch]]
    /\ UNCHANGED <<clock, yardVars, hostVars, horizon>>

\* Then incidents, as many as the batch still takes; an empty batch ends Sync.
ExportIncidents(k) ==
    LET batch == Oldest(MaxBatch - Cardinality(sink[k].events), incidents) IN
    /\ sink[k].pc = "events"
    /\ sink' = [sink EXCEPT ![k] =
          IF @.events \cup batch = {} THEN IdleSink
          ELSE [@ EXCEPT !.pc = "fetched", !.incidents = batch]]
    /\ UNCHANGED <<clock, yardVars, hostVars, horizon>>

FaultClosing(i, stored) == {e \in stored : e.inc = i.id}

\* When the incident was closed: by the receipt of its builder, or by the last
\* recovery of its slot to a later generation.
Closing(i, stored) ==
    IF i.builder
    THEN {e \in stored : e.kind = "cleaned" /\ e.inc = i.id}
    ELSE LET recoveries == {e \in stored : e.kind = "available" /\ e.slot = i.slot}
             latest == {e \in recoveries : \A f \in recoveries : f.gen <= e.gen}
         IN {e \in latest : e.gen > i.gen}

ClosedAt(i, stored) == Max({e.id : e \in Closing(i, stored)})

\* Closed incidents go oldest first, while they are too old or too many.
rotateIncidents(kept, stored) ==
    LET closed == {i \in kept : Closing(i, stored) # {}}
        at(i) == ClosedAt(i, stored)
        rank(i) == Cardinality({j \in closed :
                       \/ at(j) < at(i)
                       \/ at(j) = at(i) /\ j.id < i.id})
    IN {i \in kept : i \notin closed \/
            /\ clock - at(i) < IncidentRetention
            /\ Cardinality(closed) - rank(i) <= IncidentMax}

Belongs(e, i) == e.inc = i.id \/ (e.slot = i.slot /\ e.gen = i.gen)

\* Events that belong to no incident on the host go likewise.
rotateEvents(stored, kept) ==
    LET protected(e) == \E i \in kept : Belongs(e, i)
        loose == {e \in stored : ~protected(e)}
    IN {e \in stored : protected(e) \/
            /\ clock - e.id < EventRetention
            /\ Cardinality(stored) - Before(e, loose) <= EventMax}

\* Ingest holds the lock of the sink from the first write to the last.
Ingest(k) ==
    LET stored == hostEvents \cup sink[k].events
        kept == rotateIncidents(hostIncidents \cup sink[k].incidents, stored)
    IN
    /\ sink[k].pc = "fetched"
    /\ hostIncidents' = kept
    /\ hostEvents' = rotateEvents(stored, kept)
    /\ log' = hostEvents'
    /\ evidence' = [i \in DOMAIN evidence \ {j.id : j \in
                       (hostIncidents \cup sink[k].incidents) \ kept} |-> evidence[i]]
    /\ imported' = imported \cup {r.id : r \in sink[k].events \cup sink[k].incidents}
    /\ Moved(k, "ingested")
    /\ UNCHANGED <<clock, yardVars, horizon>>

\* The sink dies while it writes: events are written before incidents, and
\* nothing has been rotated.
CrashIngest(k) ==
    /\ horizon.failures > 0 /\ sink[k].pc = "fetched"
    /\ \E n \in 0 .. MaxBatch :
          LET written == Oldest(n, sink[k].events)
              saved == Oldest(n - Cardinality(written), sink[k].incidents)
          IN /\ hostEvents' = hostEvents \cup written
             /\ hostIncidents' = hostIncidents \cup saved
             /\ imported' = imported \cup {r.id : r \in written \cup saved}
    /\ horizon' = [horizon EXCEPT !.failures = @ - 1]
    /\ sink' = [sink EXCEPT ![k] = IdleSink]
    /\ UNCHANGED <<clock, yardVars, evidence, log>>

\* saveHostEvidence measures the host once for the incidents without evidence,
Measure(k) ==
    /\ sink[k].pc = "ingested"
    /\ sink' = [sink EXCEPT ![k].pc = "measured", ![k].seen = clock,
          ![k].pending = {i.id : i \in sink[k].incidents} \ DOMAIN evidence]
    /\ UNCHANGED <<clock, yardVars, hostVars, horizon>>

FaultEvidence(k) ==
    /\ sink[k].pc = "measured"
    /\ evidence' = [i \in DOMAIN evidence \cup sink[k].pending |->
          IF i \in sink[k].pending THEN sink[k].seen ELSE evidence[i]]
    /\ Moved(k, "saved")
    /\ UNCHANGED <<clock, yardVars, horizon, hostEvents, hostIncidents, log, imported>>

\* and writes it for those that still have none, each under the evidence lock.
saveHostEvidence(k) ==
    /\ sink[k].pc = "measured"
    /\ evidence' = [i \in DOMAIN evidence \cup sink[k].pending |->
          IF i \in DOMAIN evidence THEN evidence[i] ELSE sink[k].seen]
    /\ Moved(k, "saved")
    /\ UNCHANGED <<clock, yardVars, horizon, hostEvents, hostIncidents, log, imported>>

FaultAck(k) ==
    /\ sink[k].pc = "saved"
    /\ events' = {} /\ incidents' = {}
    /\ sink' = [sink EXCEPT ![k] = IdleSink]
    /\ UNCHANGED <<clock, sequence, slot, recorder, recorded, hostVars, horizon>>

\* The yard removes exactly the records that the acknowledgement names.
Ack(k) ==
    /\ sink[k].pc = "saved"
    /\ events' = events \ sink[k].events
    /\ incidents' = incidents \ sink[k].incidents
    /\ sink' = [sink EXCEPT ![k] = IdleSink]
    /\ UNCHANGED <<clock, sequence, slot, recorder, recorded, hostVars, horizon>>

\* The sink dies or a call into the yard fails.  The yard may have carried out
\* the acknowledgement, or only the part of it that concerns events.
FailSync(k) ==
    /\ horizon.failures > 0 /\ sink[k].pc # "idle"
    /\ horizon' = [horizon EXCEPT !.failures = @ - 1]
    /\ sink' = [sink EXCEPT ![k] = IdleSink]
    /\ \/ UNCHANGED events
       \/ sink[k].pc = "saved" /\ events' = events \ sink[k].events
    /\ UNCHANGED <<clock, sequence, slot, recorder, incidents, recorded, hostVars>>

-----------------------------------------------------------------------------

Handler(s) ==
    \/ \E kind \in Kinds, text \in Texts \cup {NoText} : Stamp(s, kind, text)
    \/ nextSequence(s)
    \/ Record(s)
    \/ RefuseRecord(s)
    \/ \E builder \in BOOLEAN : SaveIncident(s, builder)
    \/ FinishRecovery(s)
    \/ CrashRecorder(s)

Sync(k) ==
    \/ ExportEvents(k) \/ ExportIncidents(k) \/ Ingest(k)
    \/ Measure(k) \/ saveHostEvidence(k) \/ Ack(k)

Next ==
    \/ Tick
    \/ \E s \in Slots : Handler(s)
    \/ \E k \in Sinks : Sync(k) \/ CrashIngest(k) \/ FailSync(k)

Spec == Init /\ [][Next]_vars

\* A timer starts the sink every minute, and a sink that runs does its next
\* step; failures are bounded.
FairSpec == Spec /\ \A k \in Sinks : WF_vars(Sync(k))

-----------------------------------------------------------------------------
(* Properties.                                                             *)

\* No record is lost between the yard and the host: what is no longer in the
\* spool has been written on the host, whatever was recorded during the export
\* and wherever a sink or a call failed (Ack in events.go, Sync in host_sink.go).
NothingLost == \A r \in recorded : r \in events \cup incidents \/ r.id \in imported

\* An incident was resolved when the yard recorded its end.
Resolved(i) ==
    \E e \in recorded \ {i} : "kind" \in DOMAIN e /\
        IF i.builder THEN e.kind = "cleaned" /\ e.inc = i.id
        ELSE e.kind = "available" /\ e.slot = i.slot /\ e.gen > i.gen

\* The host keeps every incident that has not been resolved, even while batches
\* arrive twice or in parts, and recovery of a slot never closes the incident
\* of a builder (rotateIncidents).
OpenIncidentsKept ==
    \A i \in recorded : "builder" \in DOMAIN i /\ i.id \in imported /\ ~Resolved(i)
                            => i \in hostIncidents

\* Host evidence, once taken, is what later and concurrent syncs leave in place.
FirstEvidenceKept ==
    [][\A i \in DOMAIN evidence \cap DOMAIN evidence' : evidence'[i] = evidence[i]]_vars

\* Everything that is recorded reaches the host in the end: a sink that was down
\* or failed only delays it (Export, Sync; docs/test-vms.md:1680 "sink downtime
\* therefore delays only host-wide visibility").
Backlog == \E r \in recorded : r.id \notin imported
SpoolDrains == Backlog ~> ~Backlog

=============================================================================
