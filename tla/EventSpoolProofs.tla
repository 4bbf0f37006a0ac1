-------------------------- MODULE EventSpoolProofs --------------------------
(***************************************************************************)
(* The way of the records to the host, for any number of handlers and      *)
(* sinks, any batch size and any limits of the rotation.                   *)
(*                                                                         *)
(* A sink acknowledges nothing that has not been imported, which is all    *)
(* that NothingLost needs.  What the host keeps depends on more: a record  *)
(* is named by its time alone, so "imported" speaks of one record only     *)
(* because no two records, written or still in the hands of a handler,     *)
(* carry the same time; and the rotation closes an incident only on the    *)
(* strength of events that the yard really recorded.                       *)
(***************************************************************************)
EXTENDS EventSpool, TLAPS

EventRec == [id : Nat, seq : Nat, kind : Kinds, slot : Slots, gen : Nat, inc : Nat,
             text : Texts \cup {NoText}]
IncidentRec == [id : Nat, slot : Slots, gen : Nat, builder : BOOLEAN]

Stages == {"ok", "saved", "quarantined", "recovered"}
InHand == [pc : {"stamped", "numbered"}, event : EventRec]
SlotRec == [gen : Nat, stage : Stages, inc : Nat, built : Nat]
SinkSteps == {"idle", "events", "fetched", "ingested", "measured", "saved"}
Batches == [pc : SinkSteps, events : SUBSET EventRec, incidents : SUBSET IncidentRec,
            seen : Nat, pending : SUBSET Nat]

SpoolTypeOK ==
    /\ clock \in Nat /\ sequence \in Nat
    /\ slot \in [Slots -> SlotRec]
    /\ recorder \in [Slots -> {NoEvent} \cup InHand]
    /\ sink \in [Sinks -> Batches]

\* Whatever is in the spool, in a batch or on the host was recorded.
OnlyRecorded ==
    /\ recorded \subseteq EventRec \cup IncidentRec
    /\ events \subseteq recorded \cap EventRec
    /\ incidents \subseteq recorded \cap IncidentRec
    /\ \A k \in Sinks : sink[k].events \cup sink[k].incidents \subseteq recorded
    /\ hostEvents \subseteq recorded \cap EventRec
    /\ hostIncidents \subseteq recorded \cap IncidentRec
    /\ \A n \in imported : \E r \in recorded : r.id = n

\* No two records are of the same time.
Busy(s) == recorder[s].pc # "idle"
IdsAreUnique ==
    /\ \A r \in recorded : r.id <= clock
    /\ \A q, r \in recorded : q.id = r.id => q = r
    /\ \A s \in Slots : Busy(s) => /\ recorder[s].event.id <= clock
                                   /\ \A r \in recorded : r.id # recorder[s].event.id
    /\ \A s, t \in Slots : Busy(s) /\ Busy(t) /\ s # t
                              => recorder[s].event.id # recorder[t].event.id

\* A sink that has ingested its batch has imported all of it.
BatchImported ==
    \A k \in Sinks : sink[k].pc \in {"ingested", "measured", "saved"} =>
       \A r \in sink[k].events \cup sink[k].incidents : r.id \in imported

SpoolInv == /\ SpoolTypeOK /\ OnlyRecorded /\ IdsAreUnique /\ BatchImported
            /\ NothingLost /\ OpenIncidentsKept

-----------------------------------------------------------------------------
(* Records.                                                                *)

LEMMA RecordShapes ==
  /\ \A e \in EventRec : e.id \in Nat /\ "kind" \in DOMAIN e /\ "builder" \notin DOMAIN e
  /\ \A i \in IncidentRec : i.id \in Nat /\ "builder" \in DOMAIN i /\ "kind" \notin DOMAIN i
<1>1. \A e \in EventRec : /\ DOMAIN e = {"id", "seq", "kind", "slot", "gen", "inc", "text"}
                          /\ e.id \in Nat
  BY DEF EventRec
<1>2. \A i \in IncidentRec : DOMAIN i = {"id", "slot", "gen", "builder"} /\ i.id \in Nat
  BY DEF IncidentRec
<1> QED BY <1>1, <1>2

LEMMA TypedIds ==
  ASSUME SpoolTypeOK, OnlyRecorded
  PROVE  /\ \A r \in recorded : r.id \in Nat
         /\ \A s \in Slots : Busy(s) => /\ recorder[s] \in InHand /\ recorder[s].event \in EventRec
                                        /\ recorder[s].event.id \in Nat
<1>1. \A r \in recorded : r.id \in Nat
  BY RecordShapes DEF OnlyRecorded
<1>2. ASSUME NEW s \in Slots, Busy(s)
      PROVE  recorder[s] \in InHand
  <2>1. recorder[s] \in {NoEvent} \cup InHand
    BY DEF SpoolTypeOK
  <2>2. recorder[s] # NoEvent
    BY <1>2 DEF Busy, NoEvent
  <2> QED BY <2>1, <2>2
<1>3. \A h \in InHand : h.event \in EventRec
  BY DEF InHand
<1> QED BY <1>1, <1>2, <1>3, RecordShapes

\* What was resolved stays resolved.
LEMMA ResolvedGrows ==
  ASSUME recorded \subseteq recorded', NEW i, Resolved(i)
  PROVE  Resolved(i)'
BY DEF Resolved

-----------------------------------------------------------------------------
(* The yard.  A handler adds records, and nothing else.                    *)

LEMMA YardStep ==
  ASSUME SpoolInv, UNCHANGED <<hostVars, sink>>,
         recorded \subseteq recorded', events \subseteq events', incidents \subseteq incidents',
         recorded' \ recorded \subseteq events' \cup incidents',
         events' \subseteq recorded' \cap EventRec, incidents' \subseteq recorded' \cap IncidentRec,
         \A r \in recorded' \ recorded : r \in EventRec \/ r.id \notin imported
  PROVE  OnlyRecorded' /\ BatchImported' /\ NothingLost' /\ OpenIncidentsKept'
<1>1. /\ sink' = sink /\ hostEvents' = hostEvents /\ hostIncidents' = hostIncidents
      /\ imported' = imported
  BY DEF hostVars
<1>2. recorded' \subseteq EventRec \cup IncidentRec
  BY DEF SpoolInv, OnlyRecorded
<1>3. OnlyRecorded'
  <2>1. \A k \in Sinks : sink'[k].events \cup sink'[k].incidents \subseteq recorded'
    BY <1>1 DEF SpoolInv, OnlyRecorded
  <2>2. \A n \in imported' : \E r \in recorded' : r.id = n
    BY <1>1 DEF SpoolInv, OnlyRecorded
  <2>3. hostEvents' \subseteq recorded' \cap EventRec /\ hostIncidents' \subseteq recorded' \cap IncidentRec
    BY <1>1 DEF SpoolInv, OnlyRecorded
  <2> QED BY <1>2, <2>1, <2>2, <2>3 DEF OnlyRecorded
<1>4. BatchImported'
  BY <1>1 DEF SpoolInv, BatchImported
<1>5. NothingLost'
  BY <1>1 DEF SpoolInv, NothingLost
<1>6. OpenIncidentsKept'
  <2> SUFFICES ASSUME NEW i \in recorded', "builder" \in DOMAIN i, i.id \in imported, ~Resolved(i)'
               PROVE  i \in hostIncidents
    BY <1>1 DEF OpenIncidentsKept
  <2>1. i \in recorded
    BY RecordShapes
  <2>2. ~Resolved(i)
    BY ResolvedGrows
  <2> QED BY <2>1, <2>2 DEF SpoolInv, OpenIncidentsKept
<1> QED BY <1>3, <1>4, <1>5, <1>6

\* A handler that records nothing.
LEMMA QuietYardStep ==
  ASSUME SpoolInv, UNCHANGED <<hostVars, sink, recorded, events, incidents>>
  PROVE  OnlyRecorded' /\ BatchImported' /\ NothingLost' /\ OpenIncidentsKept'
<1>1. UNCHANGED <<hostVars, sink>>
  OBVIOUS
<1>2. recorded' = recorded /\ events' = events /\ incidents' = incidents
  OBVIOUS
<1>3. events \subseteq recorded \cap EventRec /\ incidents \subseteq recorded \cap IncidentRec
  BY DEF SpoolInv, OnlyRecorded
<1> QED BY <1>1, <1>2, <1>3, YardStep

LEMMA TickPreserves ==
  ASSUME SpoolInv, Tick
  PROVE  SpoolInv'
<1>1. /\ clock' = clock + 1 /\ UNCHANGED <<hostVars, sink, recorded, events, incidents>>
      /\ sequence' = sequence /\ slot' = slot /\ recorder' = recorder /\ recorded' = recorded
      /\ sink' = sink
  BY DEF Tick, yardVars
<1>2. clock \in Nat
  BY DEF SpoolInv, SpoolTypeOK
<1>3. SpoolTypeOK'
  BY <1>1, <1>2 DEF SpoolInv, SpoolTypeOK
<1>4. IdsAreUnique'
  <2>1. \A n \in Nat : n <= clock => n <= clock + 1
    BY <1>2
  <2> QED BY <1>1, <2>1, TypedIds DEF SpoolInv, IdsAreUnique, Busy
<1> QED BY <1>1, <1>3, <1>4, QuietYardStep DEF SpoolInv

LEMMA StampPreserves ==
  ASSUME SpoolInv, NEW s \in Slots, NEW kind \in Kinds, NEW text \in Texts \cup {NoText},
         Stamp(s, kind, text)
  PROVE  SpoolInv'
<1> DEFINE event == [id |-> clock + 1, seq |-> 0, kind |-> kind, slot |-> s,
                     gen |-> slot[s].gen, inc |-> Reference(s, kind), text |-> text]
           hand == [pc |-> "stamped", event |-> event]
<1>1. /\ clock' = clock + 1 /\ UNCHANGED <<hostVars, sink, recorded, events, incidents>>
      /\ sequence' = sequence /\ slot' = slot /\ recorded' = recorded /\ sink' = sink
      /\ recorder' = [recorder EXCEPT ![s] = hand]
  BY DEF Stamp
<1>2. clock \in Nat /\ clock + 1 \in Nat /\ clock < clock + 1
  BY DEF SpoolInv, SpoolTypeOK
<1>3. event \in EventRec
  <2>1. slot[s].gen \in Nat /\ slot[s].inc \in Nat /\ slot[s].built \in Nat
    BY DEF SpoolInv, SpoolTypeOK, SlotRec
  <2>2. Reference(s, kind) \in Nat
    BY <2>1 DEF Reference
  <2> QED BY <1>2, <2>1, <2>2 DEF EventRec
<1>4. event.id = clock + 1
  OBVIOUS
<1> HIDE DEF event
<1>5. hand \in InHand /\ hand.event = event
  BY <1>3 DEF InHand
<1> HIDE DEF hand
<1>6. recorder \in [Slots -> {NoEvent} \cup InHand]
  BY DEF SpoolInv, SpoolTypeOK
<1>7. /\ recorder' \in [Slots -> {NoEvent} \cup InHand] /\ recorder'[s] = hand
      /\ \A t \in Slots : t # s => recorder'[t] = recorder[t]
  BY <1>1, <1>5, <1>6
<1>8. SpoolTypeOK'
  BY <1>1, <1>2, <1>7 DEF SpoolInv, SpoolTypeOK
<1>9. \A n \in Nat : n <= clock => n <= clock + 1 /\ n # clock + 1
  BY <1>2
<1>10. IdsAreUnique'
  <2>1. /\ \A r \in recorded : r.id <= clock /\ r.id \in Nat
        /\ \A q, r \in recorded : q.id = r.id => q = r
        /\ \A t \in Slots : Busy(t) => /\ recorder[t].event.id <= clock
                                       /\ recorder[t].event.id \in Nat
                                       /\ \A r \in recorded : r.id # recorder[t].event.id
        /\ \A t, u \in Slots : Busy(t) /\ Busy(u) /\ t # u
                                  => recorder[t].event.id # recorder[u].event.id
    BY TypedIds DEF SpoolInv, IdsAreUnique
  <2>2. \A r \in recorded' : r.id <= clock'
    BY <1>1, <1>9, <2>1
  <2>3. recorder'[s].event.id = clock + 1 /\ clock + 1 <= clock'
    BY <1>1, <1>2, <1>4, <1>5, <1>7
  <2>4. \A t \in Slots : Busy(t)' => /\ recorder'[t].event.id <= clock'
                                     /\ \A r \in recorded' : r.id # recorder'[t].event.id
    BY <1>1, <1>7, <1>9, <2>1, <2>3 DEF Busy
  <2>5. \A t, u \in Slots : Busy(t)' /\ Busy(u)' /\ t # u
                               => recorder'[t].event.id # recorder'[u].event.id
    BY <1>7, <1>9, <2>1, <2>3 DEF Busy
  <2> QED BY <1>1, <2>1, <2>2, <2>4, <2>5 DEF IdsAreUnique
<1> QED BY <1>1, <1>8, <1>10, QuietYardStep DEF SpoolInv

LEMMA NumberPreserves ==
  ASSUME SpoolInv, NEW s \in Slots, nextSequence(s)
  PROVE  SpoolInv'
<1> DEFINE e == recorder[s].event
           numbered == [e EXCEPT !.seq = sequence + 1]
           hand == [recorder[s] EXCEPT !.pc = "numbered", !.event = numbered]
<1>1. /\ clock' = clock /\ UNCHANGED <<hostVars, sink, recorded, events, incidents>>
      /\ sequence' = sequence + 1 /\ slot' = slot /\ recorded' = recorded /\ sink' = sink
      /\ Busy(s)
  BY DEF nextSequence, Busy
<1>2. recorder' = [recorder EXCEPT ![s] = hand]
  BY DEF nextSequence
<1>3. recorder[s] \in InHand /\ e \in EventRec
  BY <1>1, TypedIds DEF SpoolInv
<1>4. sequence + 1 \in Nat
  BY DEF SpoolInv, SpoolTypeOK
<1>5. numbered \in EventRec /\ numbered.id = e.id
  <2> HIDE DEF e
  <2> QED BY <1>3, <1>4 DEF EventRec
<1> HIDE DEF numbered
<1>6. hand \in InHand /\ hand.event = numbered
  BY <1>3, <1>5 DEF InHand
<1> HIDE DEF hand
<1>7. recorder \in [Slots -> {NoEvent} \cup InHand]
  BY DEF SpoolInv, SpoolTypeOK
<1>8. /\ recorder' \in [Slots -> {NoEvent} \cup InHand] /\ recorder'[s] = hand
      /\ \A t \in Slots : t # s => recorder'[t] = recorder[t]
  BY <1>2, <1>6, <1>7
<1>9. SpoolTypeOK'
  BY <1>1, <1>4, <1>8 DEF SpoolInv, SpoolTypeOK
<1>10. \A t \in Slots : Busy(t)' => Busy(t) /\ recorder'[t].event.id = recorder[t].event.id
  BY <1>1, <1>5, <1>6, <1>8 DEF Busy
<1>11. IdsAreUnique'
  BY <1>1, <1>10 DEF SpoolInv, IdsAreUnique
<1> QED BY <1>1, <1>9, <1>11, QuietYardStep DEF SpoolInv

\* The record that a handler had in hand is written, and its time is taken no
\* more.
LEMMA RecordPreserves ==
  ASSUME SpoolInv, NEW s \in Slots, Record(s)
  PROVE  SpoolInv'
<1> DEFINE e == recorder[s].event
<1>1. /\ clock' = clock /\ sequence' = sequence /\ UNCHANGED <<hostVars, sink>>
      /\ incidents' = incidents /\ sink' = sink /\ Busy(s)
      /\ events' = events \cup {e} /\ recorded' = recorded \cup {e}
      /\ recorder' = [recorder EXCEPT ![s] = NoEvent]
  BY DEF Record, Busy
<1>2. e \in EventRec
  BY <1>1, TypedIds DEF SpoolInv
<1>3. slot' \in [Slots -> SlotRec]
  <2> DEFINE new == CASE e.kind = "quarantined" -> [slot[s] EXCEPT !.stage = "quarantined"]
                      [] e.kind = "available"   -> [slot[s] EXCEPT !.stage = "ok", !.inc = 0]
                      [] e.kind = "cleaned"     -> [slot[s] EXCEPT !.built = 0]
                      [] OTHER                  -> slot[s]
  <2>1. slot \in [Slots -> SlotRec] /\ slot[s] \in SlotRec
    BY DEF SpoolInv, SpoolTypeOK
  <2>2. slot' = [slot EXCEPT ![s] = new]
    BY DEF Record
  <2>3. /\ [slot[s] EXCEPT !.stage = "quarantined"] \in SlotRec
        /\ [slot[s] EXCEPT !.stage = "ok", !.inc = 0] \in SlotRec
        /\ [slot[s] EXCEPT !.built = 0] \in SlotRec
    BY <2>1 DEF SlotRec, Stages
  <2>4. new \in SlotRec
    BY <2>1, <2>3
  <2> HIDE DEF new
  <2> QED BY <2>1, <2>2, <2>4
<1>4. recorder \in [Slots -> {NoEvent} \cup InHand]
  BY DEF SpoolInv, SpoolTypeOK
<1>5. /\ recorder' \in [Slots -> {NoEvent} \cup InHand] /\ recorder'[s] = NoEvent
      /\ \A t \in Slots : t # s => recorder'[t] = recorder[t]
  BY <1>1, <1>4
<1>6. SpoolTypeOK'
  BY <1>1, <1>3, <1>5 DEF SpoolInv, SpoolTypeOK
<1> HIDE DEF e
<1>7. IdsAreUnique'
  <2>1. \A t \in Slots : Busy(t)' => t # s /\ Busy(t) /\ recorder'[t] = recorder[t]
    BY <1>5 DEF Busy, NoEvent
  <2>2. e.id <= clock /\ \A r \in recorded : r.id # e.id
    BY <1>1 DEF e, SpoolInv, IdsAreUnique
  <2>3. \A t \in Slots : Busy(t)' => recorder'[t].event.id # e.id
    BY <1>1, <2>1 DEF e, SpoolInv, IdsAreUnique
  <2>4. \A r \in recorded' : r.id <= clock'
    BY <1>1, <2>2 DEF SpoolInv, IdsAreUnique
  <2>5. \A q, r \in recorded' : q.id = r.id => q = r
    BY <1>1, <2>2 DEF SpoolInv, IdsAreUnique
  <2>6. \A t \in Slots : Busy(t)' => /\ recorder'[t].event.id <= clock'
                                     /\ \A r \in recorded' : r.id # recorder'[t].event.id
    BY <1>1, <2>1, <2>3 DEF SpoolInv, IdsAreUnique
  <2>7. \A t, u \in Slots : Busy(t)' /\ Busy(u)' /\ t # u
                               => recorder'[t].event.id # recorder'[u].event.id
    BY <2>1 DEF SpoolInv, IdsAreUnique
  <2> QED BY <2>4, <2>5, <2>6, <2>7 DEF IdsAreUnique
<1>8. OnlyRecorded' /\ BatchImported' /\ NothingLost' /\ OpenIncidentsKept'
  <2>1. events' \subseteq recorded' \cap EventRec /\ incidents' \subseteq recorded' \cap IncidentRec
    BY <1>1, <1>2 DEF SpoolInv, OnlyRecorded
  <2>2. /\ recorded \subseteq recorded' /\ events \subseteq events' /\ incidents \subseteq incidents'
        /\ recorded' \ recorded \subseteq events' \cup incidents'
        /\ \A r \in recorded' \ recorded : r \in EventRec
    BY <1>1, <1>2
  <2> QED BY <1>1, <2>1, <2>2, YardStep
<1> QED BY <1>6, <1>7, <1>8 DEF SpoolInv

LEMMA SavePreserves ==
  ASSUME SpoolInv, NEW s \in Slots, NEW builder \in BOOLEAN, SaveIncident(s, builder)
  PROVE  SpoolInv'
<1> DEFINE i == [id |-> clock + 1, slot |-> s, gen |-> slot[s].gen, builder |-> builder]
<1>1. /\ clock' = clock + 1 /\ sequence' = sequence /\ UNCHANGED <<hostVars, sink>>
      /\ recorder' = recorder /\ events' = events /\ sink' = sink
      /\ incidents' = incidents \cup {i} /\ recorded' = recorded \cup {i}
  BY DEF SaveIncident
<1>2. slot \in [Slots -> SlotRec] /\ slot[s] \in SlotRec /\ clock \in Nat
  BY DEF SpoolInv, SpoolTypeOK
<1>9. clock + 1 \in Nat /\ clock + 1 <= clock + 1
  BY <1>2
<1>3. i \in IncidentRec /\ i.id = clock + 1
  BY <1>2, <1>9 DEF IncidentRec, SlotRec
<1>4. slot' \in [Slots -> SlotRec]
  <2> DEFINE new == IF builder THEN [slot[s] EXCEPT !.built = clock + 1]
                    ELSE [slot[s] EXCEPT !.stage = "saved", !.inc = clock + 1]
  <2>1. slot' = [slot EXCEPT ![s] = new]
    BY DEF SaveIncident
  <2>2. new \in SlotRec
    BY <1>2, <1>9 DEF SlotRec, Stages
  <2> HIDE DEF new
  <2> QED BY <1>2, <2>1, <2>2
<1> HIDE DEF i
<1>5. SpoolTypeOK'
  BY <1>1, <1>4, <1>9 DEF SpoolInv, SpoolTypeOK
<1>6. \A n \in Nat : n <= clock => n <= clock + 1 /\ n # clock + 1
  BY <1>2
<1>7. IdsAreUnique'
  <2>1. /\ \A r \in recorded : r.id <= clock + 1 /\ r.id # i.id
        /\ \A t \in Slots : Busy(t) => /\ recorder[t].event.id <= clock + 1
                                       /\ recorder[t].event.id # i.id
    BY <1>3, <1>6, TypedIds DEF SpoolInv, IdsAreUnique
  <2>2. \A t \in Slots : Busy(t)' = Busy(t) /\ recorder'[t] = recorder[t]
    BY <1>1 DEF Busy
  <2>3. \A r \in recorded' : r.id <= clock'
    BY <1>1, <1>3, <1>9, <2>1
  <2>4. \A q, r \in recorded' : q.id = r.id => q = r
    BY <1>1, <2>1 DEF SpoolInv, IdsAreUnique
  <2>5. \A t \in Slots : Busy(t)' => /\ recorder'[t].event.id <= clock'
                                     /\ \A r \in recorded' : r.id # recorder'[t].event.id
    BY <1>1, <2>1, <2>2 DEF SpoolInv, IdsAreUnique
  <2>6. \A t, u \in Slots : Busy(t)' /\ Busy(u)' /\ t # u
                               => recorder'[t].event.id # recorder'[u].event.id
    BY <2>2 DEF SpoolInv, IdsAreUnique
  <2> QED BY <2>3, <2>4, <2>5, <2>6 DEF IdsAreUnique
<1>8. OnlyRecorded' /\ BatchImported' /\ NothingLost' /\ OpenIncidentsKept'
  <2>1. events' \subseteq recorded' \cap EventRec /\ incidents' \subseteq recorded' \cap IncidentRec
    BY <1>1, <1>3 DEF SpoolInv, OnlyRecorded
  <2>2. i.id \notin imported
    <3>1. \A r \in recorded : r.id # i.id
      BY <1>3, <1>6, TypedIds DEF SpoolInv, IdsAreUnique
    <3> QED BY <3>1 DEF SpoolInv, OnlyRecorded
  <2>3. /\ recorded \subseteq recorded' /\ events \subseteq events' /\ incidents \subseteq incidents'
        /\ recorded' \ recorded \subseteq events' \cup incidents'
        /\ \A r \in recorded' \ recorded : r.id \notin imported
    BY <1>1, <2>2
  <2> QED BY <1>1, <2>1, <2>3, YardStep
<1> QED BY <1>5, <1>7, <1>8 DEF SpoolInv

\* A handler goes on, is refused or dies.
LEMMA HandlerEndPreserves ==
  ASSUME SpoolInv, NEW s \in Slots, FinishRecovery(s) \/ RefuseRecord(s) \/ CrashRecorder(s)
  PROVE  SpoolInv'
<1>1. /\ clock' = clock /\ UNCHANGED <<hostVars, sink, recorded, events, incidents>>
      /\ sequence' = sequence /\ recorded' = recorded /\ sink' = sink
      /\ recorder' = recorder \/ recorder' = [recorder EXCEPT ![s] = NoEvent]
  BY DEF FinishRecovery, RefuseRecord, CrashRecorder
<1>2. /\ slot \in [Slots -> SlotRec] /\ slot[s] \in SlotRec
      /\ recorder \in [Slots -> {NoEvent} \cup InHand]
  BY DEF SpoolInv, SpoolTypeOK
<1>3. slot' \in [Slots -> SlotRec]
  <2>1. CASE FinishRecovery(s)
    <3>1. slot' = [slot EXCEPT ![s] = [slot[s] EXCEPT !.stage = "recovered", !.gen = slot[s].gen + 1]]
      BY <2>1 DEF FinishRecovery
    <3>2. slot[s].gen + 1 \in Nat
      BY <1>2 DEF SlotRec
    <3>3. [slot[s] EXCEPT !.stage = "recovered", !.gen = slot[s].gen + 1] \in SlotRec
      BY <1>2, <3>2 DEF SlotRec, Stages
    <3> QED BY <1>2, <3>1, <3>3
  <2>2. CASE CrashRecorder(s)
    <3> DEFINE new == IF slot[s].stage \in {"saved", "recovered"}
                      THEN [slot[s] EXCEPT !.stage = "ok", !.inc = 0] ELSE slot[s]
    <3>1. slot' = [slot EXCEPT ![s] = new]
      BY <2>2 DEF CrashRecorder
    <3>2. new \in SlotRec
      BY <1>2 DEF SlotRec, Stages
    <3> HIDE DEF new
    <3> QED BY <1>2, <3>1, <3>2
  <2>3. CASE RefuseRecord(s)
    <3> DEFINE new == IF recorder[s].event.kind = "quarantined"
                      THEN [slot[s] EXCEPT !.stage = "ok", !.inc = 0] ELSE slot[s]
    <3>1. slot' = [slot EXCEPT ![s] = new]
      BY <2>3 DEF RefuseRecord
    <3>2. new \in SlotRec
      BY <1>2 DEF SlotRec, Stages
    <3> HIDE DEF new
    <3> QED BY <1>2, <3>1, <3>2
  <2> QED BY <2>1, <2>2, <2>3
<1>4. /\ recorder' \in [Slots -> {NoEvent} \cup InHand]
      /\ \A t \in Slots : recorder'[t] \in {recorder[t], NoEvent}
  BY <1>1, <1>2
<1>5. SpoolTypeOK'
  BY <1>1, <1>3, <1>4 DEF SpoolInv, SpoolTypeOK
<1>6. \A t \in Slots : Busy(t)' => Busy(t) /\ recorder'[t] = recorder[t]
  BY <1>4 DEF Busy, NoEvent
<1>7. IdsAreUnique'
  BY <1>1, <1>6 DEF SpoolInv, IdsAreUnique
<1> QED BY <1>1, <1>5, <1>7, QuietYardStep DEF SpoolInv

-----------------------------------------------------------------------------
(* The sinks.  A sink moves on, imports records and acknowledges what has  *)
(* been imported.                                                          *)

LEMMA SinkStep ==
  ASSUME SpoolInv, UNCHANGED <<clock, sequence, slot, recorder, recorded>>,
         NEW k \in Sinks, NEW b \in Batches, sink' = [sink EXCEPT ![k] = b],
         b.events \cup b.incidents \subseteq recorded,
         events' \subseteq events, incidents' \subseteq incidents,
         \A r \in (events \cup incidents) \ (events' \cup incidents') : r.id \in imported,
         imported \subseteq imported', \A n \in imported' : \E r \in recorded : r.id = n,
         hostEvents' \subseteq recorded \cap EventRec,
         hostIncidents' \subseteq recorded \cap IncidentRec,
         b.pc \in {"ingested", "measured", "saved"} =>
            \A r \in b.events \cup b.incidents : r.id \in imported',
         OpenIncidentsKept'
  PROVE  SpoolInv'
<1>1. /\ clock' = clock /\ sequence' = sequence /\ slot' = slot /\ recorder' = recorder
      /\ recorded' = recorded
  OBVIOUS
<1>2. sink \in [Sinks -> Batches]
  BY DEF SpoolInv, SpoolTypeOK
<1>3. /\ sink' \in [Sinks -> Batches] /\ sink'[k] = b
      /\ \A j \in Sinks : j # k => sink'[j] = sink[j]
  BY <1>2
<1>4. SpoolTypeOK'
  BY <1>1, <1>3 DEF SpoolInv, SpoolTypeOK
<1>5. OnlyRecorded'
  <2>1. \A j \in Sinks : sink'[j].events \cup sink'[j].incidents \subseteq recorded
    BY <1>3 DEF SpoolInv, OnlyRecorded
  <2> QED BY <1>1, <2>1 DEF SpoolInv, OnlyRecorded
<1>6. IdsAreUnique'
  BY <1>1 DEF SpoolInv, IdsAreUnique, Busy
<1>7. BatchImported'
  BY <1>3 DEF SpoolInv, BatchImported
<1>8. NothingLost'
  BY <1>1 DEF SpoolInv, NothingLost
<1> QED BY <1>4, <1>5, <1>6, <1>7, <1>8 DEF SpoolInv

\* A sink that leaves the log of the host alone.
LEMMA QuietSinkStep ==
  ASSUME SpoolInv, UNCHANGED <<clock, sequence, slot, recorder, recorded>>,
         UNCHANGED <<hostEvents, hostIncidents, imported>>,
         NEW k \in Sinks, NEW b \in Batches, sink' = [sink EXCEPT ![k] = b],
         b.events \cup b.incidents \subseteq recorded,
         events' \subseteq events, incidents' \subseteq incidents,
         \A r \in (events \cup incidents) \ (events' \cup incidents') : r.id \in imported,
         b.pc \in {"ingested", "measured", "saved"} =>
            \A r \in b.events \cup b.incidents : r.id \in imported
  PROVE  SpoolInv'
<1>1. /\ recorded' = recorded /\ hostEvents' = hostEvents /\ hostIncidents' = hostIncidents
      /\ imported' = imported
  OBVIOUS
<1>2. OpenIncidentsKept'
  BY <1>1 DEF SpoolInv, OpenIncidentsKept, Resolved
<1>3. /\ \A n \in imported : \E r \in recorded : r.id = n
      /\ hostEvents \subseteq recorded \cap EventRec
      /\ hostIncidents \subseteq recorded \cap IncidentRec
  BY DEF SpoolInv, OnlyRecorded
<1>4. /\ imported \subseteq imported' /\ \A n \in imported' : \E r \in recorded : r.id = n
      /\ hostEvents' \subseteq recorded \cap EventRec
      /\ hostIncidents' \subseteq recorded \cap IncidentRec
      /\ b.pc \in {"ingested", "measured", "saved"} =>
            \A r \in b.events \cup b.incidents : r.id \in imported'
  BY <1>1, <1>3
<1> QED BY <1>2, <1>4, SinkStep

LEMMA BatchOf ==
  ASSUME SpoolInv, NEW k \in Sinks
  PROVE  /\ sink[k] \in Batches
         /\ sink[k].events \subseteq recorded \cap EventRec
         /\ sink[k].incidents \subseteq recorded \cap IncidentRec
<1>1. sink[k] \in Batches
  BY DEF SpoolInv, SpoolTypeOK
<1> QED BY <1>1 DEF SpoolInv, OnlyRecorded, Batches

LEMMA IdleBatch == /\ IdleSink \in Batches /\ IdleSink.pc = "idle"
                   /\ IdleSink.events = {} /\ IdleSink.incidents = {}
BY DEF IdleSink, Batches, SinkSteps

LEMMA OldestOf == \A n, S : Oldest(n, S) \subseteq S
BY DEF Oldest

LEMMA ExportPreserves ==
  ASSUME SpoolInv, NEW k \in Sinks, ExportEvents(k) \/ ExportIncidents(k)
  PROVE  SpoolInv'
<1>1. /\ UNCHANGED <<clock, sequence, slot, recorder, recorded>>
      /\ UNCHANGED <<hostEvents, hostIncidents, imported>>
      /\ events' = events /\ incidents' = incidents
  BY DEF ExportEvents, ExportIncidents, yardVars, hostVars
<1>2. /\ sink[k] \in Batches
      /\ sink[k].events \subseteq recorded \cap EventRec
      /\ sink[k].incidents \subseteq recorded \cap IncidentRec
      /\ events \subseteq recorded \cap EventRec /\ incidents \subseteq recorded \cap IncidentRec
  BY BatchOf DEF SpoolInv, OnlyRecorded
<1>3. CASE ExportEvents(k)
  <2> DEFINE batch == Oldest(MaxBatch, events)
             b == [sink[k] EXCEPT !.pc = "events", !.events = batch]
  <2>1. sink' = [sink EXCEPT ![k] = b]
    BY <1>3 DEF ExportEvents
  <2>2. batch \subseteq recorded \cap EventRec
    BY <1>2, OldestOf
  <2> HIDE DEF batch
  <2>3. /\ b \in Batches /\ b.pc = "events" /\ b.events = batch
        /\ b.incidents = sink[k].incidents
    BY <1>2, <2>2 DEF Batches, SinkSteps
  <2> HIDE DEF b
  <2> QED BY <1>1, <1>2, <2>1, <2>2, <2>3, QuietSinkStep
<1>4. CASE ExportIncidents(k)
  <2> DEFINE batch == Oldest(MaxBatch - Cardinality(sink[k].events), incidents)
             full == [sink[k] EXCEPT !.pc = "fetched", !.incidents = batch]
             b == IF sink[k].events \cup batch = {} THEN IdleSink ELSE full
  <2>1. sink' = [sink EXCEPT ![k] = b]
    BY <1>4 DEF ExportIncidents
  <2>2. batch \subseteq recorded \cap IncidentRec
    BY <1>2, OldestOf
  <2> HIDE DEF batch
  <2>3. /\ full \in Batches /\ full.pc = "fetched" /\ full.incidents = batch
        /\ full.events = sink[k].events
    BY <1>2, <2>2 DEF Batches, SinkSteps
  <2> HIDE DEF full
  <2>4. /\ b \in Batches /\ b.pc \in {"idle", "fetched"}
        /\ b.events \cup b.incidents \subseteq recorded
    BY <1>2, <2>2, <2>3, IdleBatch
  <2> HIDE DEF b
  <2> QED BY <1>1, <1>2, <2>1, <2>4, QuietSinkStep
<1> QED BY <1>3, <1>4

\* The rotation closes an incident on recorded events only.
LEMMA ClosedIsResolved ==
  ASSUME SpoolInv, NEW i \in IncidentRec, NEW stored, stored \subseteq recorded \cap EventRec,
         Closing(i, stored) # {}
  PROVE  Resolved(i)
<1>1. PICK e \in Closing(i, stored) : TRUE
  OBVIOUS
<1>2. /\ e \in stored
      /\ IF i.builder THEN e.kind = "cleaned" /\ e.inc = i.id
         ELSE e.kind = "available" /\ e.slot = i.slot /\ e.gen > i.gen
  BY <1>1 DEF Closing
<1>3. e \in recorded \ {i} /\ "kind" \in DOMAIN e
  BY <1>2, RecordShapes
<1> QED BY <1>2, <1>3 DEF Resolved

\* The rotation only removes, and removes no incident that is still open.
LEMMA RotationKeepsOpen ==
  ASSUME NEW kept, NEW stored
  PROVE  /\ rotateIncidents(kept, stored) \subseteq kept
         /\ \A i \in kept : Closing(i, stored) = {} => i \in rotateIncidents(kept, stored)
         /\ rotateEvents(stored, kept) \subseteq stored
BY DEF rotateIncidents, rotateEvents

\* Importing part of a batch, after which every incident is kept that was on
\* the host or in the part and is still open.
LEMMA ImportKeepsOpen ==
  ASSUME SpoolInv, recorded' = recorded, NEW part, part \subseteq recorded,
         imported' = imported \cup {r.id : r \in part},
         \A i \in hostIncidents \cup (part \cap IncidentRec) : Resolved(i) \/ i \in hostIncidents'
  PROVE  OpenIncidentsKept'
<1> SUFFICES ASSUME NEW i \in recorded, "builder" \in DOMAIN i, i.id \in imported', ~Resolved(i)
             PROVE  i \in hostIncidents'
  BY DEF OpenIncidentsKept, Resolved
<1>1. i \in IncidentRec
  BY RecordShapes DEF SpoolInv, OnlyRecorded
<1>2. CASE i.id \in imported
  BY <1>2 DEF SpoolInv, OpenIncidentsKept
<1>3. CASE i.id \notin imported
  <2>1. PICK r \in part : r.id = i.id
    BY <1>3
  <2>2. r = i
    BY <2>1 DEF SpoolInv, IdsAreUnique
  <2> QED BY <1>1, <2>1, <2>2
<1> QED BY <1>2, <1>3

LEMMA IngestPreserves ==
  ASSUME SpoolInv, NEW k \in Sinks, Ingest(k)
  PROVE  SpoolInv'
<1> DEFINE stored == hostEvents \cup sink[k].events
           all == hostIncidents \cup sink[k].incidents
           kept == rotateIncidents(all, stored)
           part == sink[k].events \cup sink[k].incidents
           b == [sink[k] EXCEPT !.pc = "ingested"]
<1>1. /\ UNCHANGED <<clock, sequence, slot, recorder, recorded>>
      /\ events' = events /\ incidents' = incidents /\ recorded' = recorded
      /\ hostIncidents' = kept /\ hostEvents' = rotateEvents(stored, kept)
      /\ imported' = imported \cup {r.id : r \in part}
      /\ sink' = [sink EXCEPT ![k] = b]
  BY DEF Ingest, yardVars, Moved
<1>2. /\ sink[k] \in Batches
      /\ sink[k].events \subseteq recorded \cap EventRec
      /\ sink[k].incidents \subseteq recorded \cap IncidentRec
      /\ hostEvents \subseteq recorded \cap EventRec
      /\ hostIncidents \subseteq recorded \cap IncidentRec
      /\ \A n \in imported : \E r \in recorded : r.id = n
  BY BatchOf DEF SpoolInv, OnlyRecorded
<1>3. /\ b \in Batches /\ b.events = sink[k].events /\ b.incidents = sink[k].incidents
  BY <1>2 DEF Batches, SinkSteps
<1>4. /\ stored \subseteq recorded \cap EventRec /\ all \subseteq recorded \cap IncidentRec
      /\ part \subseteq recorded /\ part \cap IncidentRec \subseteq all
  <2>1. EventRec \cap IncidentRec = {}
    BY RecordShapes
  <2> QED BY <1>2, <2>1
<1>5. \A i \in all : Resolved(i) \/ i \in kept
  BY <1>4, ClosedIsResolved, RotationKeepsOpen
<1>6. kept \subseteq all /\ rotateEvents(stored, kept) \subseteq stored
  BY RotationKeepsOpen
<1>7. \A i \in hostIncidents \cup (part \cap IncidentRec) : Resolved(i) \/ i \in kept
  BY <1>4, <1>5
<1> HIDE DEF kept, b, stored, part
<1>8. OpenIncidentsKept'
  BY <1>1, <1>4, <1>7, ImportKeepsOpen
<1>9. /\ hostEvents' \subseteq recorded \cap EventRec
      /\ hostIncidents' \subseteq recorded \cap IncidentRec
  BY <1>1, <1>4, <1>6
<1>10. /\ imported \subseteq imported' /\ \A n \in imported' : \E r \in recorded : r.id = n
       /\ \A r \in b.events \cup b.incidents : r.id \in imported'
       /\ b.events \cup b.incidents \subseteq recorded
  BY <1>1, <1>2, <1>3, <1>4 DEF part
<1> QED BY <1>1, <1>3, <1>8, <1>9, <1>10, SinkStep

\* The sink dies after it has written part of its batch.
LEMMA CrashIngestPreserves ==
  ASSUME SpoolInv, NEW k \in Sinks, CrashIngest(k)
  PROVE  SpoolInv'
<1>1. PICK n \in 0 .. MaxBatch :
         LET written == Oldest(n, sink[k].events)
             saved == Oldest(n - Cardinality(written), sink[k].incidents)
         IN  /\ hostEvents' = hostEvents \cup written
             /\ hostIncidents' = hostIncidents \cup saved
             /\ imported' = imported \cup {r.id : r \in written \cup saved}
  BY DEF CrashIngest
<1> DEFINE written == Oldest(n, sink[k].events)
           saved == Oldest(n - Cardinality(written), sink[k].incidents)
           part == written \cup saved
<1>2. /\ hostEvents' = hostEvents \cup written /\ hostIncidents' = hostIncidents \cup saved
      /\ imported' = imported \cup {r.id : r \in part}
  BY <1>1
<1>3. /\ UNCHANGED <<clock, sequence, slot, recorder, recorded>>
      /\ events' = events /\ incidents' = incidents /\ recorded' = recorded
      /\ sink' = [sink EXCEPT ![k] = IdleSink]
  BY DEF CrashIngest, yardVars
<1>4. written \subseteq sink[k].events /\ saved \subseteq sink[k].incidents
  BY OldestOf
<1>5. /\ sink[k].events \subseteq recorded \cap EventRec
      /\ sink[k].incidents \subseteq recorded \cap IncidentRec
      /\ hostEvents \subseteq recorded \cap EventRec
      /\ hostIncidents \subseteq recorded \cap IncidentRec
      /\ \A m \in imported : \E r \in recorded : r.id = m
  BY BatchOf DEF SpoolInv, OnlyRecorded
<1> HIDE DEF written, saved
<1>6. /\ written \subseteq recorded \cap EventRec /\ saved \subseteq recorded \cap IncidentRec
      /\ part \subseteq recorded /\ part \cap IncidentRec \subseteq saved
  <2>1. EventRec \cap IncidentRec = {}
    BY RecordShapes
  <2> QED BY <1>4, <1>5, <2>1
<1> HIDE DEF part
<1>7. OpenIncidentsKept'
  BY <1>2, <1>3, <1>6, ImportKeepsOpen
<1>8. /\ hostEvents' \subseteq recorded \cap EventRec
      /\ hostIncidents' \subseteq recorded \cap IncidentRec
      /\ imported \subseteq imported' /\ \A m \in imported' : \E r \in recorded : r.id = m
  BY <1>2, <1>5, <1>6
<1> QED BY <1>3, <1>7, <1>8, IdleBatch, SinkStep

\* Evidence.
LEMMA EvidencePreserves ==
  ASSUME SpoolInv, NEW k \in Sinks, Measure(k) \/ saveHostEvidence(k)
  PROVE  SpoolInv'
<1>1. /\ UNCHANGED <<clock, sequence, slot, recorder, recorded>>
      /\ UNCHANGED <<hostEvents, hostIncidents, imported>>
      /\ events' = events /\ incidents' = incidents
  BY DEF Measure, saveHostEvidence, yardVars, hostVars
<1>2. /\ sink[k] \in Batches /\ sink[k].pc \in {"ingested", "measured"}
      /\ sink[k].events \cup sink[k].incidents \subseteq recorded
      /\ sink[k].incidents \subseteq IncidentRec
  BY BatchOf DEF Measure, saveHostEvidence
<1>3. \A r \in sink[k].events \cup sink[k].incidents : r.id \in imported
  BY <1>2 DEF SpoolInv, BatchImported
<1>4. PICK b \in Batches : /\ sink' = [sink EXCEPT ![k] = b]
                           /\ b.events = sink[k].events /\ b.incidents = sink[k].incidents
  <2>1. CASE Measure(k)
    <3> DEFINE pending == {i.id : i \in sink[k].incidents} \ DOMAIN evidence
               b == [sink[k] EXCEPT !.pc = "measured", !.seen = clock, !.pending = pending]
    <3>1. sink' = [sink EXCEPT ![k] = b]
      BY <2>1 DEF Measure
    <3>2. pending \subseteq Nat
      BY <1>2, RecordShapes
    <3> HIDE DEF pending
    <3>3. clock \in Nat
      BY DEF SpoolInv, SpoolTypeOK
    <3>4. b \in Batches /\ b.events = sink[k].events /\ b.incidents = sink[k].incidents
      BY <1>2, <3>2, <3>3 DEF Batches, SinkSteps
    <3> QED BY <3>1, <3>4
  <2>2. CASE saveHostEvidence(k)
    <3> DEFINE b == [sink[k] EXCEPT !.pc = "saved"]
    <3>1. sink' = [sink EXCEPT ![k] = b]
      BY <2>2 DEF saveHostEvidence, Moved
    <3>2. b \in Batches /\ b.events = sink[k].events /\ b.incidents = sink[k].incidents
      BY <1>2 DEF Batches, SinkSteps
    <3> QED BY <3>1, <3>2
  <2> QED BY <2>1, <2>2
<1> QED BY <1>1, <1>2, <1>3, <1>4, QuietSinkStep

\* The acknowledgement, whole, in part or not at all.
LEMMA EndPreserves ==
  ASSUME SpoolInv, NEW k \in Sinks, Ack(k) \/ FailSync(k)
  PROVE  SpoolInv'
<1>1. /\ UNCHANGED <<clock, sequence, slot, recorder, recorded>>
      /\ UNCHANGED <<hostEvents, hostIncidents, imported>>
      /\ sink' = [sink EXCEPT ![k] = IdleSink]
      /\ \/ events' = events /\ incidents' = incidents
         \/ /\ sink[k].pc = "saved"
            /\ events' = events \ sink[k].events
            /\ incidents' \in {incidents, incidents \ sink[k].incidents}
  BY DEF Ack, FailSync, hostVars
<1>2. \A r \in (events \cup incidents) \ (events' \cup incidents') : r.id \in imported
  BY <1>1 DEF SpoolInv, BatchImported
<1>3. events' \subseteq events /\ incidents' \subseteq incidents
  BY <1>1
<1> QED BY <1>1, <1>2, <1>3, IdleBatch, QuietSinkStep

-----------------------------------------------------------------------------
(* The theorems.                                                           *)

LEMMA InitSpoolInv == Init => SpoolInv
<1> SUFFICES ASSUME Init PROVE SpoolInv
  OBVIOUS
<1>1. SpoolTypeOK
  <2>1. \A s \in Slots : [gen |-> 1, stage |-> "ok", inc |-> 0, built |-> 0] \in SlotRec
    BY DEF SlotRec, Stages
  <2>2. sink \in [Sinks -> Batches]
    BY IdleBatch DEF Init
  <2> QED BY <2>1, <2>2 DEF Init, SpoolTypeOK
<1>2. OnlyRecorded
  BY IdleBatch DEF Init, OnlyRecorded
<1>3. IdsAreUnique
  BY DEF Init, IdsAreUnique, Busy, NoEvent
<1>4. BatchImported
  BY IdleBatch DEF Init, BatchImported
<1> QED BY <1>1, <1>2, <1>3, <1>4 DEF SpoolInv, Init, NothingLost, OpenIncidentsKept

LEMMA NextSpoolInv == SpoolInv /\ [Next]_vars => SpoolInv'
<1> SUFFICES ASSUME SpoolInv, [Next]_vars PROVE SpoolInv'
  OBVIOUS
<1>1. ASSUME NEW s \in Slots, Handler(s)
      PROVE  SpoolInv'
  BY <1>1, StampPreserves, NumberPreserves, RecordPreserves, SavePreserves,
     HandlerEndPreserves DEF Handler
<1>2. ASSUME NEW k \in Sinks, Sync(k) \/ CrashIngest(k) \/ FailSync(k)
      PROVE  SpoolInv'
  BY <1>2, ExportPreserves, IngestPreserves, CrashIngestPreserves, EvidencePreserves,
     EndPreserves DEF Sync
<1>3. CASE UNCHANGED vars
  <2>1. UNCHANGED <<hostVars, sink, recorded, events, incidents>>
    BY <1>3 DEF vars, hostVars
  <2>2. SpoolTypeOK' /\ IdsAreUnique'
    BY <1>3 DEF vars, SpoolInv, SpoolTypeOK, IdsAreUnique, Busy
  <2> QED BY <2>1, <2>2, QuietYardStep DEF SpoolInv
<1> QED BY <1>1, <1>2, <1>3, TickPreserves DEF Next

\* Records in the spool, in batches and on the host are recorded ones, each
\* with a time of its own, and a batch is acknowledged after it was imported.
THEOREM SpoolInvariant == Spec => []SpoolInv
BY InitSpoolInv, NextSpoolInv, PTL DEF Spec

\* For any number of handlers and sinks, and wherever a handler, a sink or a
\* call fails: what has left the spool has been written on the host (Ack in
\* events.go, Sync in host_sink.go).
THEOREM NoRecordIsLost == Spec => []NothingLost
BY SpoolInvariant, PTL DEF SpoolInv

\* However old or numerous incidents become, and in whatever parts and order
\* batches arrive: the host keeps every incident that the yard has not recorded
\* as resolved (rotateIncidents).
THEOREM OpenIncidentsStay == Spec => []OpenIncidentsKept
BY SpoolInvariant, PTL DEF SpoolInv

\* Evidence that was taken of the host is left in place by every later sync,
\* also by one that measured before the evidence was written (saveHostEvidence).
THEOREM EvidenceIsTakenOnce == Spec => FirstEvidenceKept
<1>1. ASSUME [Next]_vars, NEW i \in DOMAIN evidence \cap DOMAIN evidence'
      PROVE  evidence'[i] = evidence[i]
  <2>1. CASE \E k \in Sinks : Ingest(k)
    BY <1>1, <2>1 DEF Ingest
  <2>2. CASE \E k \in Sinks : saveHostEvidence(k)
    BY <1>1, <2>2 DEF saveHostEvidence
  <2>3. CASE evidence' = evidence
    BY <2>3
  <2> QED BY <1>1, <2>1, <2>2, <2>3
          DEF Next, Tick, Handler, Stamp, nextSequence, Record, RefuseRecord, SaveIncident,
              FinishRecovery, CrashRecorder, Sync, ExportEvents, ExportIncidents, Measure, Ack, CrashIngest,
              FailSync, hostVars, vars
<1>2. [Next]_vars => [\A i \in DOMAIN evidence \cap DOMAIN evidence' :
                         evidence'[i] = evidence[i]]_vars
  BY <1>1
<1> QED BY <1>2, PTL DEF Spec, FirstEvidenceKept
=============================================================================
