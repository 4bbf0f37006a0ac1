------------------------ MODULE AcquireSessionProofs ------------------------
(***************************************************************************)
(* The safety properties of the acquire session, for pipes of any length.  *)
(*                                                                         *)
(* SessionInv ties what the client knows to what the worker has done: a    *)
(* client that read the grant read it after the session was ready, and a   *)
(* worker that exits well after having announced the grant handed it off.  *)
(***************************************************************************)
EXTENDS AcquireSession, SequenceTheorems, TLAPS

Frames == {"ack", "keepalive", "other"}

\* The types that the argument needs.
ChannelsOK ==
    /\ pipe \in Seq(Frames)
    /\ reader \in Frames \cup {"scan", "closed"}
    /\ owner \in BOOLEAN /\ handedOff \in BOOLEAN /\ ready \in BOOLEAN

\* A frame that acknowledges is on its way only after the session is ready.
AckAfterReady ==
    /\ (\E i \in 1..Len(pipe) : pipe[i] = "ack") => ready
    /\ reader = "ack" => ready
    /\ cause # "premature"

\* The grant is announced when the session is ready, and from then on the
\* worker ends well only through the hand-over.
GrantAnnounced ==
    /\ main = "write" => ready
    /\ reply = "ok" => ready /\ main \notin {"provision", "record", "write"}
    /\ reply = "ok" /\ main \in {"close", "release", "exited"} => code = 1 \/ handedOff

\* The client knows of the grant what it was told.
ClientKnows ==
    /\ client \in {"validating", "acked", "using"} => reply = "ok"
    /\ client = "using" => handedOff

\* The owner leaves the slot only with the hand-over or with the lease.
OwnerLeaves ==
    /\ handedOff => ~owner
    /\ slot \in Live => owner \/ handedOff

SessionInv == ChannelsOK /\ AckAfterReady /\ GrantAnnounced /\ ClientKnows /\ OwnerLeaves

-----------------------------------------------------------------------------

\* Init satisfies the invariant.
LEMMA SessionInit == Init => SessionInv
<1> SUFFICES ASSUME Init PROVE SessionInv
    OBVIOUS
<1>1. ChannelsOK
  <2>1. pipe \in Seq(Frames) /\ reader \in Frames \cup {"scan", "closed"}
    BY EmptySeq DEF Init
  <2>2. owner \in BOOLEAN /\ handedOff \in BOOLEAN /\ ready \in BOOLEAN
    BY DEF Init
  <2> QED BY <2>1, <2>2 DEF ChannelsOK
<1>2. AckAfterReady
  BY DEF Init, AckAfterReady
<1> QED BY <1>1, <1>2 DEF Init, SessionInv, GrantAnnounced, ClientKnows, OwnerLeaves, Live

\* Every step of the main goroutine preserves it.
LEMMA MainPreserves == SessionInv /\ MainStep => SessionInv'
<1> SUFFICES ASSUME SessionInv, MainStep PROVE SessionInv'
    OBVIOUS
<1> USE DEF SessionInv, ChannelsOK, AckAfterReady, GrantAnnounced, ClientKnows, OwnerLeaves,
            Frames, Live, Main, LeaveOthers, LeaveClient
<1>1. CASE Provisioned BY <1>1 DEF Provisioned
<1>2. CASE ProvisionFails BY <1>2 DEF ProvisionFails
<1>3. CASE RecordHeld BY <1>3 DEF RecordHeld
<1>4. CASE WriteGrant BY <1>4 DEF WriteGrant
<1>5. CASE AwaitAck BY <1>5 DEF AwaitAck
<1>6. CASE CommitHandoff BY <1>6 DEF CommitHandoff
<1>7. CASE Close BY <1>7 DEF Close
<1>8. CASE Release BY <1>8 DEF Release
<1> QED BY <1>1, <1>2, <1>3, <1>4, <1>5, <1>6, <1>7, <1>8 DEF MainStep

\* The reader takes frames out of the pipe, and does not make any.
LEMMA ScanPreserves == SessionInv /\ Scan => SessionInv'
<1> SUFFICES ASSUME SessionInv, Scan PROVE SessionInv'
    OBVIOUS
<1> USE DEF SessionInv, ChannelsOK, Frames
<1>1. CASE pipe = << >>
  BY <1>1 DEF Scan, AckAfterReady, GrantAnnounced, ClientKnows, OwnerLeaves, Live
<1>2. CASE pipe # << >>
  <2>1. pipe \in Seq(Frames) /\ Len(pipe) > 0 /\ pipe' = Tail(pipe) /\ reader' = Head(pipe)
    BY <1>2 DEF Scan
  <2>2. /\ pipe' \in Seq(Frames) /\ Len(pipe') = Len(pipe) - 1
        /\ \A i \in 1..Len(pipe') : pipe'[i] = pipe[i + 1]
    BY <1>2, <2>1
  <2>3. reader' = pipe[1] /\ reader' \in Frames
    BY <1>2, <2>1
  <2>4. ChannelsOK'
    BY <2>2, <2>3 DEF Scan
  <2>5. AckAfterReady'
    <3>1. ready' = ready /\ cause' = cause
      BY DEF Scan
    <3>2. ASSUME NEW i \in 1..Len(pipe'), pipe'[i] = "ack" PROVE ready
      <4>1. Len(pipe) \in Nat /\ i + 1 \in 1..Len(pipe) /\ pipe[i + 1] = "ack"
        BY <2>1, <2>2, <3>2
      <4> QED BY <4>1 DEF AckAfterReady
    <3>3. reader' = "ack" => ready
      BY <2>1, <2>3 DEF AckAfterReady
    <3> QED BY <3>1, <3>2, <3>3 DEF AckAfterReady
  <2>6. UNCHANGED <<slot, owner, main, code, ready, reply, client, handedOff>>
    BY DEF Scan
  <2>7. GrantAnnounced' /\ ClientKnows' /\ OwnerLeaves'
    BY <2>6 DEF GrantAnnounced, ClientKnows, OwnerLeaves, Live
  <2> QED BY <2>4, <2>5, <2>7
<1> QED BY <1>1, <1>2

\* So does the control goroutine: an acknowledgement is never early.
LEMMA ControlPreserves == SessionInv /\ (TakeFrame \/ EndSession) => SessionInv'
<1> USE DEF SessionInv, ChannelsOK, AckAfterReady, GrantAnnounced, ClientKnows, OwnerLeaves,
            Frames, Live, Cancel, OnlyControl
<1>1. SessionInv /\ TakeFrame => SessionInv' BY DEF TakeFrame
<1>2. SessionInv /\ EndSession => SessionInv' BY DEF EndSession
<1> QED BY <1>1, <1>2

\* A frame that is appended is an acknowledgement only after the grant was read.
LEMMA SendPreserves == SessionInv /\ (SendKeepalive \/ Garbage \/ SendAck) => SessionInv'
<1> SUFFICES ASSUME SessionInv, NEW f \in Frames, pipe' = Append(pipe, f),
                    f = "ack" => client = "validating",
                    client' = client \/ (client = "validating" /\ client' = "acked"),
                    OnlyClient
             PROVE SessionInv'
    BY DEF SendKeepalive, Garbage, SendAck, Frames
<1> USE DEF SessionInv, ChannelsOK
<1>1. pipe' \in Seq(Frames) /\ Len(pipe') = Len(pipe) + 1 /\ pipe'[Len(pipe) + 1] = f
      /\ \A i \in 1..Len(pipe) : pipe'[i] = pipe[i]
  OBVIOUS
<1>2. f = "ack" => ready
  BY DEF ClientKnows, GrantAnnounced
<1>3. AckAfterReady'
  BY <1>1, <1>2 DEF AckAfterReady, OnlyClient, workerVars
<1> QED BY <1>1, <1>3 DEF GrantAnnounced, ClientKnows, OwnerLeaves, OnlyClient, workerVars, Live

\* The remaining steps: the client, deaths, deadlines and the store.
LEMMA RestPreserves ==
    SessionInv /\ ( WorkerStopped \/ WorkerDies \/ DeadlinePasses \/ ReadGrant \/ ObserveExit
                    \/ ClientGone \/ LeaseExpires \/ OwnerLost \/ CleanUp \/ NextLease )
      => SessionInv'
<1> SUFFICES ASSUME SessionInv,
                    WorkerStopped \/ WorkerDies \/ DeadlinePasses \/ ReadGrant \/ ObserveExit
                    \/ ClientGone \/ LeaseExpires \/ OwnerLost \/ CleanUp \/ NextLease
             PROVE SessionInv'
    OBVIOUS
<1> USE DEF SessionInv, ChannelsOK, AckAfterReady, GrantAnnounced, ClientKnows, OwnerLeaves,
            Frames, Live, Gone, OnlyClient, workerVars
<1>1. CASE WorkerStopped BY <1>1 DEF WorkerStopped
<1>2. CASE WorkerDies BY <1>2 DEF WorkerDies
<1>3. CASE DeadlinePasses BY <1>3 DEF DeadlinePasses
<1>4. CASE ReadGrant BY <1>4 DEF ReadGrant
<1>5. CASE ObserveExit BY <1>5 DEF ObserveExit, Present
<1>6. CASE ClientGone BY <1>6 DEF ClientGone
<1>7. CASE LeaseExpires BY <1>7 DEF LeaseExpires
<1>8. CASE OwnerLost BY <1>8 DEF OwnerLost
<1>9. CASE CleanUp BY <1>9 DEF CleanUp
<1>10. CASE NextLease BY <1>10 DEF NextLease
<1> QED BY <1>1, <1>2, <1>3, <1>4, <1>5, <1>6, <1>7, <1>8, <1>9, <1>10

\* SessionInv holds in every reachable state (Facade.Run acquire-v4, handoff, close).
THEOREM SessionInvariant == Spec => []SessionInv
<1>1. SessionInv /\ [Next]_vars => SessionInv'
  <2>1. CASE UNCHANGED vars
    BY <2>1 DEF vars, SessionInv, ChannelsOK, AckAfterReady, GrantAnnounced, ClientKnows,
                OwnerLeaves
  <2>2. CASE Next
    BY <2>2, MainPreserves, ScanPreserves, ControlPreserves, SendPreserves, RestPreserves
       DEF Next
  <2> QED BY <2>1, <2>2
<1> QED BY <1>1, SessionInit, PTL DEF Spec

\* A client that uses the lease has it: handoff was committed and its worker is
\* no longer the owner whose death would revoke it.
THEOREM UsedLeasesAreHandedOff == Spec => []UsedLeaseIsHandedOff
<1>1. SessionInv => UsedLeaseIsHandedOff
  BY DEF SessionInv, ClientKnows, OwnerLeaves, UsedLeaseIsHandedOff
<1> QED BY <1>1, SessionInvariant, PTL

\* A worker that is gone leaves no live lease that nobody has.
THEOREM LeasesAreNotAbandoned == Spec => []NoAbandonedLease
<1>1. SessionInv => NoAbandonedLease
  BY DEF SessionInv, OwnerLeaves, NoAbandonedLease
<1> QED BY <1>1, SessionInvariant, PTL
=============================================================================
