--------------------------- MODULE AcquireSession ---------------------------
(***************************************************************************)
(* The hand-over of a freshly provisioned lease to the client that asked   *)
(* for it (acquire_session.go, the acquire-v4 request of facade.go).       *)
(*                                                                         *)
(* The worker has three goroutines: one reads frames from the client, one  *)
(* controls the session (heartbeat deadline, a look at the store every     *)
(* second, the acknowledgement), and the main one provisions, announces    *)
(* the grant, waits for the acknowledgement and cleans up when there is    *)
(* none.  The client reads replies, sends frames and learns in the end how *)
(* the worker exited.  Meanwhile the lease may expire or be released by    *)
(* others, and either side may die.                                        *)
(***************************************************************************)
EXTENDS Naturals, Sequences

CONSTANTS
    MaxPipe   \* bound: frames that wait in the pipe

ASSUME SessionAssumption == MaxPipe \in Nat \ {0}

VARIABLES
    slot,       \* state of the slot, for the lease of this session
    owner,      \* AcquireOwner is recorded in the slot
    main,       \* where the main goroutine is
    code,       \* exit code of the worker, once it has one
    cancelled,  \* the session's context is done
    ready, ack, \* the two channels have been closed
    control,    \* the control goroutine: "loop" or "done"
    reader,     \* the reader: "scan", the frame that it offers, or "closed"
    late,       \* the heartbeat deadline has fired
    pipe, eof,  \* frames from the client, and whether its end is closed
    reply,      \* the last reply of the worker
    client,     \* where the client is
    handedOff,  \* the session was handed off
    cause       \* why the control goroutine cancelled the session

workerVars == <<main, code, cancelled, ready, ack, control, reader, late, handedOff, cause>>
vars == <<slot, owner, main, code, cancelled, ready, ack, control, reader, late, pipe,
          eof, reply, client, handedOff, cause>>

Live == {"provisioning", "held"}
Gone == {"dead", "exited"}

\* The slot was acquired, the worker recorded as its owner and the reservation
\* announced.
Init ==
    /\ slot = "provisioning" /\ owner = TRUE
    /\ main = "provision" /\ code = 0 /\ cancelled = FALSE
    /\ ready = FALSE /\ ack = FALSE
    /\ control = "loop" /\ reader = "scan" /\ late = FALSE
    /\ pipe = << >> /\ eof = FALSE
    /\ reply = "reserved" /\ client = "waiting"
    /\ handedOff = FALSE /\ cause = "none"

-----------------------------------------------------------------------------
(* The main goroutine (Facade.Run, handoff, close).                        *)

Main(from, to) == main = from /\ main' = to
LeaveClient == UNCHANGED <<pipe, eof, client>>
LeaveOthers == UNCHANGED <<control, reader, late, cause>>

\* OnAcquire ends with MarkHeld.
Provisioned ==
    /\ Main("provision", "record") /\ slot = "provisioning"
    /\ slot' = "held"
    /\ UNCHANGED <<owner, code, cancelled, ready, ack, reply, handedOff>>
    /\ LeaveOthers /\ LeaveClient

\* OnAcquire fails: refused by admission, cancelled, or for another reason that
\* puts the slot in quarantine.
ProvisionFails ==
    /\ Main("provision", "close")
    /\ \/ /\ slot = "provisioning"
          /\ slot' = "available" /\ reply' = "refused"
       \/ /\ cancelled \/ slot = "draining"
          /\ reply' = "cancelled" /\ UNCHANGED slot
       \/ /\ ~cancelled /\ slot # "draining"
          /\ slot' = IF slot = "provisioning" THEN "quarantined" ELSE slot
          /\ reply' = "failed"
    /\ UNCHANGED <<owner, code, cancelled, ready, ack, handedOff>>
    /\ LeaveOthers /\ LeaveClient

\* The owner is taken out of the slot as soon as the machines are there.
FaultClearsOwner ==
    /\ Main("record", "write") /\ ready' = TRUE /\ owner' = FALSE
    /\ UNCHANGED <<slot, reply, code, cancelled, ack, handedOff>>
    /\ LeaveOthers /\ LeaveClient

\* The event is recorded and the session is ready, or the slot is quarantined.
RecordHeld ==
    /\ \/ Main("record", "write") /\ ready' = TRUE /\ UNCHANGED <<slot, reply>>
       \/ /\ Main("record", "close")
          /\ slot' = IF slot = "held" THEN "quarantined" ELSE slot
          /\ reply' = "failed" /\ UNCHANGED ready
    /\ UNCHANGED <<owner, code, cancelled, ack, handedOff>>
    /\ LeaveOthers /\ LeaveClient

\* The ready grant is written; the client may be gone.
WriteGrant ==
    /\ \/ Main("write", "handoff") /\ reply' = "ok" /\ UNCHANGED code
       \/ Main("write", "close") /\ client = "gone" /\ code' = 1 /\ UNCHANGED reply
    /\ UNCHANGED <<slot, owner, cancelled, ready, ack, handedOff>>
    /\ LeaveOthers /\ LeaveClient

\* Only the acknowledgement is awaited.
FaultAwaitAck ==
    /\ Main("handoff", "commit") /\ ack
    /\ UNCHANGED <<slot, owner, code, cancelled, ready, ack, reply, handedOff>>
    /\ LeaveOthers /\ LeaveClient

\* When both channels are ready, either may be chosen.
AwaitAck ==
    /\ \/ Main("handoff", "close") /\ cancelled /\ code' = 1
       \/ Main("handoff", "commit") /\ ack /\ UNCHANGED code
    /\ UNCHANGED <<slot, owner, cancelled, ready, ack, reply, handedOff>>
    /\ LeaveOthers /\ LeaveClient

\* The owner is left in the slot.
FaultCommitHandoff ==
    /\ Main("commit", "close")
    /\ handedOff' = TRUE
    /\ UNCHANGED <<slot, owner, code, cancelled, ready, ack, reply>>
    /\ LeaveOthers /\ LeaveClient

\* From here on the lease outlives its worker.
CommitHandoff ==
    /\ Main("commit", "close")
    /\ IF slot = "held"
       THEN owner' = FALSE /\ handedOff' = TRUE /\ UNCHANGED code
       ELSE code' = 1 /\ UNCHANGED <<owner, handedOff>>
    /\ UNCHANGED <<slot, cancelled, ready, ack, reply>>
    /\ LeaveOthers /\ LeaveClient

\* A lease that was not handed off is released, unless it is gone already.
Close ==
    /\ main = "close"
    /\ cancelled' = TRUE
    /\ main' = IF handedOff \/ slot \notin {"provisioning", "held", "draining"}
               THEN "exited" ELSE "release"
    /\ UNCHANGED <<slot, owner, code, ready, ack, reply, handedOff>>
    /\ LeaveOthers /\ LeaveClient

\* OnRelease drains, cleans up and frees the slot, or fails.
Release ==
    /\ Main("release", "exited")
    /\ \/ slot' = "available" /\ UNCHANGED code
       \/ slot' \in {"draining", "quarantined"} /\ code' = 1
    /\ owner' = (owner /\ slot' # "available")
    /\ UNCHANGED <<cancelled, ready, ack, reply, handedOff>>
    /\ LeaveOthers /\ LeaveClient

MainStep ==
    \/ Provisioned \/ ProvisionFails \/ RecordHeld \/ WriteGrant \/ AwaitAck
    \/ CommitHandoff \/ Close \/ Release

\* The worker is told to stop (the context of the request ends), or dies.
WorkerStopped ==
    /\ main \notin Gone /\ ~cancelled
    /\ cancelled' = TRUE
    /\ UNCHANGED <<slot, owner, main, code, ready, ack, control, reader, late, pipe, eof,
                   reply, client, handedOff, cause>>

WorkerDies ==
    /\ main \notin Gone
    /\ main' = "dead" /\ code' = 1
    /\ control' = "done" /\ reader' = "closed"
    /\ UNCHANGED <<slot, owner, cancelled, ready, ack, late, pipe, eof, reply, client,
                   handedOff, cause>>

-----------------------------------------------------------------------------
(* The reader and the control goroutine.                                   *)

Running == main \notin Gone
OnlyControl == UNCHANGED <<slot, owner, main, code, ready, pipe, eof, reply, client,
                           handedOff>>

Scan ==
    /\ Running /\ reader = "scan"
    /\ \/ pipe # << >> /\ reader' = Head(pipe) /\ pipe' = Tail(pipe)
       \/ pipe = << >> /\ eof /\ reader' = "closed" /\ UNCHANGED pipe
    /\ UNCHANGED <<slot, owner, main, code, cancelled, ready, ack, control, late, eof,
                   reply, client, handedOff, cause>>

\* cancel of the context, with a cause.
Cancel(why) ==
    /\ control' = "done" /\ cancelled' = TRUE
    /\ cause' = IF cancelled THEN cause ELSE why

TakeFrame ==
    /\ Running /\ control = "loop" /\ reader \in {"ack", "keepalive", "other"}
    /\ reader' = "scan"
    /\ \/ /\ reader = "ack" /\ ready
          /\ ack' = TRUE /\ control' = "done"
          /\ UNCHANGED <<cancelled, cause, late>>
       \/ reader = "ack" /\ ~ready /\ Cancel("premature") /\ UNCHANGED <<ack, late>>
       \/ reader = "other" /\ Cancel("invalid") /\ UNCHANGED <<ack, late>>
       \/ reader = "keepalive" /\ late' = FALSE /\ UNCHANGED <<ack, control, cancelled, cause>>
    /\ OnlyControl

\* The context, the deadline, the end of the input, and the look at the store.
EndSession ==
    /\ Running /\ control = "loop"
    /\ \/ cancelled /\ control' = "done" /\ UNCHANGED <<cancelled, cause>>
       \/ late /\ Cancel("heartbeat")
       \/ reader = "closed" /\ Cancel("eof")
       \/ slot \notin Live /\ Cancel("lease")
    /\ UNCHANGED <<reader, ack, late>>
    /\ OnlyControl

\* Fifteen seconds without a keepalive.
DeadlinePasses ==
    /\ Running /\ control = "loop" /\ ~late
    /\ late' = TRUE
    /\ UNCHANGED <<slot, owner, main, code, cancelled, ready, ack, control, reader, pipe,
                   eof, reply, client, handedOff, cause>>

-----------------------------------------------------------------------------
(* The client (dev/agent-e2e.sh) and the store.                            *)

Present == client \in {"waiting", "validating", "acked"}
OnlyClient == UNCHANGED <<slot, owner, workerVars, reply>>

SendKeepalive ==
    /\ client \in {"waiting", "validating"} /\ ~eof /\ Len(pipe) < MaxPipe
    /\ pipe' = Append(pipe, "keepalive")
    /\ UNCHANGED <<eof, client>> /\ OnlyClient

\* The grant arrives.  It is validated and acknowledged; the input ends there.
ReadGrant ==
    /\ client = "waiting" /\ reply = "ok"
    /\ client' = "validating"
    /\ UNCHANGED <<pipe, eof>> /\ OnlyClient

SendAck ==
    /\ client = "validating" /\ Len(pipe) < MaxPipe
    /\ pipe' = Append(pipe, "ack") /\ eof' = TRUE
    /\ client' = "acked"
    /\ OnlyClient

\* Only a worker that ended well has handed the lease over.
ObserveExit ==
    /\ Present /\ main \in Gone
    /\ client' = IF client = "acked" /\ main = "exited" /\ code = 0 THEN "using" ELSE "gone"
    /\ eof' = TRUE /\ UNCHANGED pipe /\ OnlyClient

\* A frame that is none, the end of a transport, or the death of the client.
Garbage ==
    /\ client = "waiting" /\ ~eof /\ Len(pipe) < MaxPipe
    /\ pipe' = Append(pipe, "other")
    /\ UNCHANGED <<eof, client>> /\ OnlyClient

ClientGone ==
    /\ client # "gone"
    /\ client' = "gone" /\ eof' = TRUE
    /\ UNCHANGED pipe /\ OnlyClient

\* expireStale, for a lease that runs out (its client keeps it alive as long as
\* the renewals arrive) and for a worker that is gone.
LeaseExpires ==
    /\ slot \in Live
    /\ slot' = "draining"
    /\ UNCHANGED <<owner, workerVars, pipe, eof, reply, client>>

\* Only leases whose machines are still being made are looked at.
FaultOwnerLost ==
    /\ slot = "provisioning" /\ owner /\ main \in Gone
    /\ slot' = "draining"
    /\ UNCHANGED <<owner, workerVars, pipe, eof, reply, client>>

OwnerLost ==
    /\ slot \in Live /\ owner /\ main \in Gone
    /\ slot' = "draining"
    /\ UNCHANGED <<owner, workerVars, pipe, eof, reply, client>>

\* Cleanup by others waits for the lifecycle lock, which the worker holds while
\* it provisions and while it releases.
CleanUp ==
    /\ slot = "draining" /\ main \notin {"provision", "release"}
    /\ slot' \in {"available", "quarantined"}
    /\ owner' = (owner /\ slot' # "available")
    /\ UNCHANGED <<workerVars, pipe, eof, reply, client>>

\* The next lease: another epoch, of no concern to this session.
NextLease ==
    /\ slot = "available"
    /\ slot' = "next"
    /\ UNCHANGED <<owner, workerVars, pipe, eof, reply, client>>

Next ==
    \/ MainStep \/ WorkerStopped \/ WorkerDies
    \/ Scan \/ TakeFrame \/ EndSession \/ DeadlinePasses
    \/ SendKeepalive \/ ReadGrant \/ SendAck \/ ObserveExit \/ Garbage \/ ClientGone
    \/ LeaseExpires \/ OwnerLost \/ CleanUp \/ NextLease

Spec == Init /\ [][Next]_vars

\* The goroutines run, time passes, and the reaper finds the leases that nobody
\* renews (renewals start with the acknowledgement) or that lost their worker.
\* Nothing is assumed of the client.
FairSpec ==
    /\ Spec /\ WF_vars(MainStep) /\ WF_vars(Scan) /\ WF_vars(TakeFrame)
    /\ WF_vars(EndSession) /\ WF_vars(DeadlinePasses)
    /\ WF_vars(LeaseExpires /\ client \notin {"acked", "using"})
    /\ WF_vars(OwnerLost) /\ WF_vars(CleanUp)

-----------------------------------------------------------------------------
(* Properties.                                                             *)

\* A client that takes the lease for its own has it: the worker handed it off, and
\* no worker is recorded any more whose end would revoke it.
UsedLeaseIsHandedOff == client = "using" => handedOff /\ ~owner

\* A session that ends without a hand-over leaves no lease behind that nobody
\* owns: the slot of every worker that is gone is handed off, on its way to
\* cleanup, or still carries the worker that the reaper will miss.
NoAbandonedLease ==
    main \in Gone /\ slot \in Live => handedOff \/ owner

\* The worker does not wait for ever: silence, garbage, the loss of the lease and
\* the end of the client all end the session (newAcquireSession, handoff).
SessionEnds == main = "provision" ~> main \in Gone

\* A lease that is being acquired ends up with its client or is given up, whatever
\* the client does and wherever the worker dies (expireStale, close).
HandedOverOrReclaimed == slot \in Live /\ ~handedOff ~> handedOff \/ slot \notin Live
=============================================================================
