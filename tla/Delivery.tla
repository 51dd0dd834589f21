------------------------------- MODULE Delivery -------------------------------
(***************************************************************************)
(* How a device learns of a ready transfer: the hubs of PresenceHub        *)
(* composed with the replica that confirms the upload and publishes        *)
(* transfer.ready, the outbox worker that asks Redis whether the device is *)
(* online before it pushes, and the app of the device.  The app lists its  *)
(* transfers when it starts, after it has asked for a connection and at    *)
(* every event it reads; it dials again when its connection ends, without  *)
(* listing.                                                                *)
(***************************************************************************)
EXTENDS PresenceHub, Naturals

CONSTANT MaxFaults  \* bound on broken connections, stopped processes and Redis outages

ASSUME DeliveryAssumption == MaxFaults \in Nat /\ None \notin {"reached", "missed"}

VARIABLES event,   \* of the transfer: None before it is ready, the replica that
                   \* is about to publish it, or whether it reached a connection
          row,     \* outbox row: none, pending, skipped (online) or pushed
          app,     \* stopped, receiving (its first listing), or running
          due,     \* the running app is about to list
          socket,  \* the connection it reads from
          seen,    \* it has listed the ready transfer, failed to, or not tried
          owed,    \* connections that the published event must still reach
          faults

vars == <<hubVars, event, row, app, due, socket, seen, owed, faults>>

TypeOK ==
    /\ HubTypeOK
    /\ event \in Replicas \cup {None, "reached", "missed"}
    /\ row \in {"none", "pending", "skipped", "pushed"}
    /\ app \in {"stopped", "receiving", "running"}
    /\ due \in BOOLEAN
    /\ socket \in Sockets \cup {None}
    /\ seen \in {"no", "failed", "yes"}
    /\ owed \subseteq Sockets
    /\ faults \in 0..MaxFaults
    /\ event = None <=> row = "none"

Init ==
    /\ HubInit
    /\ event = None /\ row = "none"
    /\ app = "stopped" /\ due = FALSE /\ socket = None
    /\ seen = "no" /\ owed = {}
    /\ faults = 0

Fault == faults < MaxFaults /\ faults' = faults + 1

-----------------------------------------------------------------------------
\* The server.

\* Service.MarkUploaded on replica h: the status and the outbox row commit
\* together; ...
MarkReady(h) ==
    /\ event = None /\ ear[h] # "down"
    /\ event' = h /\ row' = "pending"
    /\ UNCHANGED <<hubVars, app, due, socket, seen, owed, faults>>

\* ... then transfer.ready is published to the destination device.
PublishReady(h) ==
    /\ event = h
    /\ Publish(h, "ready")
    /\ owed' = {s \in Sockets : /\ link[s] /\ conn[s] \in Registered
                                /\ IF redis THEN ear[home[s]] = "listening" ELSE home[s] = h}
    /\ event' = IF owed' = {} THEN "missed" ELSE "reached"
    /\ UNCHANGED <<conn, home, link, refresher, fresh, mark, redis, ear, row, app, due, socket, seen, faults>>

\* OfflineOnlySender.Send: skipped if Redis says that the device is online.
Send ==
    /\ row = "pending"
    /\ row' = IF redis /\ mark THEN "skipped" ELSE "pushed"
    /\ UNCHANGED <<hubVars, event, app, due, socket, seen, owed, faults>>

-----------------------------------------------------------------------------
\* The app.

AppStart ==
    /\ app = "stopped" /\ app' = "receiving"
    /\ UNCHANGED <<hubVars, event, row, due, socket, seen, owed, faults>>

\* The process is killed or the user signs out.
AppStop ==
    /\ app # "stopped" /\ app' = "stopped"
    /\ Fault
    /\ BreakLinks({socket})
    /\ socket' = None /\ due' = FALSE /\ owed' = owed \ {socket}
    /\ UNCHANGED <<conn, home, refresher, mark, redis, ear, inbox, event, row, seen>>

\* A request for the transfers, which may fail; no failure is retried.
List ==
    seen' \in IF event = None \/ seen = "yes" THEN {seen} ELSE {"yes", "failed"}

\* receivePendingItems of prepareAuthenticatedSession, before it connects.
Receive ==
    /\ app = "receiving" /\ app' = "running"
    /\ List /\ due' = TRUE
    /\ UNCHANGED <<hubVars, event, row, socket, owed, faults>>

\* reload
Reload ==
    /\ due /\ due' = FALSE
    /\ List
    /\ UNCHANGED <<hubVars, event, row, app, socket, owed, faults>>

\* startRealtime, connectRealtime: the first connection, or the next one.
Connect(s, h) ==
    /\ app = "running" /\ (socket # None => ~link[socket])
    /\ Dial(s, h)
    /\ socket' = s
    /\ UNCHANGED <<event, row, app, due, seen, owed, faults>>

\* Mutant: the app lists only for transfer.ready.
ReadEventSelectively(e) ==
    /\ socket # None /\ Read(socket, e)
    /\ due' = (due \/ e = "ready")
    /\ owed' = IF e = "ready" THEN owed \ {socket} ELSE owed
    /\ UNCHANGED <<event, row, app, socket, seen, faults>>

\* Every event leads to a listing.
ReadEvent(e) ==
    /\ socket # None /\ Read(socket, e)
    /\ due' = TRUE
    /\ owed' = IF e = "ready" THEN owed \ {socket} ELSE owed
    /\ UNCHANGED <<event, row, app, socket, seen, faults>>

AppStep ==
    \/ Receive \/ Reload
    \/ \E e \in Events : ReadEvent(e)
    \/ \E s \in Sockets, h \in Replicas : Connect(s, h)

-----------------------------------------------------------------------------
\* The hubs, and what their steps do to the transfer's event.

HubStep ==
    /\ \/ \E s \in Sockets : Serve(s) \/ Refresher(s)
       \/ \E h \in Replicas : Replica(h)
       \/ Expire \/ RedisUp
    /\ UNCHANGED <<event, row, app, due, socket, seen, owed, faults>>

Break ==
    /\ Fault
    /\ \/ \E s \in Sockets : Drop(s)
       \/ \E h \in Replicas : Shutdown(h)
    /\ owed' = {s \in owed : link'[s]}
    /\ UNCHANGED <<event, row, app, due, socket, seen>>

\* A replica that is shutting down ends without another fault.
ReplicaExit(h) ==
    /\ Exit(h)
    /\ IF ear[h] = "leaving" THEN UNCHANGED faults ELSE Fault
    /\ event' = IF event = h THEN "missed" ELSE event
    /\ owed' = {s \in owed : link'[s]}
    /\ UNCHANGED <<row, app, due, socket, seen>>

RedisLost ==
    /\ Fault
    /\ RedisDown
    /\ owed' = {s \in owed : "ready" \in out[s] \/ inbox' = inbox}
    /\ UNCHANGED <<event, row, app, due, socket, seen>>

Next ==
    \/ HubStep \/ Break \/ RedisLost \/ Send
    \/ \E h \in Replicas : MarkReady(h) \/ PublishReady(h) \/ ReplicaExit(h)
    \/ AppStart \/ AppStop \/ AppStep

\* The server's goroutines and the running app make progress; nobody has to
\* start the app.
Spec ==
    /\ Init /\ [][Next]_vars
    /\ WF_vars(AppStep) /\ WF_vars(Send)
    /\ \A s \in Sockets : WF_vars(HubStep /\ Serve(s))
    /\ \A h \in Replicas : WF_vars(PublishReady(h)) /\ WF_vars(HubStep /\ Replica(h))

-----------------------------------------------------------------------------
\* An event published while a connection is registered with a listening
\* replica is on its way to that connection until the device reads it, the
\* connection ends, its replica stops or Redis is lost.
OwedIsComing ==
    \A s \in owed : /\ link[s] /\ conn[s] \in Registered
                    /\ "ready" \in out[s] \/ "ready" \in inbox[home[s]]

\* If from before its publication on the replicas stay subscribed, and
\* from some moment on the app stays connected, it lists the transfer, or a
\* listing fails: what the first listing and the event both missed is found
\* because the device's own device.online makes it reload.
ReadyIsSeen ==
    [](/\ event \in Replicas
       /\ [](\A h \in Replicas : ear[h] = "listening")
       /\ <>[](app = "running" /\ socket # None /\ link[socket])
       => <>(seen # "no"))
=============================================================================
