----------------------------- MODULE PresenceHub -----------------------------
(***************************************************************************)
(* The realtime hubs of the API replicas as one device sees them: its      *)
(* WebSocket connections, the presence key they set, refresh and delete,   *)
(* and the events that travel through Redis Pub/Sub.  A connection has two *)
(* goroutines, the handler ServeHTTP and the refresher.  Of time only this *)
(* is kept: a key set again every 15 seconds does not expire after 45.     *)
(***************************************************************************)
CONSTANTS Replicas,
          Sockets,  \* connections of the device that exist at a time
          None

ASSUME HubAssumption == None \notin Replicas

VARIABLES conn,       \* progress of each connection's handler
          home,       \* its replica
          link,       \* the connection is up
          refresher,  \* its refresher: off, waiting, or pinged (before Online)
          fresh,      \* connections that are up and whose last Online succeeded
          mark,       \* the presence key of the device exists
          redis,      \* Redis answers
          ear,        \* each replica's subscription, or down, its process ended
          inbox,      \* messages the subscription holds
          out         \* events written to a connection, not yet read

hubVars == <<conn, home, link, refresher, fresh, mark, redis, ear, inbox, out>>

Events == {"ready", "presence"}

\* h.clients holds the connection.
Registered == {"registered", "marked", "serving"}

HubTypeOK ==
    /\ conn \in [Sockets -> {"idle", "dialing", "removed", "unmarked"} \cup Registered]
    /\ home \in [Sockets -> Replicas \cup {None}]
    /\ link \in [Sockets -> BOOLEAN]
    /\ refresher \in [Sockets -> {"off", "waiting", "pinged"}]
    /\ fresh \subseteq {s \in Sockets : link[s]}
    /\ mark \in BOOLEAN /\ redis \in BOOLEAN
    /\ ear \in [Replicas -> {"down", "starting", "listening", "rejoining", "deaf", "leaving"}]
    /\ inbox \in [Replicas -> SUBSET Events]
    /\ out \in [Sockets -> SUBSET Events]
    /\ \A s \in Sockets : conn[s] # "idle" \/ refresher[s] # "off" => home[s] \in Replicas

HubInit ==
    /\ conn = [s \in Sockets |-> "idle"]
    /\ home = [s \in Sockets |-> None]
    /\ link = [s \in Sockets |-> FALSE]
    /\ refresher = [s \in Sockets |-> "off"]
    /\ fresh = {}
    /\ mark = FALSE /\ redis = TRUE
    /\ ear = [h \in Replicas |-> "listening"]
    /\ inbox = [h \in Replicas |-> {}]
    /\ out = [s \in Sockets |-> {}]

Step(s, from, to) == conn[s] = from /\ conn' = [conn EXCEPT ![s] = to]

-----------------------------------------------------------------------------
\* Events.

\* Mutant: only connections that have announced themselves are written to.
RouteServing(h, e) ==
    [s \in Sockets |-> IF home[s] = h /\ conn[s] = "serving" /\ link[s]
                         THEN out[s] \cup {e} ELSE out[s]]

\* Hub.route: a write to a broken connection is lost.
Route(h, e) ==
    [s \in Sockets |-> IF home[s] = h /\ conn[s] \in Registered /\ link[s]
                         THEN out[s] \cup {e} ELSE out[s]]

\* Hub.publish on replica h: through the broker to every subscription, or
\* locally if the broker reports an error, even one after the fact.
Publish(h, e) ==
    \/ /\ redis
       /\ inbox' = [i \in Replicas |-> IF ear[i] = "listening" THEN inbox[i] \cup {e} ELSE inbox[i]]
       /\ out' \in {out, Route(h, e)}
    \/ /\ ~redis
       /\ out' = Route(h, e)
       /\ UNCHANGED inbox

\* handleBrokerMessage
Handle(h) ==
    \E e \in inbox[h] :
        /\ inbox' = [inbox EXCEPT ![h] = @ \ {e}]
        /\ out' = Route(h, e)
        /\ UNCHANGED <<conn, home, link, refresher, fresh, mark, redis, ear>>

\* The device reads an event.
Read(s, e) ==
    /\ link[s] /\ e \in out[s]
    /\ out' = [out EXCEPT ![s] = @ \ {e}]
    /\ UNCHANGED <<conn, home, link, refresher, fresh, mark, redis, ear, inbox>>

-----------------------------------------------------------------------------
\* Hub.ServeHTTP.

\* The device asks replica h for a connection.
Dial(s, h) ==
    /\ refresher[s] = "off" /\ ear[h] \notin {"leaving", "down"}
    /\ Step(s, "idle", "dialing")
    /\ home' = [home EXCEPT ![s] = h]
    /\ link' = [link EXCEPT ![s] = TRUE]
    /\ UNCHANGED <<refresher, fresh, mark, redis, ear, inbox, out>>

Register(s) ==
    /\ Step(s, "dialing", "registered")
    /\ UNCHANGED <<home, link, refresher, fresh, mark, redis, ear, inbox, out>>

\* websocket.Accept fails on a connection that broke.
Refuse(s) ==
    /\ ~link[s]
    /\ Step(s, "dialing", "idle")
    /\ UNCHANGED <<home, link, refresher, fresh, mark, redis, ear, inbox, out>>

\* Mutant: the refresher extends the TTL of a key, it does not set it.
OnlineExtends(s) ==
    /\ mark' = (mark \/ (redis /\ refresher[s] = "off"))
    /\ fresh' = IF redis /\ link[s] THEN fresh \cup {s} ELSE fresh \ {s}

\* presence.Online sets the key with its TTL; its error is dropped.
Online(s) ==
    /\ mark' = (mark \/ redis)
    /\ fresh' = IF redis /\ link[s] THEN fresh \cup {s} ELSE fresh \ {s}

Mark(s) ==
    /\ Step(s, "registered", "marked")
    /\ Online(s)
    /\ UNCHANGED <<home, link, refresher, redis, ear, inbox, out>>

\* device.online is published and the refresher started.
Announce(s) ==
    /\ Step(s, "marked", "serving")
    /\ Publish(home[s], "presence")
    /\ refresher' = [refresher EXCEPT ![s] = "waiting"]
    /\ UNCHANGED <<home, link, fresh, mark, redis, ear>>

\* Read fails: the deferred function takes the connection off h.clients, ...
Leave(s) ==
    /\ ~link[s]
    /\ Step(s, "serving", "removed")
    /\ UNCHANGED <<home, link, refresher, fresh, mark, redis, ear, inbox, out>>

\* Mutant: the cleanup does not delete the key.
UnmarkForgotten(s) ==
    /\ Step(s, "removed", "unmarked")
    /\ UNCHANGED <<home, link, refresher, fresh, mark, redis, ear, inbox, out>>

\* ... deletes the device's key, whichever connection set it, ...
Unmark(s) ==
    /\ Step(s, "removed", "unmarked")
    /\ mark' = (mark /\ ~redis)
    /\ UNCHANGED <<home, link, refresher, fresh, redis, ear, inbox, out>>

\* ... and publishes device.offline.
Farewell(s) ==
    /\ Step(s, "unmarked", "idle")
    /\ Publish(home[s], "presence")
    /\ UNCHANGED <<home, link, refresher, fresh, mark, redis, ear>>

-----------------------------------------------------------------------------
\* Hub.refreshPresence.

\* A tick whose ping is answered.
Tick(s) ==
    /\ refresher[s] = "waiting" /\ link[s]
    /\ refresher' = [refresher EXCEPT ![s] = "pinged"]
    /\ UNCHANGED <<conn, home, link, fresh, mark, redis, ear, inbox, out>>

\* Online after the ping, whatever the handler has done in between.
Refresh(s) ==
    /\ refresher[s] = "pinged"
    /\ refresher' = [refresher EXCEPT ![s] = "waiting"]
    /\ Online(s)
    /\ UNCHANGED <<conn, home, link, redis, ear, inbox, out>>

\* done is closed, or the ping failed.
StopRefresh(s) ==
    /\ refresher[s] = "waiting" /\ ~link[s]
    /\ refresher' = [refresher EXCEPT ![s] = "off"]
    /\ UNCHANGED <<conn, home, link, fresh, mark, redis, ear, inbox, out>>

\* Mutant: the key is set without a TTL.
ExpireNever == FALSE /\ UNCHANGED hubVars

\* The TTL of the key, which successful refreshes outrun.
Expire ==
    /\ mark /\ fresh = {}
    /\ mark' = FALSE
    /\ UNCHANGED <<conn, home, link, refresher, fresh, redis, ear, inbox, out>>

-----------------------------------------------------------------------------
\* A replica's process and its subscription.

\* main: the process starts only if Redis answers its PING.
Start(h) ==
    /\ redis /\ ear[h] = "down"
    /\ ear' = [ear EXCEPT ![h] = "starting"]
    /\ UNCHANGED <<conn, home, link, refresher, fresh, mark, redis, inbox, out>>

\* RedisBroker.Subscribe: the first subscription is tried once, a lost one
\* is restored by the Redis client.
Subscribe(h) ==
    /\ redis /\ ear[h] \in {"starting", "rejoining"}
    /\ ear' = [ear EXCEPT ![h] = "listening"]
    /\ UNCHANGED <<conn, home, link, refresher, fresh, mark, redis, inbox, out>>

GiveUp(h) ==
    /\ ~redis /\ ear[h] = "starting"
    /\ ear' = [ear EXCEPT ![h] = "deaf"]
    /\ UNCHANGED <<conn, home, link, refresher, fresh, mark, redis, inbox, out>>

\* Redis goes away, with what it was about to deliver, or comes back.
RedisDown ==
    /\ redis /\ redis' = FALSE
    /\ ear' = [h \in Replicas |-> IF ear[h] = "listening" THEN "rejoining" ELSE ear[h]]
    /\ inbox' \in {inbox, [h \in Replicas |-> {}]}
    /\ UNCHANGED <<conn, home, link, refresher, fresh, mark, out>>

RedisUp ==
    /\ ~redis /\ redis' = TRUE
    /\ UNCHANGED <<conn, home, link, refresher, fresh, mark, ear, inbox, out>>

-----------------------------------------------------------------------------
\* Connections and replicas end.

BreakLinks(S) ==
    /\ link' = [s \in Sockets |-> link[s] /\ s \notin S]
    /\ out' = [s \in Sockets |-> IF s \in S THEN {} ELSE out[s]]
    /\ fresh' = fresh \ S

\* The network or the device ends a connection; what was not read is lost.
Drop(s) ==
    /\ link[s]
    /\ BreakLinks({s})
    /\ UNCHANGED <<conn, home, refresher, mark, redis, ear, inbox>>

\* A signal ends the subscription and Hub.Close the registered connections.
Shutdown(h) ==
    /\ ear[h] \notin {"leaving", "down"}
    /\ ear' = [ear EXCEPT ![h] = "leaving"]
    /\ inbox' = [inbox EXCEPT ![h] = {}]
    /\ BreakLinks({s \in Sockets : home[s] = h /\ conn[s] \in Registered})
    /\ UNCHANGED <<conn, home, refresher, mark, redis>>

\* The process ends, in order or not, and its connections with it.
Exit(h) ==
    LET lost == {s \in Sockets : home[s] = h}
    IN  /\ ear[h] # "down"
        /\ ear' = [ear EXCEPT ![h] = "down"]
        /\ inbox' = [inbox EXCEPT ![h] = {}]
        /\ BreakLinks(lost)
        /\ conn' = [s \in Sockets |-> IF s \in lost THEN "idle" ELSE conn[s]]
        /\ home' = [s \in Sockets |-> IF s \in lost THEN None ELSE home[s]]
        /\ refresher' = [s \in Sockets |-> IF s \in lost THEN "off" ELSE refresher[s]]
        /\ UNCHANGED <<mark, redis>>

-----------------------------------------------------------------------------

Serve(s) ==
    \/ Register(s) \/ Refuse(s) \/ Mark(s) \/ Announce(s)
    \/ Leave(s) \/ Unmark(s) \/ Farewell(s)

Refresher(s) == Tick(s) \/ Refresh(s) \/ StopRefresh(s)

Replica(h) == Start(h) \/ Subscribe(h) \/ GiveUp(h) \/ Handle(h)

HubNext ==
    \/ \E s \in Sockets : Serve(s) \/ Refresher(s) \/ Drop(s)
    \/ \E s \in Sockets, e \in Events : Read(s, e)
    \/ \E s \in Sockets, h \in Replicas : Dial(s, h)
    \/ \E h \in Replicas : Replica(h) \/ Shutdown(h) \/ Exit(h)
    \/ Expire \/ RedisDown \/ RedisUp

\* The goroutines run and keys expire; a replica that drains ends.
HubFairness ==
    /\ \A s \in Sockets : WF_hubVars(Serve(s)) /\ WF_hubVars(Refresher(s))
    /\ \A h \in Replicas : WF_hubVars(Replica(h)) /\ WF_hubVars(ear[h] = "leaving" /\ Exit(h))
    /\ WF_hubVars(Expire)

HubSpec == HubInit /\ [][HubNext]_hubVars /\ HubFairness

-----------------------------------------------------------------------------
\* A connection whose cleanup, still to come, will delete the key.
Owner(s) == conn[s] \in Registered \cup {"removed"}

Orphaned == mark /\ \A s \in Sockets : ~Owner(s)

Excuse ==
    \/ ~redis
    \/ \E h \in Replicas : Exit(h)
    \/ \E s \in Sockets : Refresh(s)

\* A presence key is left to its TTL in three cases only: the cleanup could
\* not reach Redis, the process ended before it, or a refresh that had its
\* ping answered came after it.  Any other end of a connection takes the
\* device offline at once (ServeHTTP's deferred function).
OrphansAreExceptional == [][~Orphaned /\ Orphaned' => Excuse]_hubVars

\* A device that is gone for good goes offline, whatever raced or failed:
\* the TTL outlives every stray key (Online with defaultPresenceTTL).
PresenceEnds == <>[](\A s \in Sockets : ~link[s]) => <>[]~mark

\* While a connection lasts and Redis answers, the device is never offline
\* for good, though the cleanup of an older connection deletes the key it
\* shares with the new one (refreshPresence).
PresenceReturns ==
    \A s \in Sockets : <>[](redis /\ link[s] /\ conn[s] = "serving") => []<>mark
=============================================================================
