---------------------------- MODULE DeliveryProofs ----------------------------
(***************************************************************************)
(* Delivery: a published transfer.ready is never lost between the hub and  *)
(* a connection that was registered, for any number of replicas,           *)
(* connections and faults.                                                 *)
(***************************************************************************)
EXTENDS Delivery, PresenceHubProofs

\* The inductive invariant: nothing beyond the two that are checked.
Inv == TypeOK /\ OwedIsComing

\* What Route writes, and to whom.
LEMMA RouteReaches ==
    ASSUME HubTypeOK, NEW h, NEW e \in Events, NEW s \in Sockets
    PROVE  /\ out[s] \subseteq Route(h, e)[s]
           /\ home[s] = h /\ conn[s] \in Registered /\ link[s] => e \in Route(h, e)[s]
BY DEF HubTypeOK, Route

\* A publication adds messages and never takes one away.
LEMMA PublishKeeps ==
    ASSUME HubTypeOK, NEW h, NEW e \in Events, Publish(h, e), NEW s \in Sockets
    PROVE  /\ out[s] \subseteq out'[s]
           /\ \A i \in Replicas : inbox[i] \subseteq inbox'[i]
<1>1. out' = out \/ out' = Route(h, e)
  BY DEF Publish
<1>2. \A i \in Replicas : inbox[i] \subseteq inbox'[i]
  BY DEF Publish, HubTypeOK
<1> QED BY <1>1, <1>2, RouteReaches

\* Nothing is ready and nothing is owed at first.
LEMMA InitInv == Init => Inv
<1> SUFFICES ASSUME Init PROVE Inv
  OBVIOUS
<1>1. HubTypeOK
  BY InitTyped DEF Init
<1>2. /\ event \in Replicas \cup {None, "reached", "missed"}
      /\ row \in {"none", "pending", "skipped", "pushed"}
      /\ app \in {"stopped", "receiving", "running"}
      /\ socket \in Sockets \cup {None}
      /\ seen \in {"no", "failed", "yes"}
      /\ owed \subseteq Sockets
      /\ faults \in 0..MaxFaults
      /\ event = None <=> row = "none"
  BY DeliveryAssumption DEF Init
<1>3. due \in BOOLEAN
  BY Zenon DEF Init
<1> QED BY <1>1, <1>2, <1>3 DEF Init, Inv, TypeOK, OwedIsComing

\* A fault stays within the bound.
LEMMA FaultTyped ==
    ASSUME faults \in 0..MaxFaults, Fault
    PROVE  faults' \in 0..MaxFaults
BY DeliveryAssumption DEF Fault

\* What is owed survives a step that keeps the connections to which it is
\* owed, and the event on its way to each of them.
LEMMA OwedKept ==
    ASSUME OwedIsComing, owed' \subseteq owed,
           \A s \in owed' : /\ link'[s] /\ conn'[s] \in Registered
                            /\ home'[s] = home[s]
                            /\ "ready" \in out[s] => "ready" \in out'[s]
                            /\ "ready" \in inbox[home[s]] =>
                                 "ready" \in inbox'[home[s]] \/ "ready" \in out'[s]
    PROVE  OwedIsComing'
BY DEF OwedIsComing

\* The steps of Delivery that are steps of the hubs keep their types.
LEMMA HubTyped ==
    ASSUME TypeOK, Next
    PROVE  HubTypeOK'
<1>0. HubTypeOK
  BY DEF TypeOK
<1>1. CASE HubStep \/ Break \/ RedisLost \/ \E h \in Replicas : ReplicaExit(h)
  <2>1. HubNext
    BY <1>1 DEF HubStep, Break, RedisLost, ReplicaExit, HubNext
  <2> QED BY <1>0, <2>1, NextTyped
<1>2. CASE \/ \E e \in Events : ReadEvent(e)
          \/ \E s \in Sockets, h \in Replicas : Connect(s, h)
  <2>1. HubNext
    BY <1>2 DEF ReadEvent, Connect, HubNext, TypeOK
  <2> QED BY <1>0, <2>1, NextTyped
<1>3. CASE Send \/ AppStart \/ Receive \/ Reload \/ \E h \in Replicas : MarkReady(h)
  <2>1. UNCHANGED hubVars
    BY <1>3 DEF Send, AppStart, Receive, Reload, MarkReady
  <2> QED BY <1>0, <2>1, HubStutter
<1>4. CASE AppStop
  <2>1. /\ BreakLinks({socket})
        /\ UNCHANGED <<conn, home, refresher, mark, redis, ear, inbox>>
    BY <1>4 DEF AppStop
  <2> QED BY <1>0, <2>1, BreakTyped, SMTT(30) DEF HubTypeOK
<1>5. ASSUME NEW h \in Replicas, PublishReady(h)
      PROVE  HubTypeOK'
  <2>1. inbox' \in [Replicas -> SUBSET Events] /\ out' \in [Sockets -> SUBSET Events]
    BY <1>0, <1>5, PublishTyped DEF PublishReady, Events
  <2>2. UNCHANGED <<conn, home, link, refresher, fresh, mark, redis, ear>>
    BY <1>5 DEF PublishReady
  <2> QED BY <1>0, <2>1, <2>2, SMTT(30) DEF HubTypeOK
<1> QED BY <1>1, <1>2, <1>3, <1>4, <1>5 DEF Next, AppStep

\* The app, the transfer and the outbox row stay well formed.
LEMMA LocalTyped ==
    ASSUME TypeOK, Next
    PROVE  TypeOK'
<1>0. HubTypeOK'
  BY HubTyped
<1> USE <1>0
<1>1. CASE HubStep
  BY <1>1 DEF HubStep, TypeOK
<1>2. CASE Break
  BY <1>2, FaultTyped DEF Break, TypeOK
<1>3. CASE RedisLost
  BY <1>3, FaultTyped DEF RedisLost, TypeOK
<1>4. ASSUME NEW h \in Replicas, ReplicaExit(h)
      PROVE  TypeOK'
  <2>1. faults' \in 0..MaxFaults
    BY <1>4, FaultTyped DEF ReplicaExit, TypeOK
  <2> QED BY <1>4, <2>1, DeliveryAssumption, HubAssumption DEF ReplicaExit, TypeOK
<1>5. CASE Send
  BY <1>5 DEF Send, TypeOK
<1>6. ASSUME NEW h \in Replicas, MarkReady(h)
      PROVE  TypeOK'
  BY <1>6, HubAssumption DEF MarkReady, TypeOK
<1>7. ASSUME NEW h \in Replicas, PublishReady(h)
      PROVE  TypeOK'
  BY <1>7, HubAssumption, DeliveryAssumption DEF PublishReady, TypeOK
<1>8. CASE AppStart
  BY <1>8 DEF AppStart, TypeOK
<1>9. CASE AppStop
  <2>1. faults' \in 0..MaxFaults /\ due' \in BOOLEAN
    BY <1>9, FaultTyped DEF AppStop, TypeOK
  <2> QED BY <1>9, <2>1 DEF AppStop, TypeOK
<1>10. CASE Receive \/ Reload
  <2>1. seen' \in {"no", "failed", "yes"} /\ due' \in BOOLEAN
    BY <1>10 DEF Receive, Reload, List, TypeOK
  <2> QED BY <1>10, <2>1 DEF Receive, Reload, TypeOK
<1>11. ASSUME NEW e \in Events, ReadEvent(e)
       PROVE  TypeOK'
  <2>1. due' \in BOOLEAN
    BY <1>11 DEF ReadEvent
  <2> QED BY <1>11, <2>1 DEF ReadEvent, TypeOK
<1>12. ASSUME NEW s \in Sockets, NEW h \in Replicas, Connect(s, h)
       PROVE  TypeOK'
  BY <1>12 DEF Connect, TypeOK
<1> QED BY <1>1, <1>2, <1>3, <1>4, <1>5, <1>6, <1>7, <1>8, <1>9, <1>10, <1>11, <1>12
        DEF Next, AppStep

\* No step loses an event that is owed to a connection without giving up
\* the debt.
LEMMA OwedNext ==
    ASSUME Inv, Next
    PROVE  OwedIsComing'
<1>0. /\ HubTypeOK /\ OwedIsComing
      /\ owed \subseteq Sockets
      /\ \A s \in owed : conn[s] \in Registered /\ link[s] /\ home[s] \in Replicas
  BY DEF Inv, TypeOK, OwedIsComing, HubTypeOK, Registered
<1>1. CASE HubStep
  <2> USE <1>0
  <2>1. owed' = owed
    BY <1>1 DEF HubStep
  <2>2. ASSUME NEW t \in Sockets, Serve(t)
        PROVE  OwedIsComing'
    <3>1. UNCHANGED <<home, link>>
      BY <2>2 DEF Serve, Register, Refuse, Mark, Announce, Leave, Unmark, Farewell
    <3>2. \A s \in owed : conn'[s] \in Registered
      BY <2>2, SMTT(30) DEF Serve, Register, Refuse, Mark, Announce, Leave, Unmark, Farewell,
            Step, Registered, HubTypeOK
    <3>3. CASE Publish(home[t], "presence")
      <4>1. \A s \in Sockets : /\ out[s] \subseteq out'[s]
                               /\ \A i \in Replicas : inbox[i] \subseteq inbox'[i]
        BY <3>3, PublishKeeps DEF Events
      <4> QED BY <2>1, <3>1, <3>2, <4>1, OwedKept
    <3>4. CASE UNCHANGED <<inbox, out>>
      BY <2>1, <3>1, <3>2, <3>4, OwedKept
    <3> QED BY <2>2, <3>3, <3>4 DEF Serve, Register, Refuse, Mark, Announce, Leave, Unmark, Farewell
  <2>3. ASSUME NEW t \in Sockets, Refresher(t)
        PROVE  OwedIsComing'
    <3>1. UNCHANGED <<conn, home, link, inbox, out>>
      BY <2>3 DEF Refresher, Tick, Refresh, StopRefresh
    <3> QED BY <2>1, <3>1, OwedKept
  <2>4. ASSUME NEW h \in Replicas, Handle(h)
        PROVE  OwedIsComing'
    <3>1. PICK e \in inbox[h] : /\ inbox' = [inbox EXCEPT ![h] = @ \ {e}]
                               /\ out' = Route(h, e)
                               /\ UNCHANGED <<conn, home, link>>
      BY <2>4 DEF Handle
    <3>2. e \in Events
      BY DEF HubTypeOK
    <3>3. ASSUME NEW s \in owed
          PROVE  /\ "ready" \in out[s] => "ready" \in out'[s]
                 /\ "ready" \in inbox[home[s]] =>
                      "ready" \in inbox'[home[s]] \/ "ready" \in out'[s]
      <4>1. /\ out[s] \subseteq out'[s]
            /\ home[s] = h => e \in out'[s]
        BY <3>1, <3>2, RouteReaches
      <4> QED BY <3>1, <4>1 DEF HubTypeOK
    <3> QED BY <2>1, <3>1, <3>3, OwedKept
  <2>5. ASSUME NEW h \in Replicas, Start(h) \/ Subscribe(h) \/ GiveUp(h)
        PROVE  OwedIsComing'
    <3>1. UNCHANGED <<conn, home, link, inbox, out>>
      BY <2>5 DEF Start, Subscribe, GiveUp
    <3> QED BY <2>1, <3>1, OwedKept
  <2>6. CASE Expire \/ RedisUp
    <3>1. UNCHANGED <<conn, home, link, inbox, out>>
      BY <2>6 DEF Expire, RedisUp
    <3> QED BY <2>1, <3>1, OwedKept
  <2> QED BY <1>1, <2>2, <2>3, <2>4, <2>5, <2>6 DEF HubStep, Replica
<1>2. CASE Break
  <2> USE <1>0
  <2>1. owed' = {s \in owed : link'[s]}
    BY <1>2 DEF Break
  <2>2. ASSUME NEW t \in Sockets, Drop(t)
        PROVE  OwedIsComing'
    BY <2>1, <2>2, OwedKept DEF Drop, BreakLinks
  <2>3. ASSUME NEW h \in Replicas, Shutdown(h)
        PROVE  OwedIsComing'
    <3>1. \A s \in owed' : home[s] # h /\ out'[s] = out[s]
      BY <2>1, <2>3 DEF Shutdown, BreakLinks
    <3> QED BY <2>1, <2>3, <3>1, OwedKept DEF Shutdown, HubTypeOK
  <2> QED BY <1>2, <2>2, <2>3 DEF Break
<1>3. CASE RedisLost
  <2>1. /\ owed' = {s \in owed : "ready" \in out[s] \/ inbox' = inbox}
        /\ UNCHANGED <<conn, home, link, out>>
    BY <1>3 DEF RedisLost, RedisDown
  <2> QED BY <1>0, <2>1 DEF OwedIsComing
<1>4. ASSUME NEW h \in Replicas, ReplicaExit(h)
      PROVE  OwedIsComing'
  <2> USE <1>0
  <2>1. /\ owed' = {s \in owed : link'[s]}
        /\ Exit(h)
    BY <1>4 DEF ReplicaExit
  <2>2. \A s \in owed' : /\ home[s] # h /\ out'[s] = out[s]
                         /\ conn'[s] = conn[s] /\ home'[s] = home[s]
    BY <2>1 DEF Exit, BreakLinks
  <2>3. inbox' = [inbox EXCEPT ![h] = {}]
    BY <2>1 DEF Exit
  <2> QED BY <2>1, <2>2, <2>3, OwedKept DEF HubTypeOK
<1>5. CASE Send \/ AppStart \/ Receive \/ Reload \/ \E h \in Replicas : MarkReady(h)
  <2>1. UNCHANGED <<conn, home, link, inbox, out, owed>>
    BY <1>5 DEF Send, AppStart, Receive, Reload, MarkReady, hubVars
  <2> QED BY <1>0, <2>1, OwedKept
<1>6. CASE AppStop
  <2>1. /\ owed' = owed \ {socket}
        /\ UNCHANGED <<conn, home, inbox>>
        /\ \A s \in owed' : link'[s] /\ out'[s] = out[s]
    BY <1>0, <1>6 DEF AppStop, BreakLinks
  <2> QED BY <1>0, <2>1, OwedKept
<1>7. ASSUME NEW h \in Replicas, PublishReady(h)
      PROVE  OwedIsComing'
  <2>1. /\ Publish(h, "ready")
        /\ UNCHANGED <<conn, home, link, redis, ear>>
        /\ owed' = {s \in Sockets : /\ link[s] /\ conn[s] \in Registered
                                    /\ IF redis THEN ear[home[s]] = "listening" ELSE home[s] = h}
    BY <1>7 DEF PublishReady
  <2>2. ASSUME NEW s \in owed'
        PROVE  "ready" \in out'[s] \/ "ready" \in inbox'[home[s]]
    <3>1. s \in Sockets /\ link[s] /\ conn[s] \in Registered /\ home[s] \in Replicas
      BY <1>0, <2>1 DEF HubTypeOK, Registered
    <3>2. CASE redis
      BY <2>1, <3>1, <3>2 DEF Publish
    <3>3. CASE ~redis
      <4>1. home[s] = h /\ out' = Route(h, "ready")
        BY <2>1, <3>3 DEF Publish
      <4> QED BY <1>0, <3>1, <4>1, RouteReaches DEF Events
    <3> QED BY <3>2, <3>3
  <2> QED BY <2>1, <2>2 DEF OwedIsComing
<1>8. ASSUME NEW e \in Events, ReadEvent(e)
      PROVE  OwedIsComing'
  <2>1. /\ UNCHANGED <<conn, home, link, inbox>>
        /\ out' = [out EXCEPT ![socket] = @ \ {e}]
        /\ owed' = IF e = "ready" THEN owed \ {socket} ELSE owed
    BY <1>8 DEF ReadEvent, Read
  <2>2. \A s \in owed' : "ready" \in out[s] => "ready" \in out'[s]
    BY <1>0, <2>1 DEF HubTypeOK
  <2> QED BY <1>0, <2>1, <2>2, OwedKept
<1>9. ASSUME NEW t \in Sockets, NEW h \in Replicas, Connect(t, h)
      PROVE  OwedIsComing'
  <2>1. /\ conn[t] = "idle" /\ conn' = [conn EXCEPT ![t] = "dialing"]
        /\ home' = [home EXCEPT ![t] = h]
        /\ link' = [link EXCEPT ![t] = TRUE]
        /\ UNCHANGED <<inbox, out, owed>>
    BY <1>9 DEF Connect, Dial, Step
  <2>2. t \notin owed
    BY <1>0, <2>1 DEF Registered
  <2> QED BY <1>0, <2>1, <2>2, OwedKept DEF HubTypeOK
<1> QED BY <1>1, <1>2, <1>3, <1>4, <1>5, <1>6, <1>7, <1>8, <1>9 DEF Next, AppStep

\* The invariant of Delivery holds for any number of replicas, connections
\* and faults.
THEOREM Invariance == Spec => []Inv
<1>1. Inv /\ Next => Inv'
  BY LocalTyped, OwedNext DEF Inv
<1>2. Inv /\ UNCHANGED vars => Inv'
  <2> SUFFICES ASSUME Inv, UNCHANGED vars PROVE Inv'
    OBVIOUS
  <2>1. HubTypeOK'
    BY HubStutter DEF Inv, TypeOK, vars
  <2> QED BY <2>1 DEF Inv, TypeOK, OwedIsComing, vars, hubVars
<1> QED BY InitInv, <1>1, <1>2, PTL DEF Spec

\* The published event is on its way to every connection that it is owed to.
THEOREM OwedCorrect == Spec => []OwedIsComing
<1>1. Inv => OwedIsComing
  BY DEF Inv
<1> QED BY <1>1, Invariance, PTL
=============================================================================
