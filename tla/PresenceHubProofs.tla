-------------------------- MODULE PresenceHubProofs --------------------------
(***************************************************************************)
(* PresenceHub: the type invariant, and the only ways to an orphaned key.  *)
(***************************************************************************)
EXTENDS PresenceHub, TLAPS

\* Publish changes only what it names, within the types of inbox and out.
LEMMA PublishTyped ==
    ASSUME HubTypeOK, NEW h, NEW e \in Events, Publish(h, e)
    PROVE  /\ inbox' \in [Replicas -> SUBSET Events]
           /\ out' \in [Sockets -> SUBSET Events]
BY SMTT(30) DEF HubTypeOK, Publish, Route

\* Breaking connections keeps fresh among those that are up.
LEMMA BreakTyped ==
    ASSUME HubTypeOK, NEW S, BreakLinks(S)
    PROVE  /\ link' \in [Sockets -> BOOLEAN]
           /\ fresh' \subseteq {s \in Sockets : link'[s]}
           /\ out' \in [Sockets -> SUBSET Events]
BY SMTT(30) DEF HubTypeOK, BreakLinks

\* Online keeps mark and fresh typed: a key counts as fresh only for a
\* connection that is up.
LEMMA OnlineTyped ==
    ASSUME HubTypeOK, NEW s \in Sockets, Online(s), UNCHANGED link
    PROVE  mark' \in BOOLEAN /\ fresh' \subseteq {t \in Sockets : link'[t]}
BY SMTT(30) DEF HubTypeOK, Online

\* No connection, key or message exists at first.
LEMMA InitTyped == HubInit => HubTypeOK
<1> SUFFICES ASSUME HubInit PROVE HubTypeOK
  OBVIOUS
<1>1. mark \in BOOLEAN /\ redis \in BOOLEAN
  BY Zenon DEF HubInit
<1>2. link \in [Sockets -> BOOLEAN] /\ fresh \subseteq {s \in Sockets : link[s]}
  BY Zenon DEF HubInit
<1>3. conn \in [Sockets -> {"idle", "dialing", "removed", "unmarked"} \cup Registered]
  BY DEF HubInit
<1>4. home \in [Sockets -> Replicas \cup {None}] /\ refresher \in [Sockets -> {"off", "waiting", "pinged"}]
  BY DEF HubInit
<1>5. ear \in [Replicas -> {"down", "starting", "listening", "rejoining", "deaf", "leaving"}]
  BY DEF HubInit
<1>6. inbox \in [Replicas -> SUBSET Events] /\ out \in [Sockets -> SUBSET Events]
  BY DEF HubInit
<1>7. \A s \in Sockets : conn[s] # "idle" \/ refresher[s] # "off" => home[s] \in Replicas
  BY DEF HubInit
<1> QED BY <1>1, <1>2, <1>3, <1>4, <1>5, <1>6, <1>7 DEF HubTypeOK

\* Every step of a hub, a device or Redis preserves the types.
LEMMA NextTyped ==
    ASSUME HubTypeOK, HubNext
    PROVE  HubTypeOK'
<1> USE HubAssumption
<1>1. ASSUME NEW s \in Sockets, Serve(s)
      PROVE  HubTypeOK'
  <2>1. CASE Register(s)
    BY <2>1, SMTT(30) DEF HubTypeOK, Register, Step, Registered
  <2>2. CASE Refuse(s)
    BY <2>2, SMTT(30) DEF HubTypeOK, Refuse, Step, Registered
  <2>3. CASE Mark(s)
    <3>1. UNCHANGED link /\ Online(s)
      BY <2>3 DEF Mark
    <3>2. mark' \in BOOLEAN /\ fresh' \subseteq {t \in Sockets : link'[t]}
      BY <3>1, OnlineTyped
    <3> QED BY <2>3, <3>2, SMTT(30) DEF HubTypeOK, Mark, Step, Registered
  <2>4. CASE Announce(s)
    <3>1. inbox' \in [Replicas -> SUBSET Events] /\ out' \in [Sockets -> SUBSET Events]
      BY <2>4, PublishTyped DEF Announce, Events
    <3>2. /\ Step(s, "marked", "serving")
          /\ refresher' = [refresher EXCEPT ![s] = "waiting"]
          /\ UNCHANGED <<home, link, fresh, mark, redis, ear>>
      BY <2>4 DEF Announce
    <3> QED BY <3>1, <3>2, SMTT(30) DEF HubTypeOK, Step, Registered
  <2>5. CASE Leave(s)
    BY <2>5, SMTT(30) DEF HubTypeOK, Leave, Step, Registered
  <2>6. CASE Unmark(s)
    BY <2>6, SMTT(30) DEF HubTypeOK, Unmark, Step, Registered
  <2>7. CASE Farewell(s)
    <3>1. inbox' \in [Replicas -> SUBSET Events] /\ out' \in [Sockets -> SUBSET Events]
      BY <2>7, PublishTyped DEF Farewell, Events
    <3>2. /\ Step(s, "unmarked", "idle")
          /\ UNCHANGED refresher
          /\ UNCHANGED <<home, link, fresh, mark, redis, ear>>
      BY <2>7 DEF Farewell
    <3> QED BY <3>1, <3>2, SMTT(30) DEF HubTypeOK, Step, Registered
  <2> QED BY <1>1, <2>1, <2>2, <2>3, <2>4, <2>5, <2>6, <2>7 DEF Serve
<1>2. ASSUME NEW s \in Sockets, Refresher(s)
      PROVE  HubTypeOK'
  <2>1. CASE Tick(s)
    BY <2>1, SMTT(30) DEF HubTypeOK, Tick
  <2>2. CASE Refresh(s)
    <3>1. UNCHANGED link /\ Online(s)
      BY <2>2 DEF Refresh
    <3>2. mark' \in BOOLEAN /\ fresh' \subseteq {t \in Sockets : link'[t]}
      BY <3>1, OnlineTyped
    <3> QED BY <2>2, <3>2, SMTT(30) DEF HubTypeOK, Refresh
  <2>3. CASE StopRefresh(s)
    BY <2>3, SMTT(30) DEF HubTypeOK, StopRefresh
  <2> QED BY <1>2, <2>1, <2>2, <2>3 DEF Refresher
<1>3. ASSUME NEW s \in Sockets, Drop(s)
      PROVE  HubTypeOK'
  <2>1. BreakLinks({s})
    BY <1>3 DEF Drop
  <2> QED BY <1>3, <2>1, BreakTyped, SMTT(30) DEF HubTypeOK, Drop
<1>4. ASSUME NEW s \in Sockets, NEW e \in Events, Read(s, e)
      PROVE  HubTypeOK'
  BY <1>4, SMTT(30) DEF HubTypeOK, Read
<1>5. ASSUME NEW s \in Sockets, NEW h \in Replicas, Dial(s, h)
      PROVE  HubTypeOK'
  BY <1>5, SMTT(30) DEF HubTypeOK, Dial, Step, Registered
<1>6. ASSUME NEW h \in Replicas, Replica(h)
      PROVE  HubTypeOK'
  <2>1. CASE Start(h) \/ Subscribe(h) \/ GiveUp(h)
    BY <2>1, SMTT(30) DEF HubTypeOK, Start, Subscribe, GiveUp
  <2>2. CASE Handle(h)
    BY <2>2, SMTT(30) DEF HubTypeOK, Handle, Route
  <2> QED BY <1>6, <2>1, <2>2 DEF Replica
<1>7. ASSUME NEW h \in Replicas, Shutdown(h)
      PROVE  HubTypeOK'
  <2> DEFINE S == {s \in Sockets : home[s] = h /\ conn[s] \in Registered}
  <2>1. BreakLinks(S)
    BY <1>7 DEF Shutdown
  <2> HIDE DEF S
  <2> QED BY <1>7, <2>1, BreakTyped, SMTT(30) DEF HubTypeOK, Shutdown
<1>8. ASSUME NEW h \in Replicas, Exit(h)
      PROVE  HubTypeOK'
  <2>1. BreakLinks({s \in Sockets : home[s] = h})
    BY <1>8 DEF Exit
  <2> QED BY <1>8, <2>1, BreakTyped, SMTT(30) DEF HubTypeOK, Exit, Registered
<1>9. CASE Expire \/ RedisDown \/ RedisUp
  <2>1. CASE Expire
    <3>1. mark' \in BOOLEAN
      BY <2>1, Zenon DEF Expire
    <3>2. UNCHANGED <<conn, home, link, refresher, fresh, redis, ear, inbox, out>>
      BY <2>1 DEF Expire
    <3> QED BY <3>1, <3>2, SMTT(30) DEF HubTypeOK
  <2>2. CASE RedisDown
    <3>1. redis' \in BOOLEAN
      BY <2>2, Zenon DEF RedisDown
    <3>2. UNCHANGED <<conn, home, link, refresher, fresh, mark, out>>
      BY <2>2 DEF RedisDown
    <3>3. /\ ear' = [h \in Replicas |-> IF ear[h] = "listening" THEN "rejoining" ELSE ear[h]]
          /\ inbox' \in {inbox, [h \in Replicas |-> {}]}
      BY <2>2 DEF RedisDown
    <3> QED BY <3>1, <3>2, <3>3, SMTT(30) DEF HubTypeOK
  <2>3. CASE RedisUp
    BY <2>3, SMTT(30) DEF HubTypeOK, RedisUp
  <2> QED BY <1>9, <2>1, <2>2, <2>3
<1> QED BY <1>1, <1>2, <1>3, <1>4, <1>5, <1>6, <1>7, <1>8, <1>9 DEF HubNext

\* Stuttering keeps the types.
LEMMA HubStutter == HubTypeOK /\ UNCHANGED hubVars => HubTypeOK'
BY SMTT(30) DEF HubTypeOK, hubVars

\* The state of every hub, connection and key stays well formed, for any
\* number of replicas and connections: a key counts as fresh only while its
\* connection is up, and every live goroutine belongs to a replica.
THEOREM TypeCorrect == HubSpec => []HubTypeOK
BY InitTyped, NextTyped, HubStutter, PTL DEF HubSpec

\* A step that leaves a connection's progress alone cannot take its last
\* owner from a key.
LEMMA SameOwners ==
    ASSUME UNCHANGED conn, mark' => mark
    PROVE  ~(~Orphaned /\ Orphaned')
BY DEF Orphaned, Owner

\* One connection that ends as an owner, or was none, keeps the key owned.
LEMMA StepKeepsOwner ==
    ASSUME HubTypeOK, NEW s \in Sockets, mark' => mark \/ Owner(s)', ~Owner(s) \/ Owner(s)' ,
           \A t \in Sockets \ {s} : conn'[t] = conn[t]
    PROVE  ~(~Orphaned /\ Orphaned')
BY DEF Orphaned, Owner, HubTypeOK

\* A presence key is left to its TTL only by a cleanup that could not reach
\* Redis, an ended process or a refresh that was under way.
THEOREM KeysAreOwned == HubSpec => OrphansAreExceptional
<1> DEFINE Loss == ~Orphaned /\ Orphaned'
<1>1. ASSUME HubTypeOK, HubNext, ~Excuse
      PROVE  ~Loss
  <2>1. ASSUME NEW s \in Sockets, Serve(s)
        PROVE  ~Loss
    <3>0. \A t \in Sockets \ {s} : conn'[t] = conn[t]
      BY <1>1, <2>1, SMTT(30) DEF Serve, Register, Refuse, Mark, Announce, Leave, Unmark,
            Farewell, Step, HubTypeOK
    <3>1. CASE Register(s) \/ Mark(s) \/ Announce(s) \/ Leave(s)
      <4>1. Owner(s)'
        BY <1>1, <3>1, SMTT(30) DEF Register, Mark, Announce, Leave, Step, Owner, Registered, HubTypeOK
      <4> QED BY <1>1, <3>0, <4>1, StepKeepsOwner
    <3>2. CASE Refuse(s) \/ Farewell(s)
      <4>1. ~Owner(s) /\ (mark' => mark)
        BY <1>1, <3>2, SMTT(30) DEF Refuse, Farewell, Step, Owner, Registered, HubTypeOK
      <4> QED BY <1>1, <3>0, <4>1, StepKeepsOwner
    <3>3. CASE Unmark(s)
      <4>1. ~mark'
        <5>1. redis /\ mark' = (mark /\ ~redis)
          BY <1>1, <3>3 DEF Unmark, Excuse
        <5> QED BY <5>1, Zenon
      <4> QED BY <4>1 DEF Orphaned
    <3> QED BY <2>1, <3>1, <3>2, <3>3 DEF Serve
  <2>2. ASSUME NEW s \in Sockets, Refresher(s)
        PROVE  ~Loss
    BY <1>1, <2>2, SameOwners DEF Excuse, Refresher, Tick, StopRefresh
  <2>3. ASSUME NEW s \in Sockets, Drop(s)
        PROVE  ~Loss
    BY <2>3, SameOwners DEF Drop
  <2>4. ASSUME NEW s \in Sockets, NEW e \in Events, Read(s, e)
        PROVE  ~Loss
    BY <2>4, SameOwners DEF Read
  <2>5. ASSUME NEW s \in Sockets, NEW h \in Replicas, Dial(s, h)
        PROVE  ~Loss
    <3>1. ~Owner(s) /\ (mark' => mark) /\ \A t \in Sockets \ {s} : conn'[t] = conn[t]
      BY <1>1, <2>5, SMTT(30) DEF Dial, Step, Owner, Registered, HubTypeOK
    <3> QED BY <1>1, <3>1, StepKeepsOwner
  <2>6. ASSUME NEW h \in Replicas, Replica(h)
        PROVE  ~Loss
    BY <2>6, SameOwners DEF Replica, Start, Subscribe, GiveUp, Handle
  <2>7. ASSUME NEW h \in Replicas, Shutdown(h)
        PROVE  ~Loss
    BY <2>7, SameOwners DEF Shutdown
  <2>8. CASE Expire \/ RedisDown \/ RedisUp
    BY <2>8, SameOwners DEF Expire, RedisDown, RedisUp
  <2> QED BY <1>1, <2>1, <2>2, <2>3, <2>4, <2>5, <2>6, <2>7, <2>8 DEF Excuse, HubNext
<1>2. HubTypeOK /\ [HubNext]_hubVars => [~Orphaned /\ Orphaned' => Excuse]_hubVars
  BY <1>1
<1> QED BY <1>2, TypeCorrect, PTL DEF HubSpec, OrphansAreExceptional
=============================================================================
