------------------------ MODULE ClientSessionProofs ------------------------
(***************************************************************************)
(* Theorems about AndroidSession and IosSession, for any number of calls,  *)
(* users, expiries and kills.                                              *)
(***************************************************************************)
EXTENDS AndroidSession, IosSession, TLAPS

-----------------------------------------------------------------------------
\* What the server's operators do to the pairs issued so far.

\* Appending a pair keeps the others.
LEMMA Appended ==
    ASSUME NEW s \in Seq(Pair), NEW x \in Pair
    PROVE  LET t == Append(s, x) IN
           /\ t \in Seq(Pair) /\ Len(t) = Len(s) + 1
           /\ DOMAIN t = DOMAIN s \cup {Len(s) + 1} /\ Len(s) + 1 \notin DOMAIN s
           /\ t[Len(s) + 1] = x
           /\ \A m \in DOMAIN s : t[m] = s[m]
OBVIOUS

LEMMA Elements ==
    ASSUME tokens \in Seq(Pair)
    PROVE  Issued = 1..Len(tokens) /\ Len(tokens) \in Nat /\ \A m \in Issued : tokens[m] \in Pair
BY DEF Issued

\* Each field is set apart from the others.
LEMMA Fields ==
    ASSUME NEW p \in Pair
    PROVE  /\ LET x == [p EXCEPT !.fresh = FALSE] IN
              /\ x \in Pair /\ x.user = p.user /\ x.family = p.family
              /\ x.used = p.used /\ x.revoked = p.revoked
           /\ LET x == [p EXCEPT !.used = TRUE] IN
              /\ x \in Pair /\ x.user = p.user /\ x.family = p.family /\ x.revoked = p.revoked
           /\ LET x == [p EXCEPT !.revoked = TRUE] IN
              /\ x \in Pair /\ x.user = p.user /\ x.family = p.family /\ x.used = p.used
           /\ p.user \in Users /\ p.family \in Nat
BY DEF Pair

LEMMA New ==
    ASSUME NEW u \in Users, NEW f \in Nat
    PROVE  LET y == NewPair(u, f) IN
           y \in Pair /\ y.user = u /\ y.family = f /\ ~y.used /\ ~y.revoked
BY DEF NewPair, Pair

\* What every change of tokens preserves, and what Refresh changes.
Grows(t) ==
    /\ t \in Seq(Pair)
    /\ Issued \subseteq DOMAIN t
    /\ \A m \in DOMAIN t : t[m].family \in DOMAIN t
    /\ \A m \in Issued : t[m].user = tokens[m].user /\ t[m].family = tokens[m].family

LEMMA IssueFacts ==
    ASSUME tokens \in Seq(Pair), \A m \in Issued : tokens[m].family \in Issued, NEW u \in Users
    PROVE  LET t == IssueSession(u)  n == Len(tokens) + 1 IN
           /\ Grows(t)
           /\ n \in Nat /\ n # NoPair /\ n \notin Issued /\ DOMAIN t = Issued \cup {n}
           /\ \A m \in Issued : t[m] = tokens[m]
           /\ ~t[n].used /\ ~t[n].revoked
<1> DEFINE x == NewPair(u, Len(tokens) + 1)
<1>1. x \in Pair
  BY DEF NewPair, Pair
<1>2. QED
  BY <1>1, Appended DEF IssueSession, NewPair, Grows, Issued, NoPair

LEMMA ExpireFacts ==
    ASSUME tokens \in Seq(Pair), \A m \in Issued : tokens[m].family \in Issued,
           NEW n \in Issued, AccessExpires(n)
    PROVE  /\ Grows(tokens') /\ Issued' = Issued
           /\ \A m \in Issued : tokens'[m].used = tokens[m].used /\ tokens'[m].revoked = tokens[m].revoked
<1> DEFINE x == [tokens[n] EXCEPT !.fresh = FALSE]
<1>1. /\ x \in Pair /\ x.user = tokens[n].user /\ x.family = tokens[n].family
      /\ x.used = tokens[n].used /\ x.revoked = tokens[n].revoked
  BY Elements, Fields
<1>2. tokens' = [tokens EXCEPT ![n] = x]
  BY DEF AccessExpires
<1> HIDE DEF x
<1>3. tokens' \in Seq(Pair) /\ Issued' = Issued
  BY <1>1, <1>2 DEF Issued
<1>4. \A m \in Issued : tokens'[m] = IF m = n THEN x ELSE tokens[m]
  BY <1>2 DEF Issued
<1>5. QED
  BY <1>1, <1>3, <1>4 DEF Grows, Issued

\* An unused pair is exchanged for its successor.
LEMMA RotateAccepted ==
    ASSUME tokens \in Seq(Pair), \A m \in Issued : tokens[m].family \in Issued,
           NEW n \in Issued, Rotatable(n)
    PROVE  /\ Grows(RotateRefresh(n))
           /\ RefreshReply(n) \in Nat /\ RefreshReply(n) # NoPair /\ RefreshReply(n) \notin Issued
           /\ DOMAIN RotateRefresh(n) = Issued \cup {RefreshReply(n)}
           /\ RotateRefresh(n)[RefreshReply(n)] = NewPair(tokens[n].user, tokens[n].family)
           /\ \A m \in Issued : RotateRefresh(n)[m] = IF m = n THEN [tokens[n] EXCEPT !.used = TRUE]
                                                             ELSE tokens[m]
<1> DEFINE x == [tokens[n] EXCEPT !.used = TRUE]
           y == NewPair(tokens[n].user, tokens[n].family)
           s == [tokens EXCEPT ![n] = x]
<1>1. x \in Pair /\ x.user = tokens[n].user /\ x.family = tokens[n].family
  BY Elements, Fields
<1>2. y \in Pair /\ y.user = tokens[n].user /\ y.family = tokens[n].family /\ ~y.used /\ ~y.revoked
  BY Elements, Fields, New
<1>3. s \in Seq(Pair) /\ DOMAIN s = Issued /\ Len(s) = Len(tokens)
  BY <1>1 DEF Issued
<1>4. \A m \in Issued : s[m] = IF m = n THEN x ELSE tokens[m]
  BY DEF Issued
<1>5. RotateRefresh(n) = Append(s, y) /\ RefreshReply(n) = Len(tokens) + 1
  BY DEF RotateRefresh, Rotate, RefreshReply
<1>6. Len(tokens) + 1 \in Nat /\ Len(tokens) + 1 # NoPair
  BY DEF NoPair
<1> HIDE DEF s, x, y
<1>7. /\ Append(s, y) \in Seq(Pair)
      /\ DOMAIN Append(s, y) = Issued \cup {Len(tokens) + 1} /\ Len(tokens) + 1 \notin Issued
      /\ Append(s, y)[Len(tokens) + 1] = y
      /\ \A m \in Issued : Append(s, y)[m] = IF m = n THEN x ELSE tokens[m]
  BY <1>2, <1>3, <1>4, Appended
<1>8. Grows(Append(s, y))
  BY <1>1, <1>2, <1>7 DEF Grows
<1>9. QED
  BY <1>5, <1>6, <1>7, <1>8 DEF x, y

\* A used or revoked one is not; a used one takes its family with it.
LEMMA RotateRefused ==
    ASSUME tokens \in Seq(Pair), \A m \in Issued : tokens[m].family \in Issued,
           NEW n \in Issued, ~Rotatable(n)
    PROVE  /\ Grows(RotateRefresh(n)) /\ DOMAIN RotateRefresh(n) = Issued
           /\ RefreshReply(n) = NoPair
           /\ \A m \in Issued :
                 /\ RotateRefresh(n)[m].used => tokens[m].used
                 /\ RotateRefresh(n)[m].revoked => \/ tokens[m].revoked
                                                   \/ (tokens[n].used /\ SameFamily(m, n))
<1> DEFINE R(m) == [tokens[m] EXCEPT !.revoked = TRUE]
<1>1. \A m \in Issued : /\ R(m) \in Pair /\ R(m).user = tokens[m].user
                        /\ R(m).family = tokens[m].family /\ R(m).used = tokens[m].used
  BY Elements, Fields
<1>2. RefreshReply(n) = NoPair
  BY DEF RefreshReply
<1>3. CASE tokens[n].revoked
  <2>1. RotateRefresh(n) = tokens
    BY <1>3 DEF RotateRefresh
  <2>2. Grows(tokens) /\ DOMAIN tokens = Issued
    BY DEF Grows, Issued
  <2>3. \A m \in Issued : /\ tokens[m].used => tokens[m].used
                          /\ tokens[m].revoked => \/ tokens[m].revoked
                                                 \/ (tokens[n].used /\ SameFamily(m, n))
    BY Zenon
  <2>4. QED
    BY <1>2, <2>1, <2>2, <2>3, Zenon
<1>4. CASE ~tokens[n].revoked
  <2>1. RotateRefresh(n) = RevokeFamily(n) /\ tokens[n].used
    BY <1>4 DEF RotateRefresh, Rotatable
  <2>2. \A m \in Issued : RevokeFamily(n)[m] =
             IF tokens[m].family = tokens[n].family THEN R(m) ELSE tokens[m]
    BY DEF RevokeFamily
  <2> HIDE DEF R
  <2>3. RevokeFamily(n) \in Seq(Pair) /\ DOMAIN RevokeFamily(n) = Issued
    <3>1. \A m \in Issued : RevokeFamily(n)[m] \in Pair
      BY <1>1, <2>2, Elements
    <3>2. Issued = 1..Len(tokens) /\ Len(tokens) \in Nat
      BY DEF Issued
    <3>3. RevokeFamily(n) \in [1..Len(tokens) -> Pair]
      BY <3>1, <3>2 DEF RevokeFamily
    <3>4. QED
      BY <3>2, <3>3
  <2>4. Grows(RevokeFamily(n))
    BY <1>1, <2>2, <2>3 DEF Grows
  <2>5. \A m \in Issued : RevokeFamily(n)[m].used => tokens[m].used
    BY <1>1, <2>2
  <2>6. \A m \in Issued :
           RevokeFamily(n)[m].revoked => tokens[m].revoked \/ (tokens[n].used /\ SameFamily(m, n))
    BY <1>1, <2>1, <2>2 DEF SameFamily
  <2>7. QED
    BY <1>2, <2>1, <2>3, <2>4, <2>5, <2>6, Zenon
<1>5. QED
  BY <1>3, <1>4
-----------------------------------------------------------------------------
\* The steps both apps share keep the types.

LEMMA TypesKept ==
    ASSUME SessionTypeOK, Grows(tokens'),
           store' \in MaybePair', account' \in Users \cup {None},
           loaded' \in [Requests -> MaybePair], shown' \in [Requests -> MaybePair],
           refresh' \in [Requests -> {"none", "sent", "answered"}],
           reply' \in [Requests -> MaybePair'],
           strays' \subseteq Issued, torn' \subseteq Issued, kills' \in 0..MaxKills
    PROVE  SessionTypeOK' /\ Issued \subseteq Issued'
BY DEF SessionTypeOK, Grows, Issued, MaybePair

LEMMA SameTokens ==
    ASSUME SessionTypeOK, UNCHANGED tokens
    PROVE  Grows(tokens') /\ Issued' = Issued /\ MaybePair' = MaybePair
BY DEF SessionTypeOK, Grows, Issued, MaybePair

LEMMA SessionUnchanged ==
    ASSUME SessionTypeOK, UNCHANGED session
    PROVE  SessionTypeOK'
BY DEF session, SessionTypeOK, Issued, MaybePair

\* A call with a refresh under way has presented a pair.
Sent == \A q \in Requests : refresh[q] # "none" => shown[q] # NoPair

LEMMA ServeTypes ==
    ASSUME SessionTypeOK, Sent, Serve
    PROVE  SessionTypeOK' /\ Grows(tokens')
<1> USE DEF SessionTypeOK
<1>1. ASSUME NEW n \in Issued, Expire(n)
      PROVE  SessionTypeOK' /\ Grows(tokens')
  <2>1. Grows(tokens') /\ Issued' = Issued
    BY <1>1, ExpireFacts DEF Expire
  <2>2. QED
    BY <1>1, <2>1, TypesKept DEF Expire, MaybePair
<1>2. ASSUME NEW q \in Requests, Refresh(q)
      PROVE  SessionTypeOK' /\ Grows(tokens')
  <2>1. shown[q] \in Issued
    BY <1>2 DEF Refresh, Sent, MaybePair
  <2>2. Grows(RotateRefresh(shown[q]))
    BY <2>1, RotateAccepted, RotateRefused
  <2>3. RefreshReply(shown[q]) \in DOMAIN RotateRefresh(shown[q]) \cup {NoPair}
    BY <2>1, RotateAccepted, RotateRefused
  <2>4. tokens' = RotateRefresh(shown[q]) /\ Issued' = DOMAIN RotateRefresh(shown[q])
    BY <1>2 DEF Refresh, Issued
  <2>5. MaybePair \subseteq MaybePair'
    BY <2>2, <2>4 DEF Grows, MaybePair
  <2>6. reply' \in [Requests -> MaybePair'] /\ refresh' \in [Requests -> {"none", "sent", "answered"}]
    BY <1>2, <2>3, <2>4, <2>5 DEF Refresh, MaybePair
  <2>7. QED
    BY <1>2, <2>2, <2>4, <2>5, <2>6, TypesKept DEF Refresh
<1>3. ASSUME NEW q \in Requests, NEW u \in Users, SignIn(q, u)
      PROVE  SessionTypeOK' /\ Grows(tokens')
  <2>1. Grows(IssueSession(u)) /\ DOMAIN IssueSession(u) = Issued \cup {Len(tokens) + 1}
    BY IssueFacts
  <2>2. tokens' = IssueSession(u) /\ Issued' = Issued \cup {Len(tokens) + 1}
    BY <1>3, <2>1 DEF SignIn, Issued
  <2>3. reply' \in [Requests -> MaybePair'] /\ MaybePair \subseteq MaybePair'
    BY <1>3, <2>2 DEF SignIn, MaybePair
  <2>4. QED
    BY <1>3, <2>1, <2>2, <2>3, TypesKept DEF SignIn
<1>4. QED
  BY <1>1, <1>2, <1>3 DEF Serve

LEMMA AskTypes ==
    ASSUME SessionTypeOK, NEW q \in Requests, Ask(q)
    PROVE  SessionTypeOK'
<1>1. loaded' \in [Requests -> MaybePair]
  BY DEF Ask, SessionTypeOK
<1>2. QED
  BY <1>1, SameTokens, TypesKept DEF Ask, SessionTypeOK

LEMMA WelcomeTypes ==
    ASSUME SessionTypeOK, NEW q \in Requests, Welcome(q), reply[q] # NoPair
    PROVE  SessionTypeOK'
<1>1. reply[q] \in Issued /\ tokens[reply[q]].user \in Users
  BY Elements, Fields DEF SessionTypeOK, MaybePair
<1>2. QED
  BY <1>1, SameTokens, TypesKept DEF Welcome, SessionTypeOK, MaybePair

LEMMA KeepTypes ==
    ASSUME SessionTypeOK, NEW q \in Requests, Keep(q), reply[q] # NoPair
    PROVE  store' \in MaybePair /\ strays' \subseteq Issued
BY DEF Keep, SessionTypeOK, MaybePair

LEMMA PresentTypes ==
    ASSUME SessionTypeOK, NEW q \in Requests, NEW n \in MaybePair, Present(q, n)
    PROVE  /\ shown' \in [Requests -> MaybePair]
           /\ refresh' \in [Requests -> {"none", "sent", "answered"}]
BY DEF Present, SessionTypeOK

LEMMA KillTypes ==
    ASSUME SessionTypeOK, NEW n \in MaybePair, KillWith(n)
    PROVE  SessionTypeOK'
<1>1. n # NoPair => n \in Issued /\ tokens[n].user \in Users
  BY Elements, Fields DEF SessionTypeOK, MaybePair
<1>2. account' \in Users \cup {None}
  BY <1>1 DEF KillWith, UserOf
<1>3. torn' \subseteq Issued
  BY <1>1 DEF KillWith, PresentedFamily, SessionTypeOK
<1>4. kills' \in 0..MaxKills
  BY SessionAssumption DEF KillWith, SessionTypeOK
<1>5. QED
  BY <1>2, <1>3, <1>4, SameTokens, TypesKept DEF KillWith, SessionTypeOK
-----------------------------------------------------------------------------
\* What a step of the server leaves true in both apps.

LEMMA ServeUsed ==
    ASSUME SessionTypeOK, Sent, UsedWasShown, Serve
    PROVE  UsedWasShown'
<1>0. SUFFICES ASSUME NEW m \in Issued', tokens'[m].used
             PROVE  \E p \in Requests : shown'[p] = m /\ refresh'[p] = "answered"
  BY DEF UsedWasShown
<1> USE DEF SessionTypeOK
<1>1. ASSUME NEW n \in Issued, Expire(n)
      PROVE  m \in Issued /\ tokens[m].used /\ UNCHANGED <<shown, refresh>>
  BY <1>1, <1>0, ExpireFacts DEF Expire
<1>2. ASSUME NEW q \in Requests, NEW u \in Users, SignIn(q, u)
      PROVE  m \in Issued /\ tokens[m].used /\ UNCHANGED <<shown, refresh>>
  <2>1. ~tokens'[Len(tokens) + 1].used /\ Issued' = Issued \cup {Len(tokens) + 1}
    BY <1>2, IssueFacts DEF SignIn, Issued
  <2>2. m # Len(tokens) + 1
    BY <1>0, <2>1, Zenon
  <2>3. m \in Issued
    BY <2>1, <2>2
  <2>4. tokens'[m] = tokens[m]
    BY <1>2, <2>3, IssueFacts DEF SignIn
  <2>5. QED
    BY <1>2, <1>0, <2>3, <2>4 DEF SignIn
<1>3. ASSUME NEW q \in Requests, Refresh(q), NEW p \in Requests, shown[p] = m, refresh[p] = "answered"
      PROVE  shown'[p] = m /\ refresh'[p] = "answered"
  BY <1>3 DEF Refresh
<1>4. ASSUME NEW q \in Requests, Refresh(q)
      PROVE  \/ m \in Issued /\ tokens[m].used
             \/ shown'[q] = m /\ refresh'[q] = "answered"
  <2>1. /\ shown[q] \in Issued /\ tokens' = RotateRefresh(shown[q]) /\ Issued' = DOMAIN tokens'
        /\ shown'[q] = shown[q] /\ refresh'[q] = "answered"
    BY <1>4 DEF Refresh, Sent, MaybePair, Issued
  <2>2. CASE ~Rotatable(shown[q])
    BY <1>0, <2>1, <2>2, RotateRefused
  <2>3. CASE Rotatable(shown[q])
    <3>0. /\ Issued' = Issued \cup {RefreshReply(shown[q])}
          /\ tokens'[RefreshReply(shown[q])] = NewPair(tokens[shown[q]].user, tokens[shown[q]].family)
          /\ tokens'[shown[q]] = [tokens[shown[q]] EXCEPT !.used = TRUE]
          /\ \A k \in Issued : k # shown[q] => tokens'[k] = tokens[k]
      BY <2>1, <2>3, RotateAccepted
    <3>1. ~tokens'[RefreshReply(shown[q])].used
      BY <3>0 DEF NewPair
    <3>2. m # RefreshReply(shown[q])
      BY <1>0, <3>1, Zenon
    <3>3. QED
      BY <1>0, <2>1, <3>0, <3>2
  <2>4. QED
    BY <2>2, <2>3
<1>5. QED
  BY <1>1, <1>2, <1>3, <1>4 DEF Serve, UsedWasShown

\* A pair is revoked as it was, or because a used one of its family is
\* presented.
LEMMA ServeRevoked ==
    ASSUME SessionTypeOK, Sent, Serve, NEW m \in Issued', tokens'[m].revoked
    PROVE  /\ m \in Issued
           /\ \/ tokens[m].revoked
              \/ \E q \in Requests : /\ refresh[q] = "sent" /\ shown[q] \in Issued
                                     /\ tokens[shown[q]].used /\ SameFamily(m, shown[q])
<1> USE DEF SessionTypeOK
<1>1. ASSUME NEW n \in Issued, Expire(n)
      PROVE  m \in Issued /\ tokens[m].revoked
  BY <1>1, ExpireFacts DEF Expire
<1>2. ASSUME NEW q \in Requests, NEW u \in Users, SignIn(q, u)
      PROVE  m \in Issued /\ tokens[m].revoked
  <2>1. ~tokens'[Len(tokens) + 1].revoked /\ Issued' = Issued \cup {Len(tokens) + 1}
    BY <1>2, IssueFacts DEF SignIn, Issued
  <2>2. m # Len(tokens) + 1
    BY <2>1, Zenon
  <2>3. m \in Issued
    BY <2>1, <2>2
  <2>4. tokens'[m] = tokens[m]
    BY <1>2, <2>3, IssueFacts DEF SignIn
  <2>5. QED
    BY <2>3, <2>4
<1>3. ASSUME NEW q \in Requests, Refresh(q)
      PROVE  /\ m \in Issued
             /\ \/ tokens[m].revoked
                \/ /\ refresh[q] = "sent" /\ shown[q] \in Issued
                   /\ tokens[shown[q]].used /\ SameFamily(m, shown[q])
  <2>1. /\ shown[q] \in Issued /\ refresh[q] = "sent"
        /\ tokens' = RotateRefresh(shown[q]) /\ Issued' = DOMAIN tokens'
    BY <1>3 DEF Refresh, Sent, MaybePair, Issued
  <2>2. CASE ~Rotatable(shown[q])
    BY <2>1, <2>2, RotateRefused
  <2>3. CASE Rotatable(shown[q])
    <3>0. /\ Issued' = Issued \cup {RefreshReply(shown[q])}
          /\ tokens'[RefreshReply(shown[q])] = NewPair(tokens[shown[q]].user, tokens[shown[q]].family)
          /\ tokens'[shown[q]] = [tokens[shown[q]] EXCEPT !.used = TRUE]
          /\ \A k \in Issued : k # shown[q] => tokens'[k] = tokens[k]
      BY <2>1, <2>3, RotateAccepted
    <3>1. ~tokens'[RefreshReply(shown[q])].revoked
      BY <3>0 DEF NewPair
    <3>2. m # RefreshReply(shown[q])
      BY <3>1, Zenon
    <3>3. tokens'[shown[q]].revoked = tokens[shown[q]].revoked
      BY <2>1, <3>0, Elements, Fields
    <3>4. QED
      BY <2>1, <3>0, <3>2, <3>3
  <2>4. QED
    BY <2>2, <2>3
<1>4. QED
  BY <1>1, <1>2, <1>3 DEF Serve

-----------------------------------------------------------------------------
\* The iOS app.

LEMMA IosInitially == IosInit => IosBase /\ IosCoordinated
<1> SUFFICES ASSUME IosInit PROVE IosBase /\ IosCoordinated
  OBVIOUS
<1> USE DEF IosInit, SessionInit
<1>1. PICK u \in Users : tokens = <<NewPair(u, 1)>> /\ account = u
  OBVIOUS
<1>2. /\ NewPair(u, 1) \in Pair /\ NewPair(u, 1).family = 1 /\ NewPair(u, 1).user = u
      /\ ~NewPair(u, 1).used /\ ~NewPair(u, 1).revoked
  BY New
<1>3. /\ tokens \in Seq(Pair) /\ Issued = {1} /\ tokens[1].family = 1 /\ tokens[1].user = account
      /\ ~tokens[1].used /\ ~tokens[1].revoked
  BY <1>1, <1>2 DEF Issued
<1>4. SessionTypeOK
  BY <1>1, <1>3, SessionAssumption DEF SessionTypeOK, MaybePair
<1>5. TaskTypeOK
  BY DEF TaskTypeOK, IosPCs
<1>6. IosStages /\ LeaderIsShared
  BY SessionAssumption DEF IosStages, LeaderIsShared, Leads
<1>7. TaskIsAwaited /\ IosReplyIsSuccessor /\ IosReplyIsNew
  BY DEF TaskIsAwaited, IosReplyIsSuccessor, IosReplyIsNew, HoldsPair
<1>8. ExchangedIsGone /\ IosStoreIsAccounts /\ ScreenFollows /\ IosRotatesOnce
  BY <1>3 DEF ExchangedIsGone, IosStoreIsAccounts, ScreenFollows, IosRotatesOnce
<1>9. UsedWasShown /\ IosReuseIsExplained
  BY <1>3 DEF UsedWasShown, IosReuseIsExplained
<1>10. QED
  BY <1>4, <1>5, <1>6, <1>7, <1>8, <1>9 DEF IosTypeOK, IosBase, IosCoordinated

\* The steps of the server.
LEMMA IosServeStep ==
    ASSUME IosBase, UNCHANGED task, Serve
    PROVE  IosBase'
<1> USE DEF IosBase
<1>1. SessionTypeOK /\ TaskTypeOK /\ Sent /\ IosStages /\ LeaderIsShared
  BY DEF IosTypeOK, IosStages, Sent
<1>2. SessionTypeOK'
  BY <1>1, ServeTypes
<1>3. TaskTypeOK'
  <2>1. Issued \subseteq Issued'
    BY <1>1, ServeTypes DEF Grows, Issued
  <2>2. QED
    BY <1>1, <2>1 DEF task, TaskTypeOK, IosPCs, Serve, Expire, Refresh, SignIn, Goto
<1>4. IosStages'
  <2>1. ASSUME NEW n \in Issued, Expire(n) PROVE IosStages'
    BY <1>1, <2>1 DEF task, IosStages, Expire
  <2>2. ASSUME NEW p \in Requests, Refresh(p) PROVE IosStages'
    BY <1>1, <2>2 DEF task, IosStages, Refresh, TaskTypeOK, SessionTypeOK
  <2>3. ASSUME NEW p \in Requests, NEW u \in Users, SignIn(p, u) PROVE IosStages'
    <3>1. Len(tokens) + 1 # NoPair
      BY <1>1 DEF SessionTypeOK, NoPair
    <3>2. QED
      BY <1>1, <2>3, <3>1 DEF task, IosStages, SignIn, Goto, TaskTypeOK, SessionTypeOK
  <2>4. QED
    BY <2>1, <2>2, <2>3 DEF Serve
<1>5. LeaderIsShared'
  <2>1. ASSUME NEW p \in Requests, Leads(p)'
        PROVE  Leads(p)
    <3>1. refresh'[p] # "none" => refresh[p] # "none"
      BY <1>1 DEF Serve, Expire, Refresh, SignIn, SessionTypeOK
    <3>2. pc'[p] \in {"following", "saving", "saved"} => pc'[p] = pc[p]
      BY <1>1 DEF Serve, Expire, Refresh, SignIn, Goto, TaskTypeOK
    <3>3. QED
      BY <2>1, <3>1, <3>2 DEF task, Leads
  <2>2. QED
    BY <1>1, <2>1 DEF task, LeaderIsShared
<1>6. QED
  BY <1>2, <1>3, <1>4, <1>5 DEF IosTypeOK

\* Those of calls at their beginning and their end.
LEMMA IosSharedStep ==
    ASSUME IosBase, NEW q \in Requests, UNCHANGED task,
           \/ Ask(q) \/ Submit(q)
           \/ Answered(q) \/ Unauthorized(q) \/ SignInFails(q)
    PROVE  IosBase'
<1> USE DEF IosBase
<1>1. SessionTypeOK /\ TaskTypeOK /\ IosStages /\ LeaderIsShared
  BY DEF IosTypeOK
<1>2. CASE Ask(q)
  <2>1. SessionTypeOK'
    BY <1>1, <1>2, AskTypes
  <2>2. Issued' = Issued
    BY <1>2 DEF Ask, Issued
  <2>3. TaskTypeOK' /\ IosStages' /\ LeaderIsShared'
    BY <1>1, <1>2, <2>2 DEF task, Ask, Goto, TaskTypeOK, IosPCs, IosStages, LeaderIsShared, Leads, SessionTypeOK
  <2>4. QED
    BY <2>1, <2>3 DEF IosTypeOK
<1>3. CASE Submit(q) \/ Answered(q) \/ Unauthorized(q) \/ SignInFails(q)
  <2>1. UNCHANGED session /\ Issued' = Issued
    BY <1>3 DEF Submit, Answered, Unauthorized, SignInFails, session, Issued
  <2>2. TaskTypeOK' /\ IosStages' /\ LeaderIsShared'
    BY <1>1, <1>3, <2>1 DEF session, task, Submit, Answered, Unauthorized, SignInFails, Goto,
       TaskTypeOK, IosPCs, IosStages, LeaderIsShared, Leads
  <2>3. QED
    BY <1>1, <2>1, <2>2, SessionUnchanged DEF IosTypeOK
<1>4. QED
  BY <1>2, <1>3

\* The steps of refreshSession, of the retry and of signOut that leave the
\* session alone.
LEMMA IosTaskStep ==
    ASSUME IosBase, NEW q \in Requests, UNCHANGED session,
           \/ Reload(q) \/ Follow(q) \/ TaskEnds(q) \/ ResumeWithPair(q) \/ ResumeWithError(q)
           \/ Lead(q) \/ RetrySucceeds(q) \/ RetryFails(q) \/ Press(q) \/ Ignore(q) \/ Cancel(q)
    PROVE  IosBase'
<1> USE DEF IosBase
<1>1. SessionTypeOK /\ TaskTypeOK /\ IosStages /\ LeaderIsShared
  BY DEF IosTypeOK
<1>2. SessionTypeOK'
  BY <1>1, SessionUnchanged
<1> USE DEF session, task, Goto, TaskTypeOK, IosPCs, Issued
<1>3. TaskTypeOK' /\ IosStages' /\ LeaderIsShared'
  <2>1. CASE Reload(q)
    BY <1>1, <2>1 DEF Reload, IosStages, LeaderIsShared, Leads
  <2>2. CASE Follow(q)
    BY <1>1, <2>2 DEF Follow, IosStages, LeaderIsShared, Leads
  <2>3. CASE TaskEnds(q)
    BY <1>1, <2>3 DEF TaskEnds, IosStages, LeaderIsShared, Leads
  <2>4. CASE ResumeWithPair(q)
    BY <1>1, <2>4 DEF ResumeWithPair, Resumable, HoldTask, IosStages, LeaderIsShared, Leads
  <2>5. CASE ResumeWithError(q)
    BY <1>1, <2>5, SessionAssumption DEF ResumeWithError, Resumable, ForgetTask, IosStages, LeaderIsShared, Leads
  <2>6. CASE Lead(q)
    BY <1>1, <2>6, SessionAssumption DEF Lead, ForgetTask, IosStages, LeaderIsShared, Leads
  <2>7. CASE RetrySucceeds(q) \/ RetryFails(q) \/ Press(q) \/ Ignore(q)
    BY <1>1, <2>7 DEF RetrySucceeds, RetryFails, Press, Ignore, IosStages, LeaderIsShared, Leads
  <2>8. CASE Cancel(q)
    <3>1. TaskTypeOK' /\ IosStages'
      BY <1>1, <2>8, SessionAssumption DEF Cancel, IosStages
    <3>2. LeaderIsShared'
      BY <1>1, <2>8, SessionAssumption DEF Cancel, LeaderIsShared, Leads
    <3>3. QED
      BY <3>1, <3>2
  <2>9. QED
    BY <2>1, <2>2, <2>3, <2>4, <2>5, <2>6, <2>7, <2>8
<1>4. QED
  BY <1>2, <1>3 DEF IosTypeOK

\* Those that change it.
LEMMA IosSessionStep ==
    ASSUME IosBase, NEW q \in Requests,
           \/ StartTask(q) \/ SavePair(q) \/ Retry(q) \/ Clear(q) \/ Leave(q)
           \/ SaveSignIn(q) \/ Enter(q) \/ SignedOut(q)
    PROVE  IosBase'
<1> USE DEF IosBase
<1>1. SessionTypeOK /\ TaskTypeOK /\ IosStages /\ LeaderIsShared
  BY DEF IosTypeOK
<1> USE DEF task, Goto, TaskTypeOK, IosPCs
<1>0. Issued' = Issued
  BY DEF StartTask, SavePair, Retry, Clear, Leave, SaveSignIn, Enter, SignedOut, Issued
<1>2. CASE StartTask(q)
  <2>1. loaded[q] \in MaybePair /\ loaded[q] # NoPair
    BY <1>1, <1>2 DEF StartTask, SessionTypeOK, IosStages
  <2>2. SessionTypeOK'
    BY <1>1, <1>2, <2>1, PresentTypes, SameTokens, TypesKept DEF StartTask, SessionTypeOK
  <2>3. TaskTypeOK' /\ IosStages'
    BY <1>0, <1>1, <1>2, <2>1 DEF StartTask, Present, SessionTypeOK, IosStages
  <2>4. LeaderIsShared'
    BY <1>1, <1>2, SessionAssumption
    DEF StartTask, MayLead, Present, SessionTypeOK, LeaderIsShared, Leads
  <2>5. QED
    BY <2>2, <2>3, <2>4 DEF IosTypeOK
<1>3. CASE SavePair(q)
  <2>1. SessionTypeOK'
    BY <1>1, <1>3, KeepTypes, SameTokens, TypesKept DEF SavePair, SessionTypeOK, IosStages
  <2>2. TaskTypeOK' /\ IosStages' /\ LeaderIsShared'
    BY <1>0, <1>1, <1>3 DEF SavePair, IosStages, LeaderIsShared, Leads
  <2>3. QED
    BY <2>1, <2>2 DEF IosTypeOK
<1>4. CASE Retry(q)
  <2>1. loaded' \in [Requests -> MaybePair]
    BY <1>1, <1>4 DEF Retry, SessionTypeOK
  <2>2. SessionTypeOK'
    BY <1>1, <1>4, <2>1, SameTokens, TypesKept DEF Retry, SessionTypeOK
  <2>3. TaskTypeOK' /\ IosStages' /\ LeaderIsShared'
    BY <1>0, <1>1, <1>4 DEF Retry, SessionTypeOK, IosStages, LeaderIsShared, Leads
  <2>4. QED
    BY <2>2, <2>3 DEF IosTypeOK
<1>5. CASE Clear(q) \/ Leave(q)
  <2>1. SessionTypeOK'
    BY <1>1, <1>5, SameTokens, TypesKept DEF Clear, Leave, ClearStore, SessionTypeOK, MaybePair
  <2>2. TaskTypeOK' /\ IosStages' /\ LeaderIsShared'
    BY <1>0, <1>1, <1>5 DEF Clear, Leave, IosStages, LeaderIsShared, Leads
  <2>3. QED
    BY <2>1, <2>2 DEF IosTypeOK
<1>6. CASE SaveSignIn(q)
  <2>1. reply[q] \in Issued /\ tokens[reply[q]].family \in Issued
    BY <1>1, <1>6 DEF SaveSignIn, IosStages, SessionTypeOK, MaybePair
  <2>2. SessionTypeOK'
    BY <1>1, <1>6, <2>1, SameTokens, TypesKept DEF SaveSignIn, SessionTypeOK, MaybePair
  <2>3. TaskTypeOK' /\ IosStages' /\ LeaderIsShared'
    BY <1>0, <1>1, <1>6, <2>1 DEF SaveSignIn, IosStages, LeaderIsShared, Leads
  <2>4. QED
    BY <2>2, <2>3 DEF IosTypeOK
<1>7. CASE Enter(q) \/ SignedOut(q)
  <2>0. ASSUME Enter(q) PROVE account' \in Users
    <3>1. reply[q] \in Issued
      BY <1>1, <2>0 DEF Enter, IosStages, SessionTypeOK, MaybePair
    <3>2. tokens[reply[q]].user \in Users
      BY <1>1, <3>1, Elements DEF SessionTypeOK, Pair
    <3>3. QED
      BY <2>0, <3>2 DEF Enter
  <2>1. account' \in Users \cup {None}
    BY <1>7, <2>0 DEF SignedOut
  <2>2. SessionTypeOK'
    BY <1>1, <1>7, <2>1, SameTokens, TypesKept DEF Enter, SignedOut, SessionTypeOK
  <2>3. TaskTypeOK' /\ IosStages' /\ LeaderIsShared'
    BY <1>0, <1>1, <1>7 DEF Enter, SignedOut, IosStages, LeaderIsShared, Leads
  <2>4. QED
    BY <2>2, <2>3 DEF IosTypeOK
<1>8. QED
  BY <1>2, <1>3, <1>4, <1>5, <1>6, <1>7

LEMMA IosKillStep ==
    ASSUME IosBase, KillIos
    PROVE  IosBase'
<1> USE DEF IosBase
<1>1. SessionTypeOK /\ TaskTypeOK /\ IosStages /\ LeaderIsShared
  BY DEF IosTypeOK
<1>2. SessionTypeOK'
  BY <1>1, KillTypes DEF KillIos, SessionTypeOK
<1>3. TaskTypeOK'
  BY <1>1 DEF KillIos, KillWith, TaskTypeOK, IosPCs, Issued
<1>4. IosStages' /\ LeaderIsShared'
  BY <1>1, SessionAssumption DEF KillIos, KillWith, TaskTypeOK, IosStages, LeaderIsShared, Leads
<1>5. QED
  BY <1>2, <1>3, <1>4 DEF IosTypeOK

LEMMA IosStep == IosBase /\ [IosNext]_iosVars => IosBase'
<1> SUFFICES ASSUME IosBase, [IosNext]_iosVars PROVE IosBase'
  OBVIOUS
<1>1. ASSUME NEW q \in Requests, ProceedIos(q) \/ Press(q)
      PROVE  IosBase'
  <2>1. CASE (Answered(q) \/ Unauthorized(q) \/ SignInFails(q)) /\ UNCHANGED task
    BY <2>1, IosSharedStep
  <2>2. QED
    BY <1>1, <2>1, IosTaskStep, IosSessionStep
    DEF ProceedIos, Press, Reload, Follow, TaskEnds, ResumeWithPair, ResumeWithError, Lead,
        RetrySucceeds, RetryFails, Ignore, Cancel
<1>2. ASSUME NEW q \in Requests, Ask(q) \/ Submit(q), UNCHANGED task
      PROVE  IosBase'
  BY <1>2, IosSharedStep
<1>3. CASE Serve /\ UNCHANGED task
  BY <1>3, IosServeStep
<1>4. CASE KillIos
  BY <1>4, IosKillStep
<1>5. CASE UNCHANGED iosVars
  <2>1. UNCHANGED session /\ UNCHANGED pc /\ UNCHANGED task
    BY <1>5 DEF iosVars
  <2>2. SessionTypeOK'
    BY <2>1, SessionUnchanged DEF IosBase, IosTypeOK
  <2>3. TaskTypeOK' /\ IosStages' /\ LeaderIsShared'
    BY <2>1 DEF session, task, IosBase, IosTypeOK, TaskTypeOK, Issued, IosStages, LeaderIsShared, Leads
  <2>4. QED
    BY <2>2, <2>3 DEF IosBase, IosTypeOK
<1>6. QED
  BY <1>1, <1>2, <1>3, <1>4, <1>5 DEF IosNext

\* A step of the server keeps what the app relies on.
LEMMA IosServeCoordinated ==
    ASSUME IosBase, IosCoordinated, UNCHANGED task, Serve
    PROVE  IosCoordinated'
<1> USE DEF IosCoordinated
<1>1. SessionTypeOK /\ TaskTypeOK /\ Sent /\ IosStages
  BY DEF IosBase, IosTypeOK, IosStages, Sent
<1>2. SessionTypeOK' /\ Grows(tokens')
  BY <1>1, ServeTypes
<1>3. UNCHANGED <<store, account, loaded, shown, strays, torn, stale, cancelled, crossed, outcome, awaited>>
  BY DEF Serve, Expire, Refresh, SignIn, task
<1>4. /\ \A m \in Issued : tokens'[m].user = tokens[m].user /\ tokens'[m].family = tokens[m].family
      /\ store # NoPair => store \in Issued
      /\ \A p \in Requests : shown[p] # NoPair => shown[p] \in Issued
  BY <1>1, <1>2 DEF Grows, SessionTypeOK, MaybePair
<1>5. TaskIsAwaited'
  <2>1. ASSUME NEW n \in Issued, Expire(n)
        PROVE  TaskIsAwaited'
    BY <1>3, <2>1 DEF TaskIsAwaited, Expire
  <2>2. ASSUME NEW p \in Requests, Refresh(p)
        PROVE  TaskIsAwaited'
    BY <1>1, <1>3, <2>2 DEF TaskIsAwaited, Refresh, SessionTypeOK
  <2>3. ASSUME NEW p \in Requests, NEW u \in Users, SignIn(p, u)
        PROVE  TaskIsAwaited'
    BY <1>1, <1>3, <2>3 DEF TaskIsAwaited, SignIn, Goto, IosStages, TaskTypeOK
  <2>4. QED
    BY <2>1, <2>2, <2>3 DEF Serve
<1>6. ExchangedIsGone'
  <2>1. \A p \in Requests : pc[p] \in {"following", "saving"} => pc'[p] = pc[p]
    BY <1>1 DEF Serve, Expire, Refresh, SignIn, Goto, TaskTypeOK
  <2>2. QED
    BY <1>3, <1>4, <2>1 DEF ExchangedIsGone
<1>7. UsedWasShown'
  BY <1>1, ServeUsed
<1>8. IosStoreIsAccounts' /\ ScreenFollows' /\ IosRotatesOnce'
  <2>1. \A p \in Requests : pc[p] \in {"entering", "left"} <=> pc'[p] \in {"entering", "left"}
    BY <1>1 DEF Serve, Expire, Refresh, SignIn, Goto, TaskTypeOK
  <2>2. \A p \in Requests : pc[p] \in {"entering", "left"} => pc'[p] = pc[p]
    BY <1>1 DEF Serve, Expire, Refresh, SignIn, Goto, TaskTypeOK
  <2>3. \A p \in Requests : pc[p] = "entering" =>
           reply'[p] = reply[p] /\ tokens'[reply[p]].user = tokens[reply[p]].user
    <3>1. \A p \in Requests : pc[p] = "entering" => refresh[p] = "none" /\ reply[p] \in Issued
      BY <1>1 DEF Sent, IosStages, SessionTypeOK, MaybePair
    <3>2. \A p \in Requests : pc[p] = "entering" => reply'[p] = reply[p]
      BY <1>1, <3>1 DEF Serve, Expire, Refresh, SignIn, SessionTypeOK
    <3>3. QED
      BY <1>4, <3>1, <3>2
  <2>4. IosStoreIsAccounts' /\ ScreenFollows'
    BY <1>3, <1>4, <2>1, <2>2, <2>3 DEF IosStoreIsAccounts, ScreenFollows
  <2>5. IosRotatesOnce'
    BY <1>3, <1>4 DEF IosRotatesOnce
  <2>6. QED
    BY <2>4, <2>5
<1>9. IosReplyIsSuccessor' /\ IosReplyIsNew'
  <2>1. CASE UNCHANGED <<reply, pc>>
    <3>1. \A p \in Requests : reply[p] # NoPair => reply[p] \in Issued
      BY <1>1 DEF SessionTypeOK, MaybePair
    <3>2. QED
      BY <1>3, <1>4, <2>1, <3>1 DEF IosReplyIsSuccessor, SameFamily, IosReplyIsNew, HoldsPair
  <2>2. ASSUME NEW q \in Requests, Refresh(q)
        PROVE  IosReplyIsSuccessor' /\ IosReplyIsNew'
    <3>1. /\ shown[q] \in Issued /\ tokens' = RotateRefresh(shown[q]) /\ Issued' = DOMAIN tokens'
          /\ reply' = [reply EXCEPT ![q] = RefreshReply(shown[q])] /\ UNCHANGED pc
      BY <1>1, <2>2 DEF Refresh, Sent, SessionTypeOK, MaybePair, Issued
    <3>2. \/ RefreshReply(shown[q]) = NoPair
          \/ /\ RefreshReply(shown[q]) \notin Issued /\ RefreshReply(shown[q]) # NoPair
             /\ tokens'[RefreshReply(shown[q])] = NewPair(tokens[shown[q]].user, tokens[shown[q]].family)
      BY <1>1, <3>1, RotateAccepted, RotateRefused DEF SessionTypeOK
    <3>3. reply'[q] = RefreshReply(shown[q]) /\ \A p \in Requests \ {q} : reply'[p] = reply[p]
      BY <1>1, <3>1 DEF SessionTypeOK
    <3>4. IosReplyIsNew'
      BY <1>1, <1>3, <3>1, <3>2, <3>3 DEF IosReplyIsNew, HoldsPair, SessionTypeOK, MaybePair
    <3>5. IosReplyIsSuccessor'
      <4>1. ASSUME NEW p \in Requests, p # q, shown'[p] # NoPair, reply'[p] # NoPair
            PROVE  tokens'[reply'[p]].user = tokens'[shown'[p]].user /\ SameFamily(reply[p], shown[p])'
        <5>1. reply'[p] = reply[p] /\ shown'[p] = shown[p] /\ reply[p] \in Issued /\ shown[p] \in Issued
          BY <1>1, <1>3, <3>3, <4>1 DEF SessionTypeOK, MaybePair
        <5>2. QED
          BY <1>4, <4>1, <5>1 DEF IosReplyIsSuccessor, SameFamily
      <4>2. reply'[q] # NoPair =>
               tokens'[reply'[q]].user = tokens'[shown'[q]].user /\ SameFamily(reply[q], shown[q])'
        BY <1>3, <1>4, <3>1, <3>2, <3>3 DEF NewPair, SameFamily
      <4>3. QED
        BY <4>1, <4>2 DEF IosReplyIsSuccessor
    <3>6. QED
      BY <3>4, <3>5
  <2>3. ASSUME NEW q \in Requests, NEW u \in Users, SignIn(q, u)
        PROVE  IosReplyIsSuccessor' /\ IosReplyIsNew'
    <3>1. /\ Len(tokens) + 1 \notin Issued /\ Len(tokens) + 1 # NoPair
      BY <1>1, IssueFacts DEF SessionTypeOK
    <3>2. /\ reply' = [reply EXCEPT ![q] = Len(tokens) + 1] /\ shown[q] = NoPair
          /\ pc' = [pc EXCEPT ![q] = "welcomed"]
      BY <1>1, <2>3 DEF SignIn, Goto, IosStages
    <3>3. IosReplyIsNew'
      BY <1>1, <1>3, <3>1, <3>2 DEF IosReplyIsNew, HoldsPair, SessionTypeOK, TaskTypeOK, MaybePair
    <3>4. IosReplyIsSuccessor'
      <4>1. ASSUME NEW p \in Requests, shown'[p] # NoPair, reply'[p] # NoPair
            PROVE  tokens'[reply'[p]].user = tokens'[shown'[p]].user /\ SameFamily(reply[p], shown[p])'
        <5>1. reply'[p] = reply[p] /\ shown'[p] = shown[p] /\ reply[p] \in Issued /\ shown[p] \in Issued
          BY <1>1, <1>3, <3>2, <4>1 DEF SessionTypeOK, MaybePair
        <5>2. QED
          BY <1>4, <4>1, <5>1 DEF IosReplyIsSuccessor, SameFamily
      <4>2. QED
        BY <4>1 DEF IosReplyIsSuccessor
    <3>5. QED
      BY <3>3, <3>4
  <2>4. QED
    BY <2>1, <2>2, <2>3 DEF Serve, Expire
<1>10. IosReuseIsExplained'
  <2>1. SUFFICES ASSUME NEW m \in Issued', tokens'[m].revoked, tokens'[m].family \notin torn,
                        ~ \E q \in stale : SameFamily(shown[q], m)'
                 PROVE  \E a, b \in Requests :
                           /\ a # b /\ shown[a] = shown[b] /\ shown[a] # NoPair /\ SameFamily(shown[a], m)'
                           /\ outcome[a] = "failed" \/ cancelled # {}
    BY <1>3 DEF IosReuseIsExplained
  <2>2. m \in Issued
    BY <1>1, <2>1, ServeRevoked
  <2>3. \A p \in Requests : shown[p] # NoPair => (SameFamily(shown[p], m)' <=> SameFamily(shown[p], m))
    BY <1>3, <1>4, <2>2 DEF SameFamily
  <2>4. tokens[m].family \notin torn /\ \A q \in stale : ~SameFamily(shown[q], m)
    <3>1. \A q \in stale : q \in Requests /\ shown[q] # NoPair
      BY <1>1 DEF TaskTypeOK, TaskIsAwaited
    <3>2. QED
      BY <1>3, <1>4, <2>1, <2>2, <2>3, <3>1
  <2>5. CASE tokens[m].revoked
    <3>1. PICK a, b \in Requests :
              /\ a # b /\ shown[a] = shown[b] /\ shown[a] # NoPair /\ SameFamily(shown[a], m)
              /\ outcome[a] = "failed" \/ cancelled # {}
      BY <2>2, <2>4, <2>5, Zenon DEF IosReuseIsExplained
    <3>2. SameFamily(shown[a], m)'
      BY <2>3, <3>1
    <3>3. QED
      BY <3>1, <3>2
  <2>6. ASSUME NEW q \in Requests, refresh[q] = "sent", shown[q] \in Issued,
               tokens[shown[q]].used, SameFamily(m, shown[q])
        PROVE  \E a, b \in Requests :
                  /\ a # b /\ shown[a] = shown[b] /\ shown[a] # NoPair /\ SameFamily(shown[a], m)'
                  /\ outcome[a] = "failed" \/ cancelled # {}
    <3>1. PICK p \in Requests : shown[p] = shown[q] /\ refresh[p] = "answered"
      BY <2>6, Zenon DEF UsedWasShown
    <3>2. p # q /\ shown[q] # NoPair
      BY <1>1, <2>6, <3>1 DEF Sent
    <3>3. tokens[shown[q]].family \notin torn /\ {p, q} \cap stale = {}
      BY <2>4, <2>6, <3>1, <3>2 DEF SameFamily
    <3>4. "failed" \in {outcome[p], outcome[q]} \/ cancelled # {}
      BY <3>1, <3>2, <3>3 DEF IosRotatesOnce
    <3>5. SameFamily(shown[q], m)' /\ SameFamily(shown[p], m)'
      BY <2>3, <2>6, <3>1, <3>2 DEF SameFamily
    <3>6. CASE outcome[p] = "failed" \/ cancelled # {}
      BY <3>1, <3>2, <3>5, <3>6
    <3>7. CASE outcome[q] = "failed"
      BY <3>1, <3>2, <3>5, <3>7
    <3>8. QED
      BY <3>4, <3>6, <3>7
  <2>7. QED
    BY <1>1, <2>1, <2>5, <2>6, ServeRevoked
<1>11. QED
  BY <1>5, <1>6, <1>7, <1>8, <1>9, <1>10

\* What is known of the pairs presented so far is not disturbed by a step that
\* neither presents nor exchanges one.
LEMMA IosEvidenceKept ==
    ASSUME UsedWasShown, IosRotatesOnce, IosReuseIsExplained,
           UNCHANGED <<tokens, shown, refresh>>, torn \subseteq torn', stale \subseteq stale',
           cancelled \subseteq cancelled',
           \A p \in Requests : outcome[p] = "failed" => outcome'[p] = "failed"
    PROVE  UsedWasShown' /\ IosRotatesOnce' /\ IosReuseIsExplained'
<1>1. UsedWasShown'
  BY DEF UsedWasShown, Issued
<1>2. IosRotatesOnce'
  BY DEF IosRotatesOnce
<1>3. IosReuseIsExplained'
  BY DEF IosReuseIsExplained, Issued, SameFamily
<1>4. QED
  BY <1>1, <1>2, <1>3

\* A call begins, or ends without a word to the store.
LEMMA IosCallCoordinated ==
    ASSUME IosBase, IosCoordinated, NEW q \in Requests, UNCHANGED task,
           Ask(q) \/ Submit(q) \/ Answered(q) \/ Unauthorized(q) \/ SignInFails(q)
    PROVE  IosCoordinated'
<1> USE DEF IosCoordinated
<1>1. SessionTypeOK /\ TaskTypeOK /\ IosStages
  BY DEF IosBase, IosTypeOK
<1>2. /\ UNCHANGED <<tokens, store, account, shown, refresh, reply, strays, torn>>
      /\ UNCHANGED <<outcome, awaited, stale, cancelled, crossed>>
      /\ loaded' = loaded \/ loaded' = [loaded EXCEPT ![q] = store]
      /\ pc[q] \in {"idle", "asked", "signing", "welcomed"}
      /\ pc' = [pc EXCEPT ![q] = pc'[q]] /\ pc'[q] \in {"asked", "waiting", "signing", "done"}
  BY <1>1 DEF Ask, Submit, Answered, Unauthorized, SignInFails, Goto, session, task, TaskTypeOK
<1>3. UsedWasShown' /\ IosRotatesOnce' /\ IosReuseIsExplained'
  BY <1>2, IosEvidenceKept
<1>4. TaskIsAwaited' /\ ExchangedIsGone'
  BY <1>1, <1>2 DEF TaskIsAwaited, ExchangedIsGone, TaskTypeOK
<1>5. IosReplyIsSuccessor' /\ IosStoreIsAccounts' /\ ScreenFollows'
  BY <1>1, <1>2 DEF IosReplyIsSuccessor, IosStoreIsAccounts, ScreenFollows, SameFamily, TaskTypeOK
<1>6. IosReplyIsNew'
  BY <1>1, <1>2 DEF IosReplyIsNew, HoldsPair, TaskTypeOK, SessionTypeOK
<1>7. QED
  BY <1>3, <1>4, <1>5, <1>6

\* So do the tasks come and go, and the sign-outs up to the clearing of the store.
LEMMA IosTaskCoordinated ==
    ASSUME IosBase, IosCoordinated, NEW q \in Requests, UNCHANGED session,
           \/ Reload(q) \/ Follow(q) \/ TaskEnds(q) \/ ResumeWithPair(q) \/ ResumeWithError(q)
           \/ Lead(q) \/ RetrySucceeds(q) \/ RetryFails(q) \/ Press(q) \/ Ignore(q) \/ Cancel(q)
    PROVE  IosCoordinated'
<1> USE DEF IosCoordinated, session
<1>1. SessionTypeOK /\ TaskTypeOK /\ IosStages
  BY DEF IosBase, IosTypeOK
<1>2. stale' = stale /\ cancelled \subseteq cancelled' /\ crossed' = crossed
  BY DEF Reload, Follow, TaskEnds, ResumeWithPair, ResumeWithError, Lead, RetrySucceeds,
     RetryFails, Press, Ignore, Cancel, task
<1>3. /\ \A p \in Requests : outcome[p] # "none" => outcome'[p] = outcome[p]
      /\ \A p \in Requests : outcome'[p] # outcome[p] => refresh[p] # "none"
  BY <1>1 DEF Reload, Follow, TaskEnds, ResumeWithPair, ResumeWithError, Lead, RetrySucceeds,
     RetryFails, Press, Ignore, Cancel, task, TaskTypeOK, IosStages
<1>4. UsedWasShown' /\ IosRotatesOnce' /\ IosReuseIsExplained'
  BY <1>2, <1>3, IosEvidenceKept
<1>5. IosReplyIsSuccessor' /\ IosStoreIsAccounts' /\ ScreenFollows'
  <2>1. \A p \in Requests : /\ pc[p] = "entering" <=> pc'[p] = "entering"
                            /\ pc[p] = "left" <=> pc'[p] = "left"
    BY <1>1 DEF Reload, Follow, TaskEnds, ResumeWithPair, Resumable, ResumeWithError, Lead, RetrySucceeds,
       RetryFails, Press, Ignore, Cancel, Goto, TaskTypeOK
  <2>2. QED
    BY <1>2, <2>1 DEF IosReplyIsSuccessor, IosStoreIsAccounts, ScreenFollows, SameFamily
<1>6. \A p \in Requests : HoldsPair(p)' => HoldsPair(p)
  <2> USE <1>1 DEF Goto, task, HoldsPair, TaskTypeOK
  <2>1. CASE Reload(q) \/ Follow(q)
    BY <2>1 DEF Reload, Follow, IosStages
  <2>2. CASE TaskEnds(q) \/ ResumeWithPair(q)
    BY <2>2 DEF TaskEnds, ResumeWithPair, Resumable
  <2>3. CASE ResumeWithError(q) \/ Lead(q) \/ Cancel(q)
    BY <2>3 DEF ResumeWithError, Lead, Cancel
  <2>4. CASE RetrySucceeds(q) \/ RetryFails(q) \/ Press(q) \/ Ignore(q)
    BY <2>4 DEF RetrySucceeds, RetryFails, Press, Ignore
  <2>5. QED
    BY <2>1, <2>2, <2>3, <2>4
<1>7. IosReplyIsNew'
  BY <1>6 DEF IosReplyIsNew
<1>8. TaskIsAwaited' /\ ExchangedIsGone'
  <2> USE DEF Goto, task, TaskTypeOK, TaskIsAwaited, ExchangedIsGone
  <2>1. CASE Reload(q)
    BY <1>1, <2>1 DEF Reload, IosStages
  <2>2. CASE Follow(q)
    BY <1>1, <2>2 DEF Follow, IosStages
  <2>3. CASE TaskEnds(q)
    BY <1>1, <2>3 DEF TaskEnds, IosStages
  <2>4. CASE ResumeWithPair(q)
    BY <1>1, <2>4 DEF ResumeWithPair, Resumable
  <2>5. CASE ResumeWithError(q)
    BY <1>1, <2>5 DEF ResumeWithError, Resumable
  <2>6. CASE Lead(q) \/ RetrySucceeds(q) \/ RetryFails(q) \/ Press(q) \/ Ignore(q)
    BY <1>1, <2>6 DEF Lead, RetrySucceeds, RetryFails, Press, Ignore
  <2>7. CASE Cancel(q)
    BY <1>1, <1>3, <2>7 DEF Cancel, IosStages
  <2>8. QED
    BY <2>1, <2>2, <2>3, <2>4, <2>5, <2>6, <2>7
<1>9. QED
  BY <1>4, <1>5, <1>7, <1>8

\* A pair is presented, with no task shared: whoever has presented it before
\* has failed, was cancelled or has had it replaced.
LEMMA IosStartCoordinated ==
    ASSUME IosBase, IosCoordinated, NEW q \in Requests, StartTask(q)
    PROVE  IosCoordinated'
<1> USE DEF IosCoordinated
<1>1. SessionTypeOK /\ TaskTypeOK /\ IosStages /\ LeaderIsShared
  BY DEF IosBase, IosTypeOK
<1>2. /\ pc[q] = "deciding" /\ loaded[q] # NoPair /\ refreshTask = None
      /\ shown[q] = NoPair /\ reply[q] = NoPair /\ refresh[q] = "none" /\ outcome[q] = "none"
  BY <1>1 DEF StartTask, MayLead, IosStages
<1>3. /\ UNCHANGED <<tokens, store, account, loaded, reply, strays, torn, outcome, cancelled, crossed>>
      /\ shown' = [shown EXCEPT ![q] = loaded[q]] /\ refresh' = [refresh EXCEPT ![q] = "sent"]
      /\ pc' = [pc EXCEPT ![q] = "following"] /\ awaited' = [awaited EXCEPT ![q] = q]
      /\ stale' = IF loaded[q] = store THEN stale ELSE stale \cup {q}
  BY DEF StartTask, Present, Goto
<1>4. TaskIsAwaited' /\ ExchangedIsGone'
  BY <1>1, <1>2, <1>3 DEF TaskIsAwaited, ExchangedIsGone, TaskTypeOK, SessionTypeOK
<1>5. IosReplyIsSuccessor' /\ IosStoreIsAccounts' /\ ScreenFollows'
  BY <1>1, <1>2, <1>3
  DEF IosReplyIsSuccessor, IosStoreIsAccounts, ScreenFollows, SameFamily, SessionTypeOK, TaskTypeOK
<1>6. IosReplyIsNew'
  BY <1>1, <1>2, <1>3 DEF IosReplyIsNew, HoldsPair, TaskTypeOK, SessionTypeOK
<1>7. UsedWasShown'
  <2>1. SUFFICES ASSUME NEW n \in Issued, tokens[n].used
                 PROVE  \E p \in Requests : shown'[p] = n /\ refresh'[p] = "answered"
    BY <1>3 DEF UsedWasShown, Issued
  <2>2. PICK p \in Requests : shown[p] = n /\ refresh[p] = "answered"
    BY <2>1 DEF UsedWasShown
  <2>3. p # q
    BY <1>2, <2>2
  <2>4. QED
    BY <1>1, <1>3, <2>2, <2>3 DEF SessionTypeOK
<1>8. IosRotatesOnce'
  <2>1. ASSUME NEW p \in Requests, p # q, shown[p] = loaded[q],
               q \notin stale', cancelled = {}, outcome[p] # "failed"
        PROVE  tokens[shown[p]].family \in torn
    <3>1. shown[p] = store /\ store # NoPair
      BY <1>2, <1>3, <2>1
    <3>2. ~Leads(p)
      BY <1>1, <1>2, <2>1, SessionAssumption DEF LeaderIsShared
    <3>3. outcome[p] = "ok"
      BY <1>1, <2>1, <3>1, <3>2 DEF Leads, TaskIsAwaited, TaskTypeOK
    <3>4. QED
      BY <3>1, <3>2, <3>3 DEF ExchangedIsGone, Leads
  <2>2. \A p \in Requests \ {q} : shown'[p] = shown[p]
    BY <1>1, <1>3 DEF SessionTypeOK
  <2>3. shown'[q] = loaded[q] /\ stale \subseteq stale'
    BY <1>1, <1>3 DEF SessionTypeOK
  <2>4. QED
    BY <1>3, <2>1, <2>2, <2>3 DEF IosRotatesOnce
<1>9. IosReuseIsExplained'
  <2>1. SUFFICES ASSUME NEW n \in Issued, tokens[n].revoked, tokens[n].family \notin torn
                 PROVE  \/ \E p \in stale' : SameFamily(shown[p], n)'
                        \/ \E a, b \in Requests :
                              /\ a # b /\ shown'[a] = shown'[b] /\ shown'[a] # NoPair
                              /\ SameFamily(shown[a], n)'
                              /\ outcome'[a] = "failed" \/ cancelled' # {}
    BY <1>3 DEF IosReuseIsExplained, Issued
  <2>2. ASSUME NEW p \in Requests, shown[p] # NoPair
        PROVE  shown'[p] = shown[p] /\ (SameFamily(shown[p], n)' <=> SameFamily(shown[p], n))
    BY <1>1, <1>2, <1>3, <2>2 DEF SessionTypeOK, SameFamily
  <2>3. CASE \E p \in stale : SameFamily(shown[p], n)
    <3>1. PICK p \in stale : SameFamily(shown[p], n)
      BY <2>3
    <3>2. p \in Requests /\ shown[p] # NoPair /\ p \in stale'
      BY <1>1, <1>3 DEF TaskTypeOK, TaskIsAwaited
    <3>3. QED
      BY <2>2, <3>1, <3>2
  <2>4. ASSUME NEW a \in Requests, NEW b \in Requests,
               a # b, shown[a] = shown[b], shown[a] # NoPair, SameFamily(shown[a], n),
               outcome[a] = "failed" \/ cancelled # {}
        PROVE  \E x, y \in Requests :
                  /\ x # y /\ shown'[x] = shown'[y] /\ shown'[x] # NoPair
                  /\ SameFamily(shown[x], n)'
                  /\ outcome'[x] = "failed" \/ cancelled' # {}
    BY <1>3, <2>2, <2>4
  <2>5. QED
    BY <2>1, <2>3, <2>4, Zenon DEF IosReuseIsExplained
<1>10. QED
  BY <1>4, <1>5, <1>6, <1>7, <1>8, <1>9

\* A pair is saved, read for the retry, or cleared, and the screen follows.
LEMMA IosStoreCoordinated ==
    ASSUME IosBase, IosCoordinated, NEW q \in Requests,
           \/ SavePair(q) \/ Retry(q) \/ Clear(q) \/ Leave(q)
           \/ SaveSignIn(q) \/ Enter(q) \/ SignedOut(q)
    PROVE  IosCoordinated'
<1> USE DEF IosCoordinated
<1>1. SessionTypeOK /\ TaskTypeOK /\ IosStages
  BY DEF IosBase, IosTypeOK
<1>2. /\ UNCHANGED <<tokens, shown, refresh, reply, torn>>
      /\ UNCHANGED <<refreshTask, awaited, outcome, stale, cancelled>>
      /\ loaded' = loaded \/ loaded' = [loaded EXCEPT ![q] = store]
      /\ pc[q] \in {"saving", "retrying", "refused", "leaving", "welcomed", "entering", "left"}
      /\ pc' = [pc EXCEPT ![q] = pc'[q]]
      /\ pc'[q] \in {"saved", "refused", "retried", "expired", "entering", "left", "done"}
  BY <1>1 DEF SavePair, Retry, Clear, Leave, SaveSignIn, Enter, SignedOut, Goto, task, TaskTypeOK
<1>3. store' \in {store, NoPair} \/ (store' = reply[q] /\ HoldsPair(q))
  BY <1>1 DEF SavePair, Keep, Retry, Clear, Leave, ClearStore, SaveSignIn, Enter, SignedOut, HoldsPair, IosStages
<1>4. UsedWasShown' /\ IosRotatesOnce' /\ IosReuseIsExplained'
  BY <1>2, IosEvidenceKept
<1>5. TaskIsAwaited' /\ IosReplyIsSuccessor'
  BY <1>1, <1>2 DEF TaskIsAwaited, IosReplyIsSuccessor, SameFamily, TaskTypeOK
<1>6. IosReplyIsNew'
  <2>1. \A p \in Requests : HoldsPair(p)' => HoldsPair(p) /\ (p = q => ~HoldsPair(q)')
    BY <1>1, <1>2 DEF HoldsPair, TaskTypeOK
  <2>2. loaded' = loaded \/ \A p \in Requests : loaded'[p] = IF p = q THEN store ELSE loaded[p]
    BY <1>1, <1>2 DEF SessionTypeOK
  <2>3. QED
    BY <1>2, <1>3, <2>1, <2>2 DEF IosReplyIsNew, HoldsPair
<1>7. ExchangedIsGone'
  <2>1. CASE store' \in {NoPair, reply[q]} /\ store' # store
    BY <1>2, <1>3, <2>1 DEF ExchangedIsGone, IosReplyIsNew
  <2>2. CASE store' = store
    <3>1. pc[q] = "saving" => ~HoldsPair(q) \/ store' # store
      BY <1>3 DEF SavePair, Keep, Retry, Clear, Leave, ClearStore, SaveSignIn, Enter, SignedOut, IosReplyIsNew
    <3>2. pc[q] # "saving"
      BY <1>1, <2>2, <3>1 DEF HoldsPair, IosStages
    <3>3. QED
      BY <1>1, <1>2, <2>2, <3>2 DEF ExchangedIsGone, TaskTypeOK
  <2>3. QED
    BY <1>3, <2>1, <2>2
<1>8. IosStoreIsAccounts' /\ ScreenFollows'
  <2> USE DEF IosStoreIsAccounts, ScreenFollows
  <2>1. CASE SavePair(q)
    <3>1. /\ store' = reply[q] /\ reply[q] # NoPair /\ shown[q] # NoPair
          /\ UNCHANGED <<tokens, account, reply, crossed>>
          /\ (store = shown[q] /\ strays' = strays) \/ tokens[reply[q]].family \in strays'
          /\ \A p \in Requests : pc'[p] \in {"entering", "left"} <=> pc[p] \in {"entering", "left"}
          /\ \A p \in Requests : pc[p] \in {"entering", "left"} => pc'[p] = pc[p]
      BY <1>1, <2>1 DEF SavePair, Keep, Goto, task, IosStages, TaskIsAwaited, TaskTypeOK
    <3>2. CASE tokens[reply[q]].family \in strays'
      BY <3>1, <3>2
    <3>3. CASE store = shown[q] /\ strays' = strays
      BY <3>1, <3>3 DEF IosReplyIsSuccessor, SameFamily
    <3>4. QED
      BY <3>1, <3>2, <3>3
  <2>2. CASE Retry(q)
    BY <1>1, <2>2 DEF Retry, Goto, task, TaskTypeOK
  <2>3. CASE Clear(q) \/ Leave(q)
    BY <2>3 DEF Clear, Leave, ClearStore
  <2>4. CASE SaveSignIn(q)
    <3>1. /\ store' = reply[q] /\ UNCHANGED <<tokens, reply>>
          /\ pc'[q] = "entering" /\ \A p \in Requests \ {q} : pc'[p] = pc[p]
          /\ (\E p \in Requests : pc[p] \in {"entering", "left"}) => tokens[reply[q]].family \in crossed'
      BY <1>1, <2>4 DEF SaveSignIn, Goto, TaskTypeOK
    <3>2. QED
      BY <3>1
  <2>5. CASE Enter(q) \/ SignedOut(q)
    <3>1. /\ UNCHANGED <<tokens, store, reply, strays, crossed>>
          /\ pc'[q] = "done" /\ \A p \in Requests \ {q} : pc'[p] = pc[p]
          /\ \/ pc[q] = "entering" /\ account' = tokens[reply[q]].user
             \/ pc[q] = "left"
      BY <1>1, <2>5 DEF Enter, SignedOut, Goto, task, TaskTypeOK
    <3>2. QED
      BY <3>1
  <2>6. QED
    BY <2>1, <2>2, <2>3, <2>4, <2>5
<1>9. QED
  BY <1>4, <1>5, <1>6, <1>7, <1>8

\* All calls are over; what they had presented is torn if it is still stored.
LEMMA IosKillCoordinated ==
    ASSUME IosBase, IosCoordinated, KillIos
    PROVE  IosCoordinated'
<1> USE DEF IosCoordinated
<1>1. SessionTypeOK /\ TaskTypeOK /\ IosStages
  BY DEF IosBase, IosTypeOK
<1>2. /\ UNCHANGED <<tokens, store, loaded, shown, refresh, reply, strays, awaited, stale, cancelled>>
      /\ torn \subseteq torn'
      /\ \A p \in Requests : pc'[p] \in {"idle", "done"}
      /\ \A p \in Requests : outcome'[p] = IF refresh[p] # "none" /\ outcome[p] = "none"
                                           THEN "failed" ELSE outcome[p]
  BY DEF KillIos, KillWith
<1>3. UsedWasShown' /\ IosRotatesOnce' /\ IosReuseIsExplained'
  BY <1>2, IosEvidenceKept
<1>4. TaskIsAwaited'
  BY <1>1, <1>2 DEF TaskIsAwaited, IosStages
<1>5. IosReplyIsSuccessor' /\ IosReplyIsNew'
  BY <1>2 DEF IosReplyIsSuccessor, IosReplyIsNew, HoldsPair, SameFamily
<1>6. ExchangedIsGone' /\ IosStoreIsAccounts' /\ ScreenFollows'
  BY <1>2 DEF KillIos, KillWith, UserOf, PresentedFamily, ExchangedIsGone, IosStoreIsAccounts, ScreenFollows
<1>7. QED
  BY <1>3, <1>4, <1>5, <1>6

LEMMA IosCoordinatedStep == IosBase /\ IosCoordinated /\ [IosNext]_iosVars => IosCoordinated'
<1> SUFFICES ASSUME IosBase, IosCoordinated, [IosNext]_iosVars PROVE IosCoordinated'
  OBVIOUS
<1>1. ASSUME NEW q \in Requests, ProceedIos(q) \/ Press(q)
      PROVE  IosCoordinated'
  <2>1. CASE (Answered(q) \/ Unauthorized(q) \/ SignInFails(q)) /\ UNCHANGED task
    BY <2>1, IosCallCoordinated
  <2>2. QED
    BY <1>1, <2>1, IosTaskCoordinated, IosStartCoordinated, IosStoreCoordinated
    DEF ProceedIos, Press, Reload, Follow, TaskEnds, ResumeWithPair, ResumeWithError, Lead,
        RetrySucceeds, RetryFails, Ignore, Cancel
<1>2. ASSUME NEW q \in Requests, Ask(q) \/ Submit(q), UNCHANGED task
      PROVE  IosCoordinated'
  BY <1>2, IosCallCoordinated
<1>3. CASE Serve /\ UNCHANGED task
  BY <1>3, IosServeCoordinated
<1>4. CASE KillIos
  BY <1>4, IosKillCoordinated
<1>5. CASE UNCHANGED iosVars
  <2>1. UNCHANGED session /\ UNCHANGED pc /\ UNCHANGED task
    BY <1>5 DEF iosVars
  <2>2. UsedWasShown' /\ IosRotatesOnce' /\ IosReuseIsExplained'
    BY <2>1, IosEvidenceKept DEF session, task, IosCoordinated
  <2>3. /\ TaskIsAwaited' /\ IosReplyIsSuccessor' /\ IosReplyIsNew' /\ ExchangedIsGone'
        /\ IosStoreIsAccounts' /\ ScreenFollows'
    BY <2>1 DEF session, task, IosCoordinated, TaskIsAwaited, IosReplyIsSuccessor, IosReplyIsNew, HoldsPair,
       ExchangedIsGone, IosStoreIsAccounts, ScreenFollows, SameFamily
  <2>4. QED
    BY <2>2, <2>3 DEF IosCoordinated
<1>6. QED
  BY <1>1, <1>2, <1>3, <1>4, <1>5 DEF IosNext

LEMMA IosInvariance == IosSpec => []IosIInv
BY IosInitially, IosStep, IosCoordinatedStep, PTL DEF IosSpec, IosIInv

\* Every value keeps its type, whichever calls are cut short; no call saves a
\* pair it was not given, or presents none.
THEOREM IosTypes == IosSpec => []IosTypeOK
<1>1. IosBase => IosTypeOK
  BY DEF IosBase
<1>2. QED
  BY <1>1, IosInitially, IosStep, PTL DEF IosSpec

\* As long as no sign-out has cancelled one, a refresh under way is the task
\* that refreshTask names.
THEOREM IosLeaderIsShared == IosSpec => []LeaderIsShared
<1>1. IosBase => LeaderIsShared
  BY DEF IosBase
<1>2. QED
  BY <1>1, IosInitially, IosStep, PTL DEF IosSpec

\* APIClient coalesces simultaneous 401 responses into one rotation: no two
\* refresh tasks are under way, unless a sign-out has cancelled one.
THEOREM IosSingleFlight == IosSpec => []SingleFlight
<1>1. IosBase => SingleFlight
  BY DEF IosBase, LeaderIsShared, Leads, SingleFlight
<1>2. QED
  BY <1>1, IosInitially, IosStep, PTL DEF IosSpec

\* The stored session is that of the account on the screen, or of the one that
\* AppModel.authenticate is about to show; unless a refresh that was overtaken
\* by a sign-out, a sign-in or a failed refresh saved its pair over it, or two
\* sign-ins, or a sign-in and a sign-out, crossed between the store and the
\* screen.
THEOREM IosStoreFollowsScreen == IosSpec => []IosStoreIsAccounts
<1>1. IosIInv => IosStoreIsAccounts
  BY DEF IosIInv, IosCoordinated
<1>2. QED
  BY <1>1, IosInvariance, PTL

\* The server revokes a family of the app's only if a kill tore a rotation, a
\* call refreshed a pair replaced meanwhile, or two calls presented one pair,
\* after a failed refresh or a sign-out that cancelled one.
THEOREM IosRevocationsAreExplained == IosSpec => []IosReuseIsExplained
<1>1. IosIInv => IosReuseIsExplained
  BY DEF IosIInv, IosCoordinated
<1>2. QED
  BY <1>1, IosInvariance, PTL

-----------------------------------------------------------------------------
\* The Android app.

LEMMA AndroidInitially == AndroidInit => AndroidTypeOK /\ Coordinated
<1> SUFFICES ASSUME AndroidInit PROVE AndroidTypeOK /\ Coordinated
  OBVIOUS
<1> USE DEF AndroidInit, SessionInit
<1>1. PICK u \in Users : tokens = <<NewPair(u, 1)>> /\ account = u
  OBVIOUS
<1>2. /\ NewPair(u, 1) \in Pair /\ NewPair(u, 1).family = 1 /\ NewPair(u, 1).user = u
      /\ ~NewPair(u, 1).used /\ ~NewPair(u, 1).revoked
  BY New
<1>3. /\ tokens \in Seq(Pair) /\ Issued = {1} /\ tokens[1].family = 1 /\ tokens[1].user = account
      /\ ~tokens[1].used /\ ~tokens[1].revoked
  BY <1>1, <1>2 DEF Issued
<1>4. SessionTypeOK
  BY <1>1, <1>3, SessionAssumption DEF SessionTypeOK, MaybePair
<1>5. AppTypeOK
  BY <1>3 DEF AppTypeOK, MaybePair
<1>6. Stages /\ MutexIsHeld /\ ReplyIsNew /\ ReplyIsSuccessor
  BY DEF Stages, MutexIsHeld, Shared, ReplyIsNew, ReplyIsSuccessor, Holds
<1>7. PresentedIsGone /\ TwinsAreExplained /\ StoreIsAccounts /\ AppRotatesOnce
  BY <1>3 DEF PresentedIsGone, TwinsAreExplained, StoreIsAccounts, AppRotatesOnce, Shared, NoPair
<1>8. UsedWasShown /\ ReuseIsExplained
  BY <1>3 DEF UsedWasShown, ReuseIsExplained
<1>9. QED
  BY <1>4, <1>5, <1>6, <1>7, <1>8 DEF AndroidTypeOK, Coordinated

LEMMA AndroidTypesStep ==
    ASSUME AndroidTypeOK, Stages, [AndroidNext]_androidVars
    PROVE  AndroidTypeOK' /\ Grows(tokens')
<1> USE DEF AndroidTypeOK, clients
<1>1. CASE Serve /\ UNCHANGED <<clients, disk>>
  <2>1. SessionTypeOK' /\ Grows(tokens')
    BY <1>1, ServeTypes DEF Stages, Sent
  <2>2. AppTypeOK'
    BY <1>1, <2>1 DEF AppTypeOK, Serve, Expire, Refresh, SignIn, Goto, MaybePair, Grows, Issued
  <2>3. QED
    BY <2>1, <2>2
<1>2. CASE UNCHANGED tokens
  <2>1. Grows(tokens') /\ Issued' = Issued /\ MaybePair' = MaybePair
    BY <1>2, SameTokens
  <2>2. ASSUME NEW q \in Requests,
               \/ (Answered(q) \/ Unauthorized(q) \/ SignInFails(q) \/ Submit(q)) /\ UNCHANGED <<clients, disk>>
               \/ UseCurrent(q)
        PROVE  AndroidTypeOK'
    <3>1. SessionTypeOK'
      BY <2>2, SessionUnchanged DEF Answered, Unauthorized, SignInFails, Submit, UseCurrent
    <3>2. AppTypeOK'
      BY <2>1, <2>2 DEF AppTypeOK, Answered, Unauthorized, SignInFails, Submit, UseCurrent, Goto
    <3>3. QED
      BY <3>1, <3>2
  <2>3. ASSUME NEW q \in Requests, Ask(q), UNCHANGED <<clients, disk>>
        PROVE  AndroidTypeOK'
    <3>1. AppTypeOK'
      BY <2>1, <2>3 DEF AppTypeOK, Ask, Goto
    <3>2. QED
      BY <2>3, <3>1, AskTypes
  <2>4. ASSUME NEW q \in Requests, Welcome(q), UNCHANGED <<clients, disk>>
        PROVE  AndroidTypeOK'
    <3>1. AppTypeOK'
      BY <2>1, <2>4 DEF AppTypeOK, Welcome, Goto
    <3>2. QED
      BY <2>4, <3>1, WelcomeTypes DEF Stages, Welcome
  <2>5. ASSUME NEW q \in Requests, Push(q)
        PROVE  AndroidTypeOK'
    <3>1. AppTypeOK'
      BY <2>1, <2>5 DEF AppTypeOK, Push, Goto
    <3>2. loaded' \in [Requests -> MaybePair]
      BY <2>5 DEF Push, SessionTypeOK
    <3>3. QED
      BY <2>1, <2>5, <3>1, <3>2, TypesKept DEF Push, SessionTypeOK
  <2>6. ASSUME NEW q \in Requests, EnterRefresh(q)
        PROVE  AndroidTypeOK'
    <3>1. AppTypeOK'
      BY <2>1, <2>6 DEF AppTypeOK, EnterRefresh, Lock, Goto
    <3>2. loaded[q] \in MaybePair
      BY DEF SessionTypeOK
    <3>3. QED
      BY <2>1, <2>6, <3>1, <3>2, PresentTypes, TypesKept DEF EnterRefresh, SessionTypeOK
  <2>7. ASSUME NEW q \in Requests, Save(q)
        PROVE  AndroidTypeOK'
    <3>1. AppTypeOK'
      BY <2>1, <2>7 DEF AppTypeOK, Save, Unlock, Goto
    <3>2. QED
      BY <2>1, <2>7, <3>1, KeepTypes, TypesKept DEF Save, SessionTypeOK
  <2>8. ASSUME NEW q \in Requests, Fail(q)
        PROVE  AndroidTypeOK'
    <3>1. AppTypeOK'
      BY <2>1, <2>8 DEF AppTypeOK, Fail, Unlock, Goto
    <3>2. store' \in MaybePair /\ account' \in Users \cup {None}
      BY <2>8 DEF Fail, ClearOnFailure, MaybePair, SessionTypeOK
    <3>3. QED
      BY <2>1, <2>8, <3>1, <3>2, TypesKept DEF Fail, SessionTypeOK
  <2>9. ASSUME SignOut
        PROVE  AndroidTypeOK'
    <3>1. AppTypeOK'
      BY <2>1, <2>9 DEF AppTypeOK, SignOut
    <3>2. QED
      BY <2>1, <2>9, <3>1, TypesKept DEF SignOut, SessionTypeOK, MaybePair
  <2>10. ASSUME Flush \/ UNCHANGED androidVars
         PROVE  AndroidTypeOK'
    <3>1. SessionTypeOK'
      BY <2>10, SessionUnchanged DEF Flush, androidVars
    <3>2. AppTypeOK'
      BY <2>1, <2>10 DEF AppTypeOK, Flush, androidVars, session, SessionTypeOK
    <3>3. QED
      BY <3>1, <3>2
  <2>11. ASSUME KillApp
         PROVE  AndroidTypeOK'
    <3>1. AppTypeOK'
      BY <2>1, <2>11 DEF AppTypeOK, KillApp, KillWith, Begun
    <3>2. QED
      BY <2>11, <3>1, KillTypes DEF KillApp, AppTypeOK
  <2>12. ASSUME Recreate
         PROVE  AndroidTypeOK'
    <3>1. store # NoPair => tokens[store].user \in Users /\ tokens[store].family \in Issued
      BY Elements, Fields DEF SessionTypeOK, MaybePair
    <3>2. account' \in Users \cup {None}
      BY <2>12, <3>1 DEF Recreate, UserOf
    <3>3. split' \subseteq Issued
      BY <2>12, <3>1 DEF Recreate, PresentedFamily, AppTypeOK
    <3>4. AppTypeOK'
      BY <2>1, <2>12, <3>3 DEF AppTypeOK, Recreate, Begun
    <3>5. QED
      BY <2>1, <2>12, <3>2, <3>4, TypesKept DEF Recreate, SessionTypeOK
  <2>13. ASSUME NEW q \in Requests, Cancelled(q)
         PROVE  AndroidTypeOK'
    <3>1. AppTypeOK'
      BY <2>1, <2>13 DEF AppTypeOK, Cancelled, Goto
    <3>2. store' \in MaybePair
      BY <2>13 DEF Cancelled, ClearOnFailure, MaybePair, SessionTypeOK
    <3>3. QED
      BY <2>1, <2>13, <3>1, <3>2, TypesKept DEF Cancelled, SessionTypeOK
  <2>14. CASE Serve /\ UNCHANGED <<clients, disk>>
    BY <1>1, <2>14
  <2>15. QED
    BY <2>1, <2>2, <2>3, <2>4, <2>5, <2>6, <2>7, <2>8, <2>9, <2>10, <2>11, <2>12, <2>13, <2>14
    DEF AndroidNext, Proceed
<1>3. QED
  BY <1>1, <1>2 DEF AndroidNext, Proceed, Answered, Unauthorized, SignInFails, Submit, UseCurrent, Ask,
     Welcome, Push, EnterRefresh, Save, Fail, Cancelled, SignOut, Flush, KillApp, KillWith, Recreate,
     androidVars, session

\* What the invariant says of pairs issued so far is not disturbed by a step
\* that neither presents nor exchanges one.
LEMMA EvidenceKept ==
    ASSUME UsedWasShown, TwinsAreExplained, AppRotatesOnce, ReuseIsExplained,
           UNCHANGED <<tokens, shown, refresh>>, pushed \subseteq pushed', old \subseteq old',
           torn \subseteq torn', split \subseteq split'
    PROVE  UsedWasShown' /\ TwinsAreExplained' /\ AppRotatesOnce' /\ ReuseIsExplained'
<1>1. UsedWasShown'
  BY DEF UsedWasShown, Issued
<1>2. TwinsAreExplained' /\ AppRotatesOnce'
  BY DEF TwinsAreExplained, AppRotatesOnce, Shared, Apart
<1>3. ReuseIsExplained'
  BY DEF ReuseIsExplained, Issued, Apart, SameFamily
<1>4. QED
  BY <1>1, <1>2, <1>3

\* A call that starts, goes on or ends, and saves nothing.
LEMMA QuietStep ==
    ASSUME AndroidTypeOK, Coordinated, NEW q \in Requests,
           \/ /\ Ask(q) \/ Submit(q) \/ Answered(q) \/ Unauthorized(q) \/ SignInFails(q)
              /\ UNCHANGED <<clients, disk>>
           \/ Push(q) \/ UseCurrent(q)
    PROVE  Coordinated'
<1> USE DEF Coordinated, AndroidTypeOK, clients
<1>1. /\ UNCHANGED <<tokens, store, account, shown, refresh, reply, strays, torn, mutex, old, split>>
      /\ pushed \subseteq pushed'
  BY DEF Ask, Submit, Answered, Unauthorized, SignInFails, Push, UseCurrent, session
<1>2. /\ pc[q] \in {"idle", "asked", "waiting", "signing", "welcomed"}
      /\ pc' = [pc EXCEPT ![q] = pc'[q]] /\ pc'[q] \in {"asked", "waiting", "signing", "done"}
  BY DEF Ask, Submit, Answered, Unauthorized, SignInFails, Push, UseCurrent, Goto, AppTypeOK, MayEnter
<1>3. UsedWasShown' /\ TwinsAreExplained' /\ AppRotatesOnce' /\ ReuseIsExplained'
  BY <1>1, EvidenceKept
<1>4. Stages'
  BY <1>1 DEF Stages, Ask, Submit, Answered, Unauthorized, SignInFails, Push, UseCurrent, Goto,
     AppTypeOK, SessionTypeOK, session
<1>5. MutexIsHeld'
  BY <1>1, <1>2 DEF MutexIsHeld, Shared, AppTypeOK
<1>6. ReplyIsNew' /\ ReplyIsSuccessor'
  BY <1>1, <1>2 DEF ReplyIsNew, ReplyIsSuccessor, Holds, AppTypeOK, SameFamily
<1>7. shown[q] = NoPair
  BY <1>2 DEF Stages
<1>8. PresentedIsGone' /\ StoreIsAccounts'
  BY <1>1, <1>2, <1>7 DEF PresentedIsGone, Shared, StoreIsAccounts, AppTypeOK
<1>9. QED
  BY <1>3, <1>4, <1>5, <1>6, <1>8

\* A pair is presented: the one that is stored, by a call that has the mutex of
\* the present Activity, or none.
LEMMA EnterStep ==
    ASSUME AndroidTypeOK, Coordinated, NEW q \in Requests, EnterRefresh(q), q \notin old
    PROVE  Coordinated'
<1> USE DEF Coordinated, AndroidTypeOK, clients
<1>1. /\ pc[q] = "waiting" /\ shown[q] = NoPair /\ reply[q] = NoPair /\ refresh[q] = "none"
      /\ loaded[q] # NoPair /\ loaded[q] = store /\ store \in Issued
  BY DEF EnterRefresh, MayEnter, Current, Stages, SessionTypeOK, MaybePair
<1>2. /\ UNCHANGED <<tokens, store, account, loaded, reply, strays, torn, pushed, old, split>>
      /\ shown' = [shown EXCEPT ![q] = store] /\ refresh' = [refresh EXCEPT ![q] = "sent"]
      /\ pc' = [pc EXCEPT ![q] = "refreshing"]
  BY <1>1 DEF EnterRefresh, Present, Goto
<1>3. Stages'
  BY <1>1, <1>2 DEF Stages, AppTypeOK, SessionTypeOK
<1>4. MutexIsHeld'
  BY <1>2, SessionAssumption DEF MutexIsHeld, Shared, EnterRefresh, MayEnter, Lock, AppTypeOK
<1>5. ReplyIsNew' /\ ReplyIsSuccessor'
  BY <1>1, <1>2 DEF ReplyIsNew, ReplyIsSuccessor, Holds, AppTypeOK, SessionTypeOK, SameFamily
<1>6. PresentedIsGone' /\ StoreIsAccounts'
  BY <1>1, <1>2 DEF PresentedIsGone, Shared, StoreIsAccounts, AppTypeOK, SessionTypeOK
<1>7. UsedWasShown'
  <2>1. SUFFICES ASSUME NEW n \in Issued, tokens[n].used
                 PROVE  \E p \in Requests : shown'[p] = n /\ refresh'[p] = "answered"
    BY <1>2 DEF UsedWasShown, Issued
  <2>2. PICK p \in Requests : shown[p] = n /\ refresh[p] = "answered"
    BY <2>1 DEF UsedWasShown
  <2>3. p # q
    BY <1>1, <2>2
  <2>4. QED
    BY <1>2, <2>2, <2>3 DEF SessionTypeOK
<1>8. ASSUME NEW p \in Shared, p # q, q \notin pushed, shown[p] = store
      PROVE  FALSE
  <2>1. pc[p] # "refreshing"
    BY <1>8, SessionAssumption DEF MutexIsHeld, EnterRefresh, MayEnter, Shared
  <2>2. QED
    BY <1>1, <1>8, <2>1 DEF PresentedIsGone, SessionTypeOK, Issued, NoPair, Shared
<1>9. AppRotatesOnce'
  BY <1>1, <1>2, <1>8 DEF AppRotatesOnce, Shared, SessionTypeOK
<1>10. TwinsAreExplained'
  <2>1. ASSUME NEW p \in Requests, p # q, shown[p] = store, {p, q} \cap pushed = {}
        PROVE  tokens[store].family \in torn \cup split
    <3>1. p \in old
      BY <1>8, <2>1 DEF Shared
    <3>2. QED
      BY <1>1, <2>1, <3>1 DEF PresentedIsGone, SessionTypeOK, Issued, NoPair
  <2>2. QED
    BY <1>1, <1>2, <2>1 DEF TwinsAreExplained, Apart, SessionTypeOK
<1>11. ReuseIsExplained'
  <2>1. SUFFICES ASSUME NEW n \in Issued, tokens[n].revoked, tokens[n].family \notin torn \cup split
                 PROVE  \E a, b \in Requests : Apart(a, b)' /\ shown'[a] = shown'[b] /\ shown'[a] # NoPair
                                              /\ SameFamily(shown[a], n)'
    BY <1>2 DEF ReuseIsExplained, Issued
  <2>2. PICK a, b \in Requests : Apart(a, b) /\ shown[a] = shown[b] /\ shown[a] # NoPair /\ SameFamily(shown[a], n)
    BY <2>1 DEF ReuseIsExplained
  <2>3. a # q /\ b # q
    BY <1>1, <2>2
  <2>4. QED
    BY <1>2, <2>2, <2>3 DEF SessionTypeOK, Apart, SameFamily
<1>12. QED
  BY <1>3, <1>4, <1>5, <1>6, <1>7, <1>9, <1>10, <1>11

\* The answers are saved, lost or forgotten, and so is the session.
LEMMA StoreStep ==
    ASSUME AndroidTypeOK, Coordinated, NEW q \in Requests, q \notin old,
           \/ Save(q) \/ Fail(q)
           \/ Welcome(q) /\ UNCHANGED <<clients, disk>>
    PROVE  Coordinated'
<1> USE DEF Coordinated, AndroidTypeOK, clients
<1>1. /\ UNCHANGED <<tokens, loaded, shown, refresh, reply, torn, pushed, old, split>>
      /\ pc' = [pc EXCEPT ![q] = "done"]
      /\ mutex' = mutex \/ (mutex' = None /\ pc[q] = "refreshing" /\ q \notin pushed)
      /\ store' = NoPair \/ (store' = reply[q] /\ Holds(q))
  BY DEF Save, Fail, Welcome, ClearOnFailure, Keep, Goto, Unlock, Holds, Stages
<1>2. UsedWasShown' /\ TwinsAreExplained' /\ AppRotatesOnce' /\ ReuseIsExplained'
  BY <1>1, EvidenceKept
<1>3. Stages' /\ MutexIsHeld'
  BY <1>1 DEF Stages, MutexIsHeld, Shared, AppTypeOK
<1>4. ReplyIsNew' /\ ReplyIsSuccessor'
  BY <1>1 DEF ReplyIsNew, ReplyIsSuccessor, Holds, AppTypeOK, SameFamily
<1>5. PresentedIsGone'
  BY <1>1 DEF PresentedIsGone, ReplyIsNew
<1>6. StoreIsAccounts'
  <2>1. CASE Save(q)
    <3>1. /\ pc[q] = "refreshing" /\ store' = reply[q] /\ reply[q] # NoPair /\ UNCHANGED <<tokens, account>>
          /\ (store = shown[q] /\ strays' = strays) \/ tokens[reply[q]].family \in strays'
      BY <2>1 DEF Save, Keep
    <3>2. CASE tokens[reply[q]].family \in strays'
      BY <3>1, <3>2 DEF StoreIsAccounts
    <3>3. CASE store = shown[q] /\ strays' = strays
      BY <3>1, <3>3 DEF StoreIsAccounts, Stages, ReplyIsSuccessor, SameFamily
    <3>4. QED
      BY <3>1, <3>2, <3>3
  <2>2. CASE Fail(q)
    BY <2>2 DEF Fail, ClearOnFailure, StoreIsAccounts
  <2>3. CASE Welcome(q)
    BY <2>3 DEF Welcome, StoreIsAccounts
  <2>4. QED
    BY <2>1, <2>2, <2>3
<1>7. QED
  BY <1>2, <1>3, <1>4, <1>5, <1>6

\* A call of an Activity that is gone ends, and may take the session with it.
LEMMA CancelledStep ==
    ASSUME AndroidTypeOK, Coordinated, NEW q \in Requests, Cancelled(q), q \in old
    PROVE  Coordinated'
<1> USE DEF Coordinated, AndroidTypeOK, clients
<1>1. /\ UNCHANGED <<tokens, account, loaded, shown, refresh, reply, strays, torn>>
      /\ UNCHANGED <<mutex, pushed, old, split>>
      /\ pc' = [pc EXCEPT ![q] = "done"]
      /\ store' = NoPair \/ (store' = store /\ pc[q] # "refreshing")
  BY DEF Cancelled, ClearOnFailure, Goto
<1>2. UsedWasShown' /\ TwinsAreExplained' /\ AppRotatesOnce' /\ ReuseIsExplained'
  BY <1>1, EvidenceKept
<1>3. Stages' /\ MutexIsHeld'
  BY <1>1 DEF Stages, MutexIsHeld, Shared, AppTypeOK
<1>4. ReplyIsNew' /\ ReplyIsSuccessor'
  <2>1. \A p \in Requests : Holds(p)' => Holds(p) /\ reply[p] # NoPair
    BY <1>1 DEF Holds, AppTypeOK
  <2>2. QED
    BY <1>1, <2>1 DEF ReplyIsNew, ReplyIsSuccessor, AppTypeOK, SameFamily
<1>5. PresentedIsGone' /\ StoreIsAccounts'
  BY <1>1 DEF PresentedIsGone, StoreIsAccounts, Shared, AppTypeOK
<1>6. QED
  BY <1>2, <1>3, <1>4, <1>5

LEMMA AppStep ==
    ASSUME AndroidTypeOK, Coordinated,
           SignOut \/ Flush \/ KillApp \/ Recreate \/ UNCHANGED androidVars
    PROVE  Coordinated'
<1> USE DEF Coordinated, AndroidTypeOK, clients
<1>1. CASE SignOut
  <2>1. /\ UNCHANGED <<tokens, pc, shown, refresh, reply, torn, loaded>> /\ store' = NoPair
        /\ UNCHANGED <<mutex, pushed, old, split>>
    BY <1>1 DEF SignOut
  <2>2. UsedWasShown' /\ TwinsAreExplained' /\ AppRotatesOnce' /\ ReuseIsExplained'
    BY <2>1, EvidenceKept
  <2>3. Stages' /\ MutexIsHeld' /\ ReplyIsNew' /\ ReplyIsSuccessor'
    BY <2>1 DEF Stages, MutexIsHeld, Shared, ReplyIsNew, ReplyIsSuccessor, Holds, SameFamily
  <2>4. PresentedIsGone' /\ StoreIsAccounts'
    BY <2>1 DEF PresentedIsGone, StoreIsAccounts
  <2>5. QED
    BY <2>2, <2>3, <2>4
<1>2. CASE Flush \/ UNCHANGED androidVars
  <2>1. UNCHANGED session /\ UNCHANGED <<pc, mutex, pushed, old, split>>
    BY <1>2 DEF Flush, androidVars
  <2>2. UsedWasShown' /\ TwinsAreExplained' /\ AppRotatesOnce' /\ ReuseIsExplained'
    BY <2>1, EvidenceKept DEF session
  <2>3. Stages' /\ MutexIsHeld' /\ ReplyIsNew' /\ ReplyIsSuccessor'
    BY <2>1 DEF session, Stages, MutexIsHeld, Shared, ReplyIsNew, ReplyIsSuccessor, Holds, SameFamily
  <2>4. PresentedIsGone' /\ StoreIsAccounts'
    BY <2>1 DEF session, PresentedIsGone, Shared, StoreIsAccounts
  <2>5. QED
    BY <2>2, <2>3, <2>4
<1>3. CASE KillApp
  <2>1. /\ UNCHANGED <<tokens, loaded, shown, refresh, reply, strays, pushed, split>>
        /\ torn \subseteq torn' /\ store' = disk /\ old' = old \cup Begun
        /\ \A p \in Requests : pc'[p] \in {"idle", "done"} /\ (pc'[p] = "idle" => pc[p] = "idle")
    BY <1>3 DEF KillApp, KillWith
  <2>2. UsedWasShown' /\ TwinsAreExplained' /\ AppRotatesOnce' /\ ReuseIsExplained'
    BY <2>1, EvidenceKept
  <2>3. Stages'
    BY <2>1 DEF Stages
  <2>4. MutexIsHeld' /\ ReplyIsNew' /\ ReplyIsSuccessor'
    BY <2>1 DEF MutexIsHeld, Shared, ReplyIsNew, ReplyIsSuccessor, Holds
  <2>5. PresentedIsGone'
    <3>1. \A p \in Requests : shown[p] # NoPair => p \in old'
      BY <2>1 DEF Stages, Begun
    <3>2. \A p \in Requests : shown[p] = disk /\ disk # NoPair => tokens[disk].family \in torn'
      BY <1>3 DEF KillApp, KillWith, PresentedFamily
    <3>3. QED
      BY <2>1, <3>1, <3>2 DEF PresentedIsGone, Shared
  <2>6. StoreIsAccounts'
    BY <1>3, <2>1 DEF KillApp, KillWith, UserOf, StoreIsAccounts
  <2>7. QED
    BY <2>2, <2>3, <2>4, <2>5, <2>6
<1>4. CASE Recreate
  <2>1. /\ UNCHANGED <<tokens, store, pc, loaded, shown, refresh, reply, strays, torn, pushed>>
        /\ old' = old \cup (Begun \ pushed)
        /\ split' = split \cup PresentedFamily(store) /\ account' = UserOf(store)
    BY <1>4 DEF Recreate
  <2>2. UsedWasShown' /\ TwinsAreExplained' /\ AppRotatesOnce' /\ ReuseIsExplained'
    BY <2>1, EvidenceKept
  <2>3. Stages' /\ ReplyIsNew' /\ ReplyIsSuccessor'
    BY <2>1 DEF Stages, ReplyIsNew, ReplyIsSuccessor, Holds, SameFamily
  <2>4. MutexIsHeld'
    BY <2>1 DEF MutexIsHeld, Shared, Begun
  <2>5. PresentedIsGone'
    <3>1. \A p \in Requests : shown[p] = store /\ store # NoPair => tokens[store].family \in split'
      BY <2>1 DEF PresentedFamily
    <3>2. QED
      BY <2>1, <3>1 DEF PresentedIsGone, Shared
  <2>6. StoreIsAccounts'
    BY <2>1 DEF StoreIsAccounts, UserOf
  <2>7. QED
    BY <2>2, <2>3, <2>4, <2>5, <2>6
<1>5. QED
  BY <1>1, <1>2, <1>3, <1>4

\* Pairs that were issued keep their user and family.
LEMMA SameOwners ==
    ASSUME AndroidTypeOK, Coordinated, Grows(tokens'),
           UNCHANGED <<store, account, shown, strays, torn, pushed, old, split>>,
           \A p \in Requests : pc'[p] # "refreshing" => pc[p] # "refreshing"
    PROVE  PresentedIsGone' /\ TwinsAreExplained' /\ StoreIsAccounts' /\ AppRotatesOnce'
<1> USE DEF Coordinated, AndroidTypeOK, SessionTypeOK, MaybePair
<1>1. \A m \in Issued : tokens'[m].user = tokens[m].user /\ tokens'[m].family = tokens[m].family
  BY DEF Grows
<1>2. store # NoPair => store \in Issued
  OBVIOUS
<1>3. \A p \in Requests : shown[p] # NoPair => shown[p] \in Issued
  OBVIOUS
<1>4. PresentedIsGone'
  BY <1>1, <1>2 DEF PresentedIsGone, Shared
<1>5. StoreIsAccounts'
  BY <1>1, <1>2 DEF StoreIsAccounts
<1>6. TwinsAreExplained' /\ AppRotatesOnce'
  BY <1>1, <1>3 DEF TwinsAreExplained, Apart, AppRotatesOnce, Shared
<1>7. QED
  BY <1>4, <1>5, <1>6

\* Pairs that are revoked have been so, or their family is torn or shown twice.
LEMMA SameVictims ==
    ASSUME AndroidTypeOK, ReuseIsExplained, Grows(tokens'),
           UNCHANGED <<shown, torn, pushed, split>>,
           \A m \in Issued' : tokens'[m].revoked => m \in Issued /\ tokens[m].revoked
    PROVE  ReuseIsExplained'
<1> USE DEF AndroidTypeOK, SessionTypeOK, MaybePair
<1>1. SUFFICES ASSUME NEW n \in Issued', tokens'[n].revoked, tokens'[n].family \notin torn \cup split
               PROVE  \E a, b \in Requests : Apart(a, b)' /\ shown'[a] = shown'[b] /\ shown'[a] # NoPair
                                            /\ SameFamily(shown[a], n)'
  BY DEF ReuseIsExplained
<1>2. n \in Issued /\ tokens[n].revoked
  BY <1>1, Zenon
<1>3. tokens'[n].family = tokens[n].family
  BY <1>2 DEF Grows
<1>4. tokens[n].family \notin torn \cup split
  BY <1>1, <1>3
<1>5. PICK a, b \in Requests : Apart(a, b) /\ shown[a] = shown[b] /\ shown[a] # NoPair /\ SameFamily(shown[a], n)
  BY <1>2, <1>4, Zenon DEF ReuseIsExplained
<1>6. SameFamily(shown[a], n)'
  BY <1>2, <1>5 DEF SameFamily, Grows
<1>7. QED
  BY <1>5, <1>6 DEF Apart

\* The server exchanges, refuses or revokes.
LEMMA RefreshStep ==
    ASSUME AndroidTypeOK, Coordinated, NEW q \in Requests, Refresh(q),
           UNCHANGED <<clients, disk>>, Grows(tokens')
    PROVE  Coordinated'
<1> USE DEF Coordinated, clients
<1> DEFINE n == shown[q]
<1>1. UNCHANGED <<store, account, pc, loaded, shown, strays, torn>>
  BY DEF Refresh
<1>2. /\ tokens' = RotateRefresh(n) /\ Issued' = DOMAIN RotateRefresh(n)
      /\ reply' = [reply EXCEPT ![q] = RefreshReply(n)]
      /\ refresh[q] = "sent" /\ refresh' = [refresh EXCEPT ![q] = "answered"]
  BY DEF Refresh, Issued
<1>3. n \in Issued /\ n # NoPair
  BY <1>2 DEF Stages, AndroidTypeOK, SessionTypeOK, MaybePair
<1>4. tokens \in Seq(Pair) /\ \A m \in Issued : tokens[m].family \in Issued
  BY DEF AndroidTypeOK, SessionTypeOK
<1>5. PresentedIsGone' /\ TwinsAreExplained' /\ StoreIsAccounts' /\ AppRotatesOnce'
  BY <1>1, SameOwners
<1>6. Stages'
  BY <1>1, <1>2, <1>3 DEF Stages, AndroidTypeOK, AppTypeOK, SessionTypeOK
<1>7. MutexIsHeld'
  BY <1>1 DEF MutexIsHeld, Shared
<1>8. ASSUME NEW p \in Requests, p # q, pc[p] = "refreshing", reply[p] # NoPair
       PROVE  /\ reply'[p] = reply[p] /\ shown'[p] = shown[p]
              /\ tokens'[reply'[p]].user = tokens'[shown'[p]].user /\ SameFamily(reply[p], shown[p])'
  <2>1. reply'[p] = reply[p] /\ shown'[p] = shown[p] /\ reply[p] \in Issued /\ shown[p] \in Issued
    BY <1>1, <1>2, <1>8 DEF Stages, AndroidTypeOK, SessionTypeOK, MaybePair
  <2>2. tokens[reply[p]].user = tokens[shown[p]].user /\ SameFamily(reply[p], shown[p])
    BY <1>8 DEF ReplyIsSuccessor
  <2>3. QED
    BY <2>1, <2>2 DEF Grows, SameFamily
<1>9. CASE Rotatable(n)
  <2>1. /\ RefreshReply(n) # NoPair /\ RefreshReply(n) \notin Issued
        /\ Issued' = Issued \cup {RefreshReply(n)}
        /\ tokens'[RefreshReply(n)] = NewPair(tokens[n].user, tokens[n].family)
        /\ \A m \in Issued : tokens'[m] = IF m = n THEN [tokens[n] EXCEPT !.used = TRUE] ELSE tokens[m]
    BY <1>2, <1>3, <1>4, <1>9, RotateAccepted
  <2>2. /\ tokens'[RefreshReply(n)].user = tokens[n].user
        /\ tokens'[RefreshReply(n)].family = tokens[n].family
        /\ ~tokens'[RefreshReply(n)].used /\ ~tokens'[RefreshReply(n)].revoked
    BY <2>1 DEF NewPair
  <2>3. \A m \in Issued : tokens'[m].revoked = tokens[m].revoked
    <3>1. tokens[n] \in Pair /\ tokens[n].revoked = [tokens[n] EXCEPT !.used = TRUE].revoked
      BY <1>3, <1>4, Elements, Fields
    <3>2. QED
      BY <2>1, <3>1
  <2>4. ReplyIsNew'
    BY <1>1, <1>2, <2>1 DEF ReplyIsNew, Holds, AndroidTypeOK, SessionTypeOK, MaybePair
  <2>5. ReplyIsSuccessor'
    <3>1. ASSUME NEW p \in Requests, p # q, pc'[p] = "refreshing" /\ reply'[p] # NoPair
          PROVE  tokens'[reply'[p]].user = tokens'[shown'[p]].user /\ SameFamily(reply[p], shown[p])'
      <4>1. pc[p] = "refreshing" /\ reply[p] # NoPair
      BY <1>1, <1>2, <3>1 DEF AndroidTypeOK, SessionTypeOK
    <4>2. QED
      BY <1>8, <3>1, <4>1
    <3>2. tokens'[RefreshReply(n)].user = tokens'[n].user /\ tokens'[RefreshReply(n)].family = tokens'[n].family
      BY <1>3, <2>2 DEF Grows
    <3>3. reply'[q] = RefreshReply(n) /\ shown'[q] = n
      BY <1>1, <1>2 DEF AndroidTypeOK, SessionTypeOK
    <3>4. QED
      BY <3>1, <3>2, <3>3 DEF ReplyIsSuccessor, SameFamily
  <2>6. UsedWasShown'
    <3>1. SUFFICES ASSUME NEW m \in Issued', tokens'[m].used
                   PROVE  \E p \in Requests : shown'[p] = m /\ refresh'[p] = "answered"
      BY DEF UsedWasShown
    <3>2. m # RefreshReply(n)
      BY <2>2, <3>1, Zenon
    <3>4. m \in Issued
      BY <2>1, <3>2
    <3>5. tokens[m].used \/ m = n
      BY <2>1, <3>1, <3>4
    <3>6. CASE m = n
      BY <1>1, <1>2, <3>6 DEF AndroidTypeOK, SessionTypeOK
    <3>7. CASE tokens[m].used
      <4>1. PICK p \in Requests : shown[p] = m /\ refresh[p] = "answered"
        BY <3>4, <3>7, Zenon DEF UsedWasShown
      <4>2. QED
        BY <1>1, <1>2, <4>1 DEF AndroidTypeOK, SessionTypeOK
    <3>8. QED
      BY <3>5, <3>6, <3>7, Zenon
  <2>7. ReuseIsExplained'
    <3>3. \A m \in Issued' : tokens'[m].revoked => m \in Issued /\ tokens[m].revoked
      BY <2>1, <2>2, <2>3
    <3>4. QED
      BY <1>1, <3>3, SameVictims
  <2>8. QED
    BY <1>5, <1>6, <1>7, <2>4, <2>5, <2>6, <2>7
<1>10. CASE ~Rotatable(n)
  <2>1. RefreshReply(n) = NoPair /\ Issued' = Issued
    BY <1>2, <1>3, <1>4, <1>10, RotateRefused
  <2>2. ReplyIsNew'
    BY <1>1, <1>2, <2>1 DEF ReplyIsNew, Holds, AndroidTypeOK, SessionTypeOK
  <2>3. ReplyIsSuccessor'
    BY <1>1, <1>2, <1>8, <2>1 DEF ReplyIsSuccessor, AndroidTypeOK, SessionTypeOK
  <2>4. UsedWasShown'
    <3>1. SUFFICES ASSUME NEW m \in Issued, tokens'[m].used
                   PROVE  \E p \in Requests : shown'[p] = m /\ refresh'[p] = "answered"
      BY <2>1 DEF UsedWasShown
    <3>2. tokens[m].used
      BY <1>2, <1>3, <1>4, <1>10, <3>1, RotateRefused
    <3>3. PICK p \in Requests : shown[p] = m /\ refresh[p] = "answered"
      BY <3>2, Zenon DEF UsedWasShown
    <3>4. QED
      BY <1>1, <1>2, <3>3 DEF AndroidTypeOK, SessionTypeOK
  <2>5. ASSUME tokens[n].used, tokens[n].family \notin torn \cup split
        PROVE  \E p \in Requests : Apart(p, q) /\ shown[p] = n
    <3>1. PICK p \in Requests : shown[p] = n /\ refresh[p] = "answered"
      BY <1>3, <2>5, Zenon DEF UsedWasShown
    <3>2. p # q
      BY <1>2, <3>1
    <3>3. Apart(p, q)
      BY <1>3, <2>5, <3>1, <3>2 DEF TwinsAreExplained
    <3>4. QED
      BY <3>1, <3>3
  <2>6. ReuseIsExplained'
    <3>1. SUFFICES ASSUME NEW m \in Issued, tokens'[m].revoked, tokens'[m].family \notin torn \cup split
                   PROVE  \E a, b \in Requests : Apart(a, b)' /\ shown'[a] = shown'[b] /\ shown'[a] # NoPair
                                                /\ SameFamily(shown[a], m)'
      BY <1>1, <2>1 DEF ReuseIsExplained
    <3>2. tokens'[m].family = tokens[m].family /\ tokens'[n].family = tokens[n].family
      BY <1>3 DEF Grows
    <3>3. tokens[m].revoked \/ (tokens[n].used /\ SameFamily(m, n))
      BY <1>2, <1>3, <1>4, <1>10, <3>1, RotateRefused
    <3>4. CASE tokens[m].revoked
      <4>1. PICK a, b \in Requests : /\ Apart(a, b) /\ shown[a] = shown[b] /\ shown[a] # NoPair
                                     /\ SameFamily(shown[a], m)
        BY <3>1, <3>2, <3>4 DEF ReuseIsExplained
      <4>2. shown[a] \in Issued
        BY <4>1 DEF AndroidTypeOK, SessionTypeOK, MaybePair
      <4>3. SameFamily(shown[a], m)'
        BY <1>1, <3>2, <4>1, <4>2 DEF SameFamily, Grows
      <4>4. QED
        BY <1>1, <4>1, <4>3 DEF Apart
    <3>5. CASE tokens[n].used /\ SameFamily(m, n)
      <4>1. PICK p \in Requests : Apart(p, q) /\ shown[p] = n
        BY <2>5, <3>1, <3>2, <3>5 DEF SameFamily
      <4>2. SameFamily(shown[p], m)'
        BY <1>1, <3>2, <3>5, <4>1 DEF SameFamily
      <4>3. QED
        BY <1>1, <1>3, <4>1, <4>2 DEF Apart
    <3>6. QED
      BY <3>3, <3>4, <3>5, Zenon
  <2>7. QED
    BY <1>5, <1>6, <1>7, <2>2, <2>3, <2>4, <2>6
<1>11. QED
  BY <1>9, <1>10

\* An access token expires, which no refresh token shows.
LEMMA ExpireStep ==
    ASSUME AndroidTypeOK, Coordinated, NEW n \in Issued, Expire(n),
           UNCHANGED <<clients, disk>>, Grows(tokens')
    PROVE  Coordinated'
<1> USE DEF Coordinated, clients
<1>1. UNCHANGED <<store, account, pc, loaded, shown, refresh, reply, strays, torn>>
  BY DEF Expire
<1>2. /\ Issued' = Issued
      /\ \A m \in Issued : tokens'[m].used = tokens[m].used /\ tokens'[m].revoked = tokens[m].revoked
  BY ExpireFacts DEF Expire, AndroidTypeOK, SessionTypeOK
<1>3. PresentedIsGone' /\ TwinsAreExplained' /\ StoreIsAccounts' /\ AppRotatesOnce'
  BY <1>1, SameOwners
<1>4. Stages' /\ MutexIsHeld' /\ ReplyIsNew'
  BY <1>1 DEF Stages, MutexIsHeld, Shared, ReplyIsNew, Holds
<1>5. ReplyIsSuccessor'
  <2>1. \A p \in Requests : pc[p] = "refreshing" /\ reply[p] # NoPair => reply[p] \in Issued /\ shown[p] \in Issued
    BY DEF Stages, AndroidTypeOK, SessionTypeOK, MaybePair
  <2>2. QED
    BY <1>1, <2>1 DEF ReplyIsSuccessor, SameFamily, Grows
<1>6. UsedWasShown'
  BY <1>1, <1>2 DEF UsedWasShown
<1>7. ReuseIsExplained'
  BY <1>1, <1>2, SameVictims
<1>8. QED
  BY <1>3, <1>4, <1>5, <1>6, <1>7

\* A sign-in opens a family.
LEMMA SignInStep ==
    ASSUME AndroidTypeOK, Coordinated, NEW q \in Requests, NEW u \in Users, SignIn(q, u),
           UNCHANGED <<clients, disk>>, Grows(tokens')
    PROVE  Coordinated'
<1> USE DEF Coordinated, clients
<1> DEFINE n == Len(tokens) + 1
<1>1. /\ UNCHANGED <<store, account, loaded, shown, refresh, strays, torn>>
      /\ tokens' = IssueSession(u) /\ Issued' = DOMAIN IssueSession(u)
      /\ pc[q] = "signing" /\ pc' = [pc EXCEPT ![q] = "welcomed"]
      /\ reply' = [reply EXCEPT ![q] = n]
  BY DEF SignIn, Goto, Issued
<1>2. /\ n # NoPair /\ n \notin Issued /\ Issued' = Issued \cup {n}
      /\ \A m \in Issued : tokens'[m] = tokens[m]
      /\ ~tokens'[n].used /\ ~tokens'[n].revoked
  BY <1>1, IssueFacts DEF AndroidTypeOK, SessionTypeOK
<1> HIDE DEF n
<1>3. \A p \in Requests : pc'[p] # "refreshing" => pc[p] # "refreshing"
  BY <1>1 DEF AndroidTypeOK, AppTypeOK
<1>4. PresentedIsGone' /\ TwinsAreExplained' /\ StoreIsAccounts' /\ AppRotatesOnce'
  BY <1>1, <1>3, SameOwners
<1>5. Stages' /\ MutexIsHeld'
  BY <1>1, <1>2 DEF Stages, MutexIsHeld, Shared, AndroidTypeOK, AppTypeOK, SessionTypeOK
<1>6. ReplyIsNew'
  BY <1>1, <1>2 DEF ReplyIsNew, Holds, AndroidTypeOK, AppTypeOK, SessionTypeOK, MaybePair
<1>7. ReplyIsSuccessor'
  <2>1. SUFFICES ASSUME NEW p \in Requests, pc'[p] = "refreshing", reply'[p] # NoPair
                 PROVE  tokens'[reply'[p]].user = tokens'[shown'[p]].user /\ SameFamily(reply[p], shown[p])'
    BY DEF ReplyIsSuccessor
  <2>2. pc[p] = "refreshing" /\ reply'[p] = reply[p] /\ shown'[p] = shown[p] /\ reply[p] # NoPair
    BY <1>1, <2>1 DEF AndroidTypeOK, AppTypeOK, SessionTypeOK
  <2>3. reply[p] \in Issued /\ shown[p] \in Issued
    BY <2>2 DEF Stages, AndroidTypeOK, SessionTypeOK, MaybePair
  <2>4. tokens[reply[p]].user = tokens[shown[p]].user /\ SameFamily(reply[p], shown[p])
    BY <2>2 DEF ReplyIsSuccessor
  <2>5. QED
    BY <2>2, <2>3, <2>4 DEF SameFamily, Grows
<1>8. UsedWasShown'
  <2>1. SUFFICES ASSUME NEW m \in Issued', tokens'[m].used
                 PROVE  \E p \in Requests : shown'[p] = m /\ refresh'[p] = "answered"
    BY DEF UsedWasShown
  <2>2. m # n
    BY <1>2, <2>1, Zenon
  <2>3. m \in Issued /\ tokens'[m] = tokens[m]
    BY <1>2, <2>2
  <2>4. tokens[m].used
    BY <2>1, <2>3, Zenon
  <2>5. QED
    BY <1>1, <2>3, <2>4, Zenon DEF UsedWasShown
<1>9. ReuseIsExplained'
  <2>1. \A m \in Issued' : tokens'[m].revoked => m \in Issued /\ tokens[m].revoked
    BY <1>2
  <2>2. QED
    BY <1>1, <2>1, SameVictims
<1>10. QED
  BY <1>4, <1>5, <1>6, <1>7, <1>8, <1>9

LEMMA AndroidStep ==
    AndroidTypeOK /\ Coordinated /\ [AndroidNext]_androidVars => AndroidTypeOK' /\ Coordinated'
<1> SUFFICES ASSUME AndroidTypeOK, Coordinated, [AndroidNext]_androidVars
             PROVE  AndroidTypeOK' /\ Coordinated'
  OBVIOUS
<1>1. AndroidTypeOK' /\ Grows(tokens')
  BY AndroidTypesStep DEF Coordinated
<1>2. ASSUME NEW q \in Requests, Proceed(q) \/ Push(q)
      PROVE  Coordinated'
  BY <1>2, QuietStep, EnterStep, StoreStep, CancelledStep DEF Proceed
<1>3. ASSUME NEW q \in Requests, Ask(q) \/ Submit(q), UNCHANGED <<clients, disk>>
      PROVE  Coordinated'
  BY <1>3, QuietStep
<1>4. CASE Serve /\ UNCHANGED <<clients, disk>>
  BY <1>1, <1>4, ExpireStep, RefreshStep, SignInStep DEF Serve
<1>5. CASE SignOut \/ Flush \/ KillApp \/ Recreate
  BY <1>1, <1>5, AppStep
<1>6. CASE UNCHANGED androidVars
  BY <1>1, <1>6, AppStep
<1>7. QED
  BY <1>1, <1>2, <1>3, <1>4, <1>5, <1>6 DEF AndroidNext

LEMMA AndroidInvariance == AndroidSpec => []AndroidIInv
  BY AndroidInitially, AndroidStep, PTL DEF AndroidSpec, AndroidIInv

\* Every value keeps its type, whichever calls and kills come between.
THEOREM AndroidTypes == AndroidSpec => []AndroidTypeOK
  BY AndroidInvariance, PTL DEF AndroidIInv

\* The session the app stores is the shown account's, unless its refresh was
\* overtaken by a sign-out, a sign-in or a failed refresh.
THEOREM AndroidStoreIsAccounts == AndroidSpec => []StoreIsAccounts
<1>1. Coordinated => StoreIsAccounts
  BY DEF Coordinated
<1>2. QED
  BY <1>1, AndroidInvariance, PTL DEF AndroidIInv

\* The Mutex coalesces the rotations of concurrent 401 responses: two calls of
\* the Activity that is open, which share an ApiClient, never present the same
\* refresh token, whatever the calls of the Activities before it and those of
\* the messaging service have presented.
THEOREM AndroidRotatesOnce == AndroidSpec => []AppRotatesOnce
<1>1. Coordinated => AppRotatesOnce
  BY DEF Coordinated
<1>2. QED
  BY <1>1, AndroidInvariance, PTL DEF AndroidIInv

\* The server revokes a family of the app only if a kill lost a rotation, an
\* Activity was replaced while the stored token was being exchanged, or the
\* messaging service presented the token of another call.
THEOREM AndroidReuseIsExplained == AndroidSpec => []ReuseIsExplained
<1>1. Coordinated => ReuseIsExplained
  BY DEF Coordinated
<1>2. QED
  BY <1>1, AndroidInvariance, PTL DEF AndroidIInv

\* The stored refresh token is unused, but while it is being exchanged or after
\* a kill has brought back a used one.
THEOREM AndroidStoredIsUnused == AndroidSpec => []StoredIsUnused
<1>1. AndroidTypeOK /\ Coordinated => StoredIsUnused
  <2>1. SUFFICES ASSUME AndroidTypeOK, Coordinated, store # NoPair, tokens[store].used
                 PROVE  \/ tokens[store].family \in torn
                        \/ \E q \in Requests : pc[q] = "refreshing" /\ shown[q] = store
    BY DEF StoredIsUnused
  <2>2. store \in Issued
    BY <2>1 DEF AndroidTypeOK, SessionTypeOK, MaybePair
  <2>3. PICK p \in Requests : shown[p] = store
    BY <2>1, <2>2, Zenon DEF Coordinated, UsedWasShown
  <2>4. QED
    BY <2>1, <2>3 DEF Coordinated, PresentedIsGone
<1>2. QED
  BY <1>1, AndroidInvariance, PTL DEF AndroidIInv

-----------------------------------------------------------------------------
\* The pairs of either app's server make token families.

\* The next pair of a family is one pair.
LEMMA NextIs ==
    ASSUME tokens \in Seq(Pair), NEW n \in Issued, NEW m \in Issued, IsNext(m, n)
    PROVE  NextPair(n) = m
<1>1. Issued \subseteq Nat
  BY Elements
<1>2. PICK x \in Issued : x = NextPair(n) /\ IsNext(x, n)
  BY DEF NextPair
<1>3. ~(x < m) /\ ~(m < x)
  BY <1>2 DEF IsNext
<1>4. QED
  BY <1>1, <1>2, <1>3

\* Pairs issued later come after it.
LEMMA NextKept ==
    ASSUME tokens \in Seq(Pair), Grows(tokens'), NEW n \in Issued, NEW m \in Issued, IsNext(m, n)
    PROVE  IsNext(m, n)' /\ NextPair(n)' = NextPair(n)
<1>0. Issued = 1..Len(tokens) /\ Len(tokens) \in Nat
  BY Elements
<1>1. /\ tokens' \in Seq(Pair) /\ Issued \subseteq Issued'
      /\ \A k \in Issued : tokens'[k].family = tokens[k].family
      /\ Issued' = 1..Len(tokens') /\ Len(tokens') \in Nat
  BY DEF Grows, Issued
<1>2. \A k \in Issued' : n < k /\ k < m => k \in Issued
  BY <1>0, <1>1
<1>3. IsNext(m, n)'
  BY <1>1, <1>2 DEF IsNext, SameFamily
<1>4. NextPair(n)' = m
  <2>1. PICK x \in Issued' : x = NextPair(n)' /\ IsNext(x, n)'
    BY <1>1, <1>3 DEF NextPair
  <2>2. ~(x < m) /\ ~(m < x)
    BY <1>1, <1>3, <2>1 DEF IsNext
  <2>3. QED
    BY <1>1, <2>1, <2>2
<1>5. QED
  BY <1>3, <1>4, NextIs

\* Chained pairs are linked families.
LEMMA ChainedIsLinked == SessionTypeOK /\ Chained => Families!Linked
<1> SUFFICES ASSUME SessionTypeOK, Chained PROVE Families!Linked
  OBVIOUS
<1>1. tokens \in Seq(Pair) /\ Issued \subseteq Nat
  BY Elements DEF SessionTypeOK
<1>2. UsedPairs \subseteq Issued
  BY DEF UsedPairs
<1>3. ASSUME NEW n \in UsedPairs
      PROVE  NextPair(n) \in Issued /\ IsNext(NextPair(n), n)
  <2>1. n \in Issued /\ tokens[n].used
    BY DEF UsedPairs
  <2>2. PICK m \in Issued : IsNext(m, n)
    BY <2>1, Zenon DEF Chained, Linear
  <2>3. NextPair(n) = m
    BY <1>1, <2>1, <2>2, NextIs
  <2>4. QED
    BY <2>2, <2>3
<1>4. \A n \in UsedPairs : tokens[NextPair(n)].family = tokens[n].family
  BY <1>3 DEF IsNext, SameFamily
<1>5. ASSUME NEW a \in UsedPairs, NEW b \in UsedPairs, NextPair(a) = NextPair(b)
      PROVE  a = b
  <2>1. PICK m \in Issued : m = NextPair(a) /\ IsNext(m, a) /\ IsNext(m, b)
    BY <1>3, <1>5
  <2>2. ~(a < b) /\ ~(b < a)
    BY <1>2, <2>1 DEF IsNext, SameFamily
  <2>3. QED
    BY <1>1, <1>2, <2>2
<1>6. \A n \in UsedPairs : tokens[NextPair(n)].revoked => tokens[n].revoked
  <2>1. SUFFICES ASSUME NEW n \in UsedPairs, tokens[NextPair(n)].revoked PROVE tokens[n].revoked
    OBVIOUS
  <2>2. NextPair(n) \in Issued /\ n \in Issued /\ SameFamily(NextPair(n), n)
    BY <1>2, <1>3, <1>4 DEF SameFamily
  <2>3. QED
    BY <2>1, <2>2, Zenon DEF Chained, RevokedWhole
<1>7. QED
  BY <1>2, <1>3, <1>4, <1>5, <1>6
  DEF Families!Linked, Families!Used, Families!Issued, Families!FamilyOf, Families!OldestOf

\* A step that neither issues nor uses pairs keeps the chains.
LEMMA ChainsKept ==
    ASSUME SessionTypeOK, Linear, Grows(tokens'), Issued' = Issued,
           \A n \in Issued : tokens'[n].used <=> tokens[n].used
    PROVE  /\ Linear'
           /\ [n \in Issued |-> tokens[n].family]' = [n \in Issued |-> tokens[n].family]
           /\ [n \in UsedPairs |-> NextPair(n)]' = [n \in UsedPairs |-> NextPair(n)]
<1>1. tokens \in Seq(Pair)
  BY DEF SessionTypeOK
<1>2. \A n \in Issued : tokens'[n].family = tokens[n].family
  BY DEF Grows
<1>3. UsedPairs' = UsedPairs /\ UsedPairs \subseteq Issued
  BY Zenon DEF UsedPairs
<1>4. ASSUME NEW n \in Issued, tokens[n].used
      PROVE  (\E m \in Issued : IsNext(m, n)') /\ NextPair(n)' = NextPair(n)
  <2>1. PICK m \in Issued : IsNext(m, n)
    BY <1>4, Zenon DEF Linear
  <2>2. QED
    BY <1>1, <2>1, NextKept
<1>5. Linear'
  <2>1. SUFFICES ASSUME NEW n \in Issued
                 PROVE  /\ tokens'[n].used => \E m \in Issued' : IsNext(m, n)'
                        /\ ~tokens'[n].used => \A m \in Issued' : n < m => ~SameFamily(m, n)'
    BY DEF Linear
  <2>2. CASE tokens[n].used
    BY <1>4, <2>2, Zenon
  <2>3. CASE ~tokens[n].used
    <3>1. \A m \in Issued : n < m => ~SameFamily(m, n)
      BY <2>3, Zenon DEF Linear
    <3>2. \A m \in Issued : SameFamily(m, n)' <=> SameFamily(m, n)
      BY <1>2 DEF SameFamily
    <3>3. ~tokens'[n].used
      BY <2>3, Zenon
    <3>4. QED
      BY <3>1, <3>2, <3>3, Zenon
  <2>4. QED
    BY <2>2, <2>3
<1>6. [n \in Issued |-> tokens[n].family]' = [n \in Issued |-> tokens[n].family]
  BY <1>2
<1>7. \A n \in UsedPairs : NextPair(n)' = NextPair(n)
  BY <1>4, Zenon DEF UsedPairs
<1>8. QED
  BY <1>3, <1>5, <1>6, <1>7

\* The expiry of an access token, or a step that leaves the pairs alone, is no
\* step of the families.
LEMMA ChainsStay ==
    ASSUME SessionTypeOK, Chained, Grows(tokens'), Issued' = Issued,
           \A n \in Issued : /\ tokens'[n].used <=> tokens[n].used
                             /\ tokens'[n].revoked <=> tokens[n].revoked
    PROVE  Chained' /\ UNCHANGED Families!vars
<1>1. Linear' /\ [n \in Issued |-> tokens[n].family]' = [n \in Issued |-> tokens[n].family]
      /\ [n \in UsedPairs |-> NextPair(n)]' = [n \in UsedPairs |-> NextPair(n)]
  BY ChainsKept, Zenon DEF Chained
<1>2. {n \in Issued : tokens[n].revoked}' = {n \in Issued : tokens[n].revoked}
  BY Zenon
<1>3. \A m, n \in Issued : SameFamily(m, n)' <=> SameFamily(m, n)
  BY DEF SameFamily, Grows
<1>4. RevokedWhole'
  BY <1>3, Zenon DEF Chained, RevokedWhole
<1>5. QED
  BY <1>1, <1>2, <1>4 DEF Chained, Families!vars

\* Registration and login open a family.
LEMMA SignInOpens ==
    ASSUME SessionTypeOK, Chained, NEW u \in Users, tokens' = IssueSession(u), Grows(tokens')
    PROVE  Chained' /\ Families!Next
<1>1. PICK n \in Nat : n = Len(tokens) + 1
  BY Elements DEF SessionTypeOK
<1>2. /\ tokens \in Seq(Pair) /\ Issued = 1..Len(tokens) /\ Len(tokens) \in Nat
      /\ \A m \in Issued : tokens[m].family \in Issued
  BY Elements DEF SessionTypeOK
<1>3. /\ Issued' = Issued \cup {n} /\ n \notin Issued
      /\ \A m \in Issued : tokens'[m] = tokens[m]
      /\ ~tokens'[n].used /\ ~tokens'[n].revoked
  BY <1>1, <1>2, IssueFacts DEF Issued
<1>4. tokens'[n].family = n
  <2>1. NewPair(u, n) \in Pair
    BY <1>1, New
  <2>2. tokens'[n] = NewPair(u, n)
    BY <1>1, <1>2, <2>1, Appended DEF IssueSession
  <2>3. QED
    BY <2>2 DEF NewPair
<1>5. \A m \in Issued : tokens'[m].family = tokens[m].family /\ tokens'[m].family # n /\ m < n
  BY <1>1, <1>2, <1>3
<1>6. ASSUME NEW k \in Issued, tokens[k].used
      PROVE  (\E m \in Issued' : IsNext(m, k)') /\ NextPair(k)' = NextPair(k)
  <2>1. PICK m \in Issued : IsNext(m, k)
    BY <1>6, Zenon DEF Chained, Linear
  <2>2. IsNext(m, k)' /\ NextPair(k)' = NextPair(k)
    BY <1>2, <2>1, NextKept
  <2>3. QED
    BY <1>3, <2>2
<1>7. Linear'
  <2>1. SUFFICES ASSUME NEW k \in Issued'
                 PROVE  /\ tokens'[k].used => \E m \in Issued' : IsNext(m, k)'
                        /\ ~tokens'[k].used => \A m \in Issued' : k < m => ~SameFamily(m, k)'
    BY DEF Linear
  <2>2. CASE k = n
    <3>1. \A m \in Issued' : ~(n < m)
      BY <1>2, <1>3, <1>5
    <3>2. ~tokens'[k].used
      BY <1>3, <2>2, Zenon
    <3>3. QED
      BY <2>2, <3>1, <3>2, Zenon
  <2>3. CASE k \in Issued
    <3>1. CASE tokens[k].used
      <4>1. tokens'[k].used
        BY <1>3, <2>3, <3>1
      <4>2. QED
        BY <1>6, <2>3, <3>1, <4>1, Zenon
    <3>2. CASE ~tokens[k].used
      <4>1. \A m \in Issued : k < m => ~SameFamily(m, k)
        BY <2>3, <3>2, Zenon DEF Chained, Linear
      <4>2. \A m \in Issued : SameFamily(m, k)' <=> SameFamily(m, k)
        BY <1>5, <2>3 DEF SameFamily
      <4>3. ~SameFamily(n, k)'
        BY <1>4, <1>5, <2>3 DEF SameFamily
      <4>4. ~tokens'[k].used
        BY <1>3, <2>3, <3>2
      <4>5. QED
        BY <1>3, <4>1, <4>2, <4>3, <4>4, Zenon
    <3>3. QED
      BY <3>1, <3>2
  <2>4. QED
    BY <1>3, <2>2, <2>3
<1>8. RevokedWhole'
  <2>1. SUFFICES ASSUME NEW m \in Issued', NEW k \in Issued', SameFamily(m, k)', tokens'[m].revoked
                 PROVE  tokens'[k].revoked
    BY DEF RevokedWhole
  <2>2. m # n
    BY <1>3, <2>1, Zenon
  <2>3. m \in Issued
    BY <1>3, <2>2
  <2>4. k \in Issued
    BY <1>3, <1>4, <1>5, <2>1, <2>3 DEF SameFamily
  <2>5. SameFamily(m, k)
    BY <1>5, <2>1, <2>3, <2>4 DEF SameFamily
  <2>6. tokens'[m] = tokens[m] /\ tokens'[k] = tokens[k]
    BY <1>3, <2>3, <2>4
  <2>7. QED
    BY <2>1, <2>3, <2>4, <2>5, <2>6 DEF Chained, RevokedWhole
<1>9. UsedPairs' = UsedPairs /\ UsedPairs \subseteq Issued
  <2>1. \A m \in Issued' : tokens'[m].used <=> m \in Issued /\ tokens[m].used
    BY <1>3
  <2>2. QED
    BY <1>3, <2>1, Zenon DEF UsedPairs
<1>10. [m \in Issued |-> tokens[m].family]'
         = [x \in Issued \cup {n} |-> IF x = n THEN n ELSE [m \in Issued |-> tokens[m].family][x]]
  BY <1>3, <1>4, <1>5
<1>11. [m \in UsedPairs |-> NextPair(m)]' = [m \in UsedPairs |-> NextPair(m)]
  <2>1. \A m \in UsedPairs : NextPair(m)' = NextPair(m)
    BY <1>6, Zenon DEF UsedPairs
  <2>2. QED
    BY <1>9, <2>1
<1>12. {m \in Issued : tokens[m].revoked}' = {m \in Issued : tokens[m].revoked}
  <2>1. \A m \in Issued' : tokens'[m].revoked <=> m \in Issued /\ tokens[m].revoked
    BY <1>3
  <2>2. QED
    BY <1>3, <2>1, Zenon
<1>13. Families!Open(n)
  BY <1>3, <1>10, <1>11, <1>12 DEF Families!Open, Families!Add, Families!Issued
<1>14. QED
  BY <1>7, <1>8, <1>13 DEF Chained, Families!Next

\* A refresh call with an unused pair is one exchange.
LEMMA RefreshExchanges ==
    ASSUME SessionTypeOK, Chained, NEW n \in Issued, Rotatable(n),
           tokens' = RotateRefresh(n), Grows(tokens')
    PROVE  Chained' /\ Families!Next
<1>1. PICK s \in Nat : s = RefreshReply(n) /\ s = Len(tokens) + 1
  BY Elements DEF RefreshReply, SessionTypeOK
<1>2. /\ tokens \in Seq(Pair) /\ Issued = 1..Len(tokens) /\ Len(tokens) \in Nat
      /\ \A m \in Issued : tokens[m].family \in Issued
      /\ n \in Nat
  BY Elements DEF SessionTypeOK
<1>3. /\ Issued' = Issued \cup {s} /\ s \notin Issued
      /\ tokens'[s] = NewPair(tokens[n].user, tokens[n].family)
      /\ tokens'[n] = [tokens[n] EXCEPT !.used = TRUE]
      /\ \A m \in Issued : m # n => tokens'[m] = tokens[m]
  BY <1>1, <1>2, RotateAccepted DEF Issued
<1>4. ~tokens'[s].used /\ ~tokens'[s].revoked /\ tokens'[s].family = tokens[n].family
  BY <1>3 DEF NewPair
<1>5. tokens[n] \in Pair
  BY <1>2, Elements
<1>6. tokens'[n].used /\ (tokens'[n].revoked <=> tokens[n].revoked)
  BY <1>3, <1>5 DEF Pair
<1>7. ~tokens[n].used /\ ~tokens[n].revoked
  BY DEF Rotatable
<1>8. \A m \in Issued : tokens'[m].family = tokens[m].family /\ m < s
  BY <1>1, <1>2 DEF Grows
<1>9. \A m \in Issued : tokens'[m].used <=> tokens[m].used \/ m = n
  <2>1. \A m \in Issued : m # n => (tokens'[m].used <=> tokens[m].used)
    BY <1>3
  <2>2. QED
    BY <1>6, <2>1, Zenon
<1>10. \A m \in Issued : tokens'[m].revoked <=> tokens[m].revoked
  <2>1. \A m \in Issued : m # n => (tokens'[m].revoked <=> tokens[m].revoked)
    BY <1>3
  <2>2. QED
    BY <1>6, <2>1, Zenon
<1>11. \A m \in Issued : n < m => ~SameFamily(m, n)
  BY <1>7, Zenon DEF Chained, Linear
<1>12. IsNext(s, n)' /\ NextPair(n)' = s
  <2>1. n < s /\ SameFamily(s, n)'
    BY <1>4, <1>8 DEF SameFamily
  <2>2. \A k \in Issued' : n < k /\ k < s => ~SameFamily(k, n)'
    BY <1>2, <1>3, <1>8, <1>11 DEF SameFamily
  <2>3. IsNext(s, n)'
    BY <2>1, <2>2 DEF IsNext
  <2>4. PICK x \in Issued' : x = NextPair(n)' /\ IsNext(x, n)'
    BY <1>3, <2>3 DEF NextPair
  <2>5. ~(x < s) /\ ~(s < x)
    BY <1>3, <2>3, <2>4 DEF IsNext
  <2>6. QED
    BY <1>1, <1>2, <1>3, <2>3, <2>4, <2>5
<1>13. ASSUME NEW k \in Issued, tokens[k].used
       PROVE  (\E m \in Issued' : IsNext(m, k)') /\ NextPair(k)' = NextPair(k)
  <2>1. PICK m \in Issued : IsNext(m, k)
    BY <1>13, Zenon DEF Chained, Linear
  <2>2. IsNext(m, k)' /\ NextPair(k)' = NextPair(k)
    BY <1>2, <2>1, NextKept
  <2>3. QED
    BY <1>3, <2>2
<1>14. Linear'
  <2>1. SUFFICES ASSUME NEW k \in Issued'
                 PROVE  /\ tokens'[k].used => \E m \in Issued' : IsNext(m, k)'
                        /\ ~tokens'[k].used => \A m \in Issued' : k < m => ~SameFamily(m, k)'
    BY DEF Linear
  <2>2. CASE k = s
    <3>1. \A m \in Issued' : ~(s < m)
      BY <1>2, <1>3, <1>8
    <3>2. ~tokens'[k].used
      BY <1>4, <2>2, Zenon
    <3>3. QED
      BY <2>2, <3>1, <3>2, Zenon
  <2>3. CASE k = n
    <3>1. tokens'[k].used
      BY <1>6, <2>3, Zenon
    <3>2. \E m \in Issued' : IsNext(m, k)'
      BY <1>3, <1>12, <2>3
    <3>3. QED
      BY <3>1, <3>2, Zenon
  <2>4. CASE k \in Issued /\ k # n
    <3>1. CASE tokens[k].used
      <4>1. tokens'[k].used
        BY <1>9, <2>4, <3>1, Zenon
      <4>2. QED
        BY <1>13, <2>4, <3>1, <4>1, Zenon
    <3>2. CASE ~tokens[k].used
      <4>1. \A m \in Issued : k < m => ~SameFamily(m, k)
        BY <2>4, <3>2, Zenon DEF Chained, Linear
      <4>2. \A m \in Issued : SameFamily(m, k)' <=> SameFamily(m, k)
        BY <1>8, <2>4 DEF SameFamily
      <4>3. ~SameFamily(s, k)'
        <5>1. ~SameFamily(k, n)
          BY <1>2, <1>11, <2>4, <4>1 DEF SameFamily
        <5>2. QED
          BY <1>4, <1>8, <2>4, <5>1 DEF SameFamily
      <4>4. ~tokens'[k].used
        BY <1>9, <2>4, <3>2, Zenon
      <4>5. QED
        BY <1>3, <4>1, <4>2, <4>3, <4>4, Zenon
    <3>3. QED
      BY <3>1, <3>2
  <2>5. QED
    BY <1>3, <2>2, <2>3, <2>4
<1>15. RevokedWhole'
  <2>1. SUFFICES ASSUME NEW m \in Issued', NEW k \in Issued', SameFamily(m, k)', tokens'[m].revoked
                 PROVE  tokens'[k].revoked
    BY DEF RevokedWhole
  <2>2. m # s
    BY <1>4, <2>1, Zenon
  <2>3. m \in Issued
    BY <1>3, <2>2
  <2>4. tokens[m].revoked
    BY <1>10, <2>1, <2>3, Zenon
  <2>5. ~SameFamily(m, n)
    BY <1>7, <2>3, <2>4, Zenon DEF Chained, RevokedWhole
  <2>6. k \in Issued
    BY <1>3, <1>4, <1>8, <2>1, <2>3, <2>5 DEF SameFamily
  <2>7. SameFamily(m, k)
    BY <1>8, <2>1, <2>3, <2>6 DEF SameFamily
  <2>8. tokens[k].revoked
    BY <2>3, <2>4, <2>6, <2>7, Zenon DEF Chained, RevokedWhole
  <2>9. QED
    BY <1>10, <2>6, <2>8, Zenon
<1>16. UsedPairs' = UsedPairs \cup {n} /\ UsedPairs \subseteq Issued /\ n \notin UsedPairs
  BY <1>3, <1>4, <1>7, <1>9, Zenon DEF UsedPairs
<1>17. [m \in Issued |-> tokens[m].family]'
         = [x \in Issued \cup {s} |-> IF x = s THEN tokens[n].family
                                      ELSE [m \in Issued |-> tokens[m].family][x]]
  BY <1>3, <1>4, <1>8
<1>18. [m \in UsedPairs |-> NextPair(m)]'
         = [x \in UsedPairs \cup {n} |-> IF x = n THEN s ELSE [m \in UsedPairs |-> NextPair(m)][x]]
  <2>1. \A m \in UsedPairs : NextPair(m)' = NextPair(m)
    BY <1>13, Zenon DEF UsedPairs
  <2>2. \A x \in UsedPairs \cup {n} :
           NextPair(x)' = IF x = n THEN s ELSE [m \in UsedPairs |-> NextPair(m)][x]
    BY <1>12, <1>16, <2>1
  <2>3. QED
    BY <1>16, <2>2, Zenon
<1>19. {m \in Issued : tokens[m].revoked}' = {m \in Issued : tokens[m].revoked}
  BY <1>3, <1>4, <1>10, Zenon
<1>20. n \in Issued \ (UsedPairs \cup {m \in Issued : tokens[m].revoked})
  BY <1>7, Zenon DEF UsedPairs
<1>21. Families!Exchange(n, s)
  BY <1>3, <1>17, <1>18, <1>19, <1>20
  DEF Families!Exchange, Families!Add, Families!Issued, Families!Used
<1>22. QED
  BY <1>2, <1>14, <1>15, <1>21 DEF Chained, Families!Next

\* What a reuse does to each pair.
LEMMA ReuseFacts ==
    ASSUME SessionTypeOK, NEW n \in Issued, tokens[n].used, ~tokens[n].revoked
    PROVE  /\ DOMAIN RotateRefresh(n) = Issued
           /\ \A m \in Issued :
                 /\ RotateRefresh(n)[m].used <=> tokens[m].used
                 /\ RotateRefresh(n)[m].revoked <=> tokens[m].revoked \/ SameFamily(m, n)
<1>1. RotateRefresh(n) = RevokeFamily(n)
  BY DEF RotateRefresh, Rotatable
<1>2. SUFFICES ASSUME NEW m \in Issued
               PROVE  /\ RevokeFamily(n)[m].used <=> tokens[m].used
                      /\ RevokeFamily(n)[m].revoked <=> tokens[m].revoked \/ SameFamily(m, n)
  BY <1>1 DEF RevokeFamily
<1>3. tokens[m] \in Pair
  BY Elements DEF SessionTypeOK
<1>4. CASE SameFamily(m, n)
  <2>1. RevokeFamily(n)[m] = [tokens[m] EXCEPT !.revoked = TRUE]
    BY <1>4 DEF RevokeFamily, SameFamily
  <2>2. QED
    BY <1>3, <1>4, <2>1 DEF Pair
<1>5. CASE ~SameFamily(m, n)
  <2>1. RevokeFamily(n)[m] = tokens[m]
    BY <1>5 DEF RevokeFamily, SameFamily
  <2>2. QED
    BY <1>5, <2>1, Zenon
<1>6. QED
  BY <1>4, <1>5

\* A refresh call with a used pair revokes its family.
LEMMA ReuseRevokes ==
    ASSUME SessionTypeOK, Chained, NEW n \in Issued, tokens[n].used, ~tokens[n].revoked,
           tokens' = RotateRefresh(n), Grows(tokens')
    PROVE  Chained' /\ Families!Next
<1>1. tokens \in Seq(Pair) /\ Issued \subseteq Nat
  BY Elements DEF SessionTypeOK
<1>2. Issued' = Issued
  BY ReuseFacts DEF Issued
<1>3. \A m \in Issued : tokens'[m].used <=> tokens[m].used
  BY ReuseFacts
<1>4. \A m \in Issued : tokens'[m].revoked <=> tokens[m].revoked \/ SameFamily(m, n)
  BY ReuseFacts
<1>5. /\ Linear'
      /\ [m \in Issued |-> tokens[m].family]' = [m \in Issued |-> tokens[m].family]
      /\ [m \in UsedPairs |-> NextPair(m)]' = [m \in UsedPairs |-> NextPair(m)]
  BY <1>2, <1>3, ChainsKept, Zenon DEF Chained
<1>6. \A m, k \in Issued : SameFamily(m, k)' <=> SameFamily(m, k)
  BY DEF SameFamily, Grows
<1>7. RevokedWhole'
  <2>1. SUFFICES ASSUME NEW m \in Issued, NEW k \in Issued, SameFamily(m, k), tokens'[m].revoked
                 PROVE  tokens'[k].revoked
    BY <1>2, <1>6, Zenon DEF RevokedWhole
  <2>2. CASE tokens[m].revoked
    BY <1>4, <2>1, <2>2, Zenon DEF Chained, RevokedWhole
  <2>3. CASE SameFamily(m, n)
    <3>1. SameFamily(k, n)
      BY <2>1, <2>3 DEF SameFamily
    <3>2. QED
      BY <1>4, <3>1, Zenon
  <2>4. QED
    BY <1>4, <2>1, <2>2, <2>3, Zenon
<1>8. PICK S \in SUBSET Nat : S = {m \in Issued : SameFamily(m, n)}
  BY <1>1
<1>9. {m \in Issued : tokens[m].revoked}' = {m \in Issued : tokens[m].revoked} \cup S
  BY <1>2, <1>4, <1>8, Zenon
<1>10. Families!Linked
  BY ChainedIsLinked
<1>11. \A x \in UsedPairs : NextPair(x) \in Issued /\ tokens[NextPair(x)].family = tokens[x].family
  BY <1>10 DEF Families!Linked, Families!Used, Families!Issued, Families!FamilyOf
<1>12. n \in UsedPairs \ {m \in Issued : tokens[m].revoked} /\ UsedPairs \subseteq Issued
  BY Zenon DEF UsedPairs
<1>13. n \in S /\ NextPair(n) \in S /\ \A x \in UsedPairs : NextPair(x) \in S => x \in S
  BY <1>8, <1>11, <1>12 DEF SameFamily
<1>14. \A m \in S : m \in Issued /\ tokens[m].family = tokens[n].family
  BY <1>8 DEF SameFamily
<1>15. Families!Revoke(n, S)
  BY <1>5, <1>9, <1>12, <1>13, <1>14
  DEF Families!Revoke, Families!FamilyOf, Families!Issued, Families!Used, Families!OldestOf
<1>16. QED
  BY <1>1, <1>5, <1>7, <1>15 DEF Chained, Families!Next

\* Every step of the server is a step of the token families, or none.
LEMMA ServeImplements ==
    ASSUME SessionTypeOK, Sent, Chained, Serve
    PROVE  Chained' /\ [Families!Next]_Families!vars
<1>0. Grows(tokens')
  BY ServeTypes
<1>1. ASSUME NEW n \in Issued, Expire(n)
      PROVE  Chained' /\ UNCHANGED Families!vars
  <2>1. /\ Issued' = Issued
        /\ \A m \in Issued : tokens'[m].used = tokens[m].used /\ tokens'[m].revoked = tokens[m].revoked
    BY <1>1, ExpireFacts DEF Expire, SessionTypeOK
  <2>2. \A m \in Issued : /\ tokens'[m].used <=> tokens[m].used
                          /\ tokens'[m].revoked <=> tokens[m].revoked
    BY <2>1
  <2>3. QED
    BY <1>0, <2>1, <2>2, ChainsStay
<1>2. ASSUME NEW q \in Requests, NEW u \in Users, SignIn(q, u)
      PROVE  Chained' /\ Families!Next
  BY <1>0, <1>2, SignInOpens DEF SignIn
<1>3. ASSUME NEW q \in Requests, Refresh(q)
      PROVE  Chained' /\ [Families!Next]_Families!vars
  <2>1. PICK n \in Issued : n = shown[q] /\ tokens' = RotateRefresh(n)
    BY <1>3 DEF Refresh, Sent, SessionTypeOK, MaybePair
  <2>2. CASE Rotatable(n)
    BY <1>0, <2>1, <2>2, RefreshExchanges
  <2>3. CASE tokens[n].revoked
    <3>1. tokens' = tokens
      BY <2>1, <2>3 DEF RotateRefresh, Rotatable
    <3>2. Issued' = Issued
      BY <3>1 DEF Issued
    <3>3. \A m \in Issued : /\ tokens'[m].used <=> tokens[m].used
                            /\ tokens'[m].revoked <=> tokens[m].revoked
      BY <3>1
    <3>4. QED
      BY <1>0, <3>2, <3>3, ChainsStay
  <2>4. CASE ~Rotatable(n) /\ ~tokens[n].revoked
    <3>1. tokens[n].used
      BY <2>4 DEF Rotatable
    <3>2. QED
      BY <1>0, <2>1, <2>4, <3>1, ReuseRevokes
  <2>5. QED
    BY <2>2, <2>3, <2>4
<1>4. QED
  BY <1>1, <1>2, <1>3 DEF Serve

\* A step of the app leaves the pairs alone.
LEMMA AppImplements ==
    ASSUME SessionTypeOK, Chained, UNCHANGED tokens
    PROVE  Chained' /\ UNCHANGED Families!vars
<1>1. Grows(tokens') /\ Issued' = Issued
  BY SameTokens
<1>2. \A m \in Issued : /\ tokens'[m].used <=> tokens[m].used
                        /\ tokens'[m].revoked <=> tokens[m].revoked
  OBVIOUS
<1>3. QED
  BY <1>1, <1>2, ChainsStay

\* Either app starts with a family of one pair.
LEMMA InitiallyChained == SessionInit => Chained
<1>1. SUFFICES ASSUME SessionInit PROVE Chained
  OBVIOUS
<1>2. PICK u \in Users : tokens = <<NewPair(u, 1)>>
  BY <1>1 DEF SessionInit
<1>3. Issued = {1} /\ tokens[1] = NewPair(u, 1)
  BY <1>2 DEF Issued
<1>4. ~tokens[1].used /\ ~tokens[1].revoked
  BY <1>3 DEF NewPair
<1>5. Linear
  BY <1>3, <1>4 DEF Linear
<1>6. RevokedWhole
  BY <1>3, <1>4 DEF RevokedWhole
<1>7. QED
  BY <1>5, <1>6 DEF Chained

\* The in-memory repository that the Android app talks to implements the token
\* families of the PostgreSQL table (MemoryRepository.RotateRefresh).
THEOREM AndroidImplementsFamilies == AndroidSpec => Families!Spec
<1>1. AndroidInit => Families!Init /\ Chained
  BY AndroidInitially, InitiallyChained, ChainedIsLinked DEF AndroidInit, AndroidTypeOK, Families!Init
<1>2. AndroidIInv /\ Chained /\ [AndroidNext]_androidVars
         => Chained' /\ [Families!Next]_Families!vars
  <2>1. SUFFICES ASSUME AndroidIInv, Chained, [AndroidNext]_androidVars
                 PROVE  Chained' /\ [Families!Next]_Families!vars
    OBVIOUS
  <2>2. SessionTypeOK /\ Sent
    BY <2>1 DEF AndroidIInv, AndroidTypeOK, Coordinated, Stages, Sent
  <2>3. Serve \/ UNCHANGED tokens
    BY <2>1 DEF AndroidNext, androidVars, session, Push, Ask, Submit, SignOut, Flush, KillApp, KillWith,
                Recreate, Proceed, EnterRefresh, UseCurrent, Save, Fail, Cancelled,
                Answered, Unauthorized, Welcome, SignInFails
  <2>4. QED
    BY <2>1, <2>2, <2>3, ServeImplements, AppImplements
<1>3. QED
  BY <1>1, <1>2, AndroidInvariance, PTL DEF AndroidSpec, Families!Spec

\* So does the one the iOS app talks to.
THEOREM IosImplementsFamilies == IosSpec => Families!Spec
<1>1. IosInit => Families!Init /\ Chained
  BY IosInitially, InitiallyChained, ChainedIsLinked DEF IosInit, IosBase, IosTypeOK, Families!Init
<1>2. IosBase /\ Chained /\ [IosNext]_iosVars
         => Chained' /\ [Families!Next]_Families!vars
  <2>1. SUFFICES ASSUME IosBase, Chained, [IosNext]_iosVars
                 PROVE  Chained' /\ [Families!Next]_Families!vars
    OBVIOUS
  <2>2. SessionTypeOK /\ Sent
    BY <2>1 DEF IosBase, IosTypeOK, IosStages, Sent
  <2>3. Serve \/ UNCHANGED tokens
    BY <2>1 DEF IosNext, iosVars, session, Press, Ask, Submit, KillIos, KillWith,
                ProceedIos, Reload, Follow, StartTask, TaskEnds, ResumeWithPair, ResumeWithError,
                SavePair, Lead, Retry, RetrySucceeds, RetryFails, Clear, Ignore, Cancel, Leave, SignedOut,
                SaveSignIn, Enter, Answered, Unauthorized, SignInFails
  <2>4. QED
    BY <2>1, <2>2, <2>3, ServeImplements, AppImplements
<1>3. QED
  BY <1>1, <1>2, IosInitially, IosStep, PTL DEF IosSpec, Families!Spec
=============================================================================
