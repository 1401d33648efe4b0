-------------------------- MODULE ServerStateProofs --------------------------
(***************************************************************************)
(* Theorems about ServerState and Hub, for any number of devices, links,    *)
(* requests, snippets and callers.                                          *)
(***************************************************************************)
EXTENDS ServerState, FiniteSetTheorems, TLAPS

(***************************************************************************)
(* The hub of devices.                                                      *)
(***************************************************************************)
\* The socket that registered last for a device stays the registered one until
\* its handler leaves the try block.
NewestServed ==
    \A s \in Sockets : hpc[s] \in Handling /\ newest[DeviceOf[s]] = s => conn[DeviceOf[s]] = s

HubInv == HubTypeOK /\ NoGhost /\ NewestServed

LEMMA HubInvInit == start \in Starts /\ HubInit => HubInv
BY HubAssumption DEF HubInit, HubInv, HubTypeOK, NoGhost, NewestServed, HandlerPlaces, Handling, Actors

\* The targets of a broadcast are devices with sockets.
LEMMA CastTypes ==
  ASSUME HubTypeOK, NEW a \in Actors, NEW c, NEW e, Cast(a, c, e)
  PROVE  /\ todo' \in [Actors -> SUBSET (Devices \X Sockets)]
         /\ dead' \in [Actors -> SUBSET Devices]
<1>1. {p \in Live(c) : p[1] # e} \in SUBSET (Devices \X Sockets)
  BY DEF Live
<1> QED BY <1>1 DEF Cast, HubTypeOK

\* A broadcast begins and ends: what a caller does to the hub.
LEMMA HubCast ==
  ASSUME HubInv, NEW a \in Actors, NEW e,
         Cast(a, conn, e), UNCHANGED <<start, conn, newest, up, hpc>>
  PROVE  HubInv'
<1>1. HubTypeOK'
  BY CastTypes DEF HubInv, HubTypeOK
<1>2. NoGhost' /\ NewestServed'
  BY DEF HubInv, NoGhost, NewestServed
<1> QED BY <1>1, <1>2 DEF HubInv

\* Removing what a broadcast found dead.
LEMMA PurgeTypes ==
  ASSUME HubInv, NEW a \in Actors, Purge(a)
  PROVE  /\ conn' \in [Devices -> Sockets \cup {NoSocket}]
         /\ newest' \in [Devices -> Sockets \cup {NoSocket}]
         /\ \A d \in Devices : conn'[d] # NoSocket => conn'[d] = conn[d]
         /\ \A s \in Sockets : newest'[DeviceOf[s]] = s =>
               newest[DeviceOf[s]] = s /\ conn'[DeviceOf[s]] = conn[DeviceOf[s]]
<1>1. /\ conn \in [Devices -> Sockets \cup {NoSocket}]
      /\ newest \in [Devices -> Sockets \cup {NoSocket}]
  BY DEF HubInv, HubTypeOK
<1>2. \A s \in Sockets : DeviceOf[s] \in Devices /\ s # NoSocket
  BY HubAssumption
<1> QED BY <1>1, <1>2 DEF Purge

LEMMA HubPurge ==
  ASSUME HubInv, NEW a \in Actors, Purge(a), UNCHANGED <<start, up>>,
         UNCHANGED hpc \/ \E s \in Sockets : /\ hpc[s] \in Casting
                                             /\ \E l \in {"count", "loop"} \cup Leaving \cup {"end"} :
                                                   /\ hpc' = [hpc EXCEPT ![s] = l]
                                                   /\ l \in Handling <=> hpc[s] \in Handling,
         (\E e : Cast(a, conn', e)) \/ Quiet
  PROVE  HubInv'
<1>1. /\ todo' \in [Actors -> SUBSET (Devices \X Sockets)]
      /\ dead' \in [Actors -> SUBSET Devices]
  BY CastTypes DEF Quiet, HubInv, HubTypeOK
<1>2. /\ hpc' \in [Sockets -> HandlerPlaces]
      /\ \A s \in Sockets : hpc'[s] \in Handling <=> hpc[s] \in Handling
  BY DEF HubInv, HubTypeOK, HandlerPlaces, Handling, Leaving
<1>3. /\ HubTypeOK /\ NoGhost /\ NewestServed
      /\ conn \in [Devices -> Sockets \cup {NoSocket}]
  BY DEF HubInv, HubTypeOK
<1>4. HubTypeOK'
  BY <1>1, <1>2, <1>3, PurgeTypes DEF HubTypeOK
<1>5. NoGhost'
  BY <1>2, <1>3, PurgeTypes DEF NoGhost
<1>6. NewestServed'
  BY <1>2, <1>3, PurgeTypes DEF NewestServed
<1> QED BY <1>4, <1>5, <1>6 DEF HubInv

LEMMA HubCastSend ==
  ASSUME HubInv, NEW a \in Actors, CastSend(a), UNCHANGED start
  PROVE  HubInv'
<1>1. PICK p \in todo[a] :
         /\ todo' = [todo EXCEPT ![a] = @ \ {p}]
         /\ dead' = dead \/ dead' = [dead EXCEPT ![a] = @ \cup {p[1]}]
  BY DEF CastSend
<1>2. todo[a] \subseteq Devices \X Sockets /\ p[1] \in Devices
  BY <1>1 DEF HubInv, HubTypeOK
<1>3. /\ todo' \in [Actors -> SUBSET (Devices \X Sockets)]
      /\ dead' \in [Actors -> SUBSET Devices]
  BY <1>1, <1>2 DEF HubInv, HubTypeOK
<1>4. HubTypeOK'
  BY <1>3 DEF HubInv, HubTypeOK, CastSend
<1>5. NoGhost' /\ NewestServed'
  BY DEF HubInv, NoGhost, NewestServed, CastSend
<1> QED BY <1>4, <1>5 DEF HubInv

LEMMA HubTeardown ==
  ASSUME HubInv, NEW s \in Sockets, Teardown(s), up' \subseteq up, UNCHANGED <<start, newest>>
  PROVE  HubInv'
<1> DEFINE d == DeviceOf[s]
<1>1. d \in Devices /\ s \in Actors /\ NoSocket \notin Sockets
  BY HubAssumption DEF Actors
<1>2. HubTypeOK /\ NoGhost /\ NewestServed
  BY DEF HubInv
<1>3. /\ todo' \in [Actors -> SUBSET (Devices \X Sockets)]
      /\ dead' \in [Actors -> SUBSET Devices]
  BY <1>1, <1>2, CastTypes DEF Teardown, Quiet, HubTypeOK
<1>4. /\ hpc' \in [Sockets -> HandlerPlaces] /\ hpc'[s] \notin Handling
      /\ \A q \in Sockets : q # s => hpc'[q] = hpc[q]
  BY <1>2 DEF Teardown, At, HubTypeOK, HandlerPlaces, Handling, Leaving
<1>5. /\ conn' \in [Devices -> Sockets \cup {NoSocket}]
      /\ \A e \in Devices : conn'[e] # NoSocket => conn'[e] = conn[e] /\ conn[e] # s
      /\ \A q \in Sockets : q # s => (conn'[DeviceOf[q]] = q <=> conn[DeviceOf[q]] = q)
  BY <1>1, <1>2, HubAssumption DEF Teardown, HubTypeOK
<1>6. HubTypeOK'
  BY <1>2, <1>3, <1>4, <1>5 DEF HubTypeOK
<1>7. NoGhost'
  BY <1>2, <1>4, <1>5 DEF NoGhost, HubTypeOK
<1>8. NewestServed'
  BY <1>2, <1>4, <1>5 DEF NewestServed
<1> QED BY <1>6, <1>7, <1>8 DEF HubInv

\* A handler moves within its try block and leaves the registrations alone.
LEMMA HubMove ==
  ASSUME HubInv, NEW s \in Sockets, NEW l \in Handling, hpc[s] \in Handling, At(s, l),
         UNCHANGED <<start, conn, newest, up>>,
         (\E e : Cast(s, conn, e)) \/ Quiet
  PROVE  HubInv'
<1>1. /\ todo' \in [Actors -> SUBSET (Devices \X Sockets)]
      /\ dead' \in [Actors -> SUBSET Devices]
  BY CastTypes DEF Quiet, HubInv, HubTypeOK, Actors
<1>2. /\ hpc' \in [Sockets -> HandlerPlaces]
      /\ \A q \in Sockets : hpc'[q] \in Handling <=> hpc[q] \in Handling
  BY DEF HubInv, HubTypeOK, HandlerPlaces, At
<1>3. HubTypeOK'
  BY <1>1, <1>2 DEF HubInv, HubTypeOK
<1>4. NoGhost' /\ NewestServed'
  BY <1>2 DEF HubInv, HubTypeOK, NoGhost, NewestServed
<1> QED BY <1>3, <1>4 DEF HubInv

LEMMA HubHandler ==
  ASSUME HubInv, NEW s \in Sockets, UNCHANGED start, HandlerNext(s) \/ Reject(s) \/ Leave(s)
  PROVE  HubInv'
<1>1. /\ HubTypeOK /\ NoGhost /\ NewestServed
      /\ s \in Actors /\ DeviceOf[s] \in Devices /\ NoSocket \notin Sockets
  BY HubAssumption DEF HubInv, Actors
<1>2. CASE Reject(s)
  <2>1. /\ hpc' \in [Sockets -> HandlerPlaces] /\ hpc[s] \notin Handling /\ hpc'[s] \notin Handling
        /\ \A q \in Sockets : q # s => hpc'[q] = hpc[q]
    BY <1>1, <1>2 DEF Reject, At, HubTypeOK, HandlerPlaces, Handling
  <2>2. HubTypeOK'
    BY <1>1, <1>2, <2>1 DEF HubTypeOK, Reject
  <2>3. NoGhost' /\ NewestServed'
    BY <1>1, <1>2, <2>1 DEF HubTypeOK, NoGhost, NewestServed, Reject
  <2> QED BY <2>2, <2>3 DEF HubInv
<1>3. CASE Leave(s)
  BY <1>1, <1>3 DEF HubInv, HubTypeOK, NoGhost, NewestServed, Leave
<1>4. CASE Connect(s)
  <2>1. /\ hpc' \in [Sockets -> HandlerPlaces] /\ hpc[s] \notin Handling /\ hpc'[s] \in Handling
        /\ \A q \in Sockets : q # s => hpc'[q] = hpc[q]
    BY <1>1, <1>4 DEF Connect, At, HubTypeOK, HandlerPlaces, Handling
  <2>2. /\ conn' \in [Devices -> Sockets \cup {NoSocket}]
        /\ newest' \in [Devices -> Sockets \cup {NoSocket}]
        /\ conn'[DeviceOf[s]] = s /\ newest'[DeviceOf[s]] = s
        /\ \A d \in Devices : d # DeviceOf[s] => conn'[d] = conn[d] /\ newest'[d] = newest[d]
    BY <1>1, <1>4 DEF Connect, HubTypeOK
  <2>3. HubTypeOK'
    BY <1>1, <1>4, <2>1, <2>2 DEF HubTypeOK, Connect, Quiet
  <2>4. NoGhost'
    BY <1>1, <2>1, <2>2 DEF HubTypeOK, NoGhost
  <2>5. NewestServed'
    <3> SUFFICES ASSUME NEW q \in Sockets, hpc'[q] \in Handling, newest'[DeviceOf[q]] = q
                 PROVE  conn'[DeviceOf[q]] = q
      BY DEF NewestServed
    <3>1. DeviceOf[q] \in Devices
      BY HubAssumption
    <3>2. CASE DeviceOf[q] = DeviceOf[s]
      BY <2>2, <3>2
    <3>3. CASE DeviceOf[q] # DeviceOf[s]
      BY <1>1, <2>1, <2>2, <3>1, <3>3 DEF NewestServed
    <3> QED BY <3>2, <3>3
  <2> QED BY <2>3, <2>4, <2>5 DEF HubInv
<1>5. CASE Listed(s)
  <2>1. CASE Teardown(s) /\ up' = up \ {s}
    BY <1>5, <2>1, HubTeardown DEF Listed
  <2>2. CASE Cast(s, conn, DeviceOf[s]) /\ At(s, "toast") /\ UNCHANGED <<conn, up>>
    <3>1. hpc[s] \in Handling /\ "toast" \in Handling
      BY <1>5 DEF Listed, Handling
    <3> QED BY <1>5, <2>2, <3>1, HubMove DEF Listed
  <2> QED BY <1>5, <2>1, <2>2 DEF Listed
<1>6. CASE CastSend(s)
  BY <1>1, <1>6, HubCastSend
<1>7. CASE CastEnd(s)
  <2>1. /\ Purge(s) /\ UNCHANGED up /\ hpc[s] \in Casting
        /\ (\E e : Cast(s, conn', e)) \/ Quiet
    BY <1>7 DEF CastEnd
  <2>2. \E l \in {"count", "loop"} \cup Leaving \cup {"end"} :
           hpc' = [hpc EXCEPT ![s] = l] /\ (l \in Handling <=> hpc[s] \in Handling)
    BY <1>7 DEF CastEnd, At, Leaving, Handling
  <2> QED BY <1>1, <2>1, <2>2, HubPurge
<1>8. CASE Disconnected(s)
  BY <1>8, HubTeardown DEF Disconnected
<1> QED BY <1>2, <1>3, <1>4, <1>5, <1>6, <1>7, <1>8 DEF HandlerNext

LEMMA HubAgain ==
  ASSUME HubInv, HubRestart, UNCHANGED start
  PROVE  HubInv'
<1>1. HubTypeOK'
  BY DEF HubInv, HubTypeOK, HubRestart, HandlerPlaces
<1>2. NoGhost' /\ NewestServed'
  BY HubAssumption DEF NoGhost, NewestServed, HubRestart
<1> QED BY <1>1, <1>2 DEF HubInv

(***************************************************************************)
(* Share links.                                                             *)
(***************************************************************************)
LinkType ==
    /\ now \in 0..MaxNow /\ linkOps \in 0..MaxLinkOps
    /\ active \in [Token -> Ttls \cup {0}] /\ table \in [Token -> Ttls \cup {0}]
    /\ granted \in [Token -> Ttls \cup {0}] /\ revoked \in SUBSET Token
    /\ asked \in [Token -> SUBSET Ttls]
    /\ lpc \in [Visitors \cup Listers -> {"idle", "check", "drop"}]
    /\ seen \in [Visitors \cup Listers -> SUBSET (Token \X Ttls)]

\* A lifetime that memory, the database or a reader has was asked for once, and
\* what a reader is about to drop has outlived the lifetime it read.
ReadWasAsked ==
    /\ \A t \in Token : active[t] # 0 => active[t] \in asked[t]
    /\ \A t \in Token : table[t] # 0 => table[t] \in asked[t]
    /\ \A t \in Token : granted[t] # 0 => granted[t] \in asked[t]
    /\ \A a \in Visitors \cup Listers : \A p \in seen[a] : p[2] \in asked[p[1]]
    /\ \A a \in Visitors \cup Listers : lpc[a] = "drop" => \A p \in seen[a] : Expired(p[1], p[2])

LinksInv == LinkType /\ ReadWasAsked /\ LinkLives /\ RevokedIsDead

LEMMA TokenFacts ==
  /\ \A t \in Token : t[2] \in 0..MaxNow
  /\ \A p \in Paths, n \in 0..MaxNow : <<p, n>> \in Token
  /\ Ttls \subseteq Nat /\ 0 \notin Ttls /\ MaxNow \in Nat /\ MaxLinkOps \in Nat
BY StateAssumption DEF Token

LEMMA LinksInvInit == Init => LinksInv
<1> SUFFICES ASSUME Init PROVE LinksInv
  OBVIOUS
<1>1. LinkType
  BY TokenFacts DEF Init, LinkType
<1>2. ReadWasAsked
  BY DEF Init, ReadWasAsked
<1>3. LinkLives /\ RevokedIsDead
  BY DEF Init, LinkLives, RevokedIsDead
<1> QED BY <1>1, <1>2, <1>3 DEF LinksInv

LEMMA LinksCreate ==
  ASSUME LinksInv, NEW c \in Sharers, CreateLink(c)
  PROVE  LinksInv'
<1>1. LinkType /\ ReadWasAsked /\ LinkLives /\ RevokedIsDead
  BY DEF LinksInv
<1>2. PICK p \in Paths, l \in Ttls :
         LET t == <<p, now>> IN
          /\ active' = [active EXCEPT ![t] = l]
          /\ asked' = [asked EXCEPT ![t] = @ \cup {l}]
          /\ revoked' = revoked \ {t}
          /\ \/ table' = [table EXCEPT ![t] = l] /\ granted' = [granted EXCEPT ![t] = l]
             \/ UNCHANGED <<table, granted>>
  BY DEF CreateLink, Upsert
<1> DEFINE t == <<p, now>>
<1>3. /\ linkOps \in Nat /\ linkOps < MaxLinkOps /\ linkOps' = linkOps + 1
      /\ UNCHANGED <<now, lpc, seen>>
  BY <1>1 DEF CreateLink, BeginLinkOp, LinkType
<1>4. t \in Token /\ l # 0 /\ l \in Ttls
  BY <1>1, TokenFacts DEF LinkType
<1> HIDE DEF t
<1>5. /\ active' = [active EXCEPT ![t] = l]
      /\ asked' = [asked EXCEPT ![t] = @ \cup {l}]
      /\ revoked' = revoked \ {t}
      /\ \/ table' = [table EXCEPT ![t] = l] /\ granted' = [granted EXCEPT ![t] = l]
         \/ UNCHANGED <<table, granted>>
  BY <1>2 DEF t
<1>6. LinkType'
  BY <1>1, <1>3, <1>4, <1>5, TokenFacts DEF LinkType
<1>7. ReadWasAsked'
  BY <1>1, <1>3, <1>4, <1>5 DEF ReadWasAsked, LinkType, Expired
<1>8. LinkLives'
  <2> SUFFICES ASSUME NEW u \in Token, granted'[u] # 0, asked'[u] = {granted'[u]},
                      ~Expired(u, granted[u])'
               PROVE  active'[u] = granted'[u] /\ table'[u] = granted'[u]
    BY DEF LinkLives
  <2>1. CASE u # t
    BY <1>1, <1>3, <1>4, <1>5, <2>1 DEF LinkLives, LinkType, Expired
  <2>2. CASE u = t
    <3>1. l \in asked'[t] /\ active'[t] = l
      BY <1>1, <1>4, <1>5 DEF LinkType
    <3>2. granted'[t] = l
      BY <2>2, <3>1
    <3>3. CASE table' = [table EXCEPT ![t] = l]
      BY <1>1, <1>4, <2>2, <3>1, <3>2, <3>3 DEF LinkType
    <3>4. CASE UNCHANGED <<table, granted>>
      <4>1. granted[t] = l /\ ~Expired(t, l)
        BY <1>3, <2>2, <3>2, <3>4 DEF Expired
      <4>2. asked[t] \subseteq {l}
        BY <1>1, <1>4, <1>5, <2>2, <3>2 DEF LinkType
      <4>3. asked[t] = {l}
        BY <1>1, <1>4, <4>1, <4>2 DEF ReadWasAsked
      <4> QED BY <1>1, <1>4, <2>2, <3>1, <3>2, <3>4, <4>1, <4>3 DEF LinkLives
    <3> QED BY <1>5, <3>3, <3>4
  <2> QED BY <2>1, <2>2
<1>9. RevokedIsDead'
  BY <1>1, <1>4, <1>5 DEF RevokedIsDead, LinkType
<1> QED BY <1>6, <1>7, <1>8, <1>9 DEF LinksInv

LEMMA LinksRevoke ==
  ASSUME LinksInv, NEW c \in Sharers, RevokeLink(c)
  PROVE  LinksInv'
<1>1. LinkType /\ ReadWasAsked /\ LinkLives /\ RevokedIsDead
  BY DEF LinksInv
<1>2. PICK t \in Token :
          /\ active[t] # 0 /\ active' = [active EXCEPT ![t] = 0]
          /\ granted' = [granted EXCEPT ![t] = 0]
          /\ \/ table' = [table EXCEPT ![t] = 0] /\ revoked' = revoked \cup {t}
             \/ UNCHANGED <<table, revoked>>
  BY DEF RevokeLink, Delete
<1>3. /\ linkOps \in Nat /\ linkOps < MaxLinkOps /\ linkOps' = linkOps + 1
      /\ UNCHANGED <<now, lpc, seen, asked>>
  BY <1>1 DEF RevokeLink, BeginLinkOp, LinkType
<1>4. LinkType'
  BY <1>1, <1>2, <1>3, TokenFacts DEF LinkType
<1>5. ReadWasAsked'
  BY <1>1, <1>2, <1>3 DEF ReadWasAsked, LinkType, Expired
<1>6. LinkLives'
  BY <1>1, <1>2, <1>3 DEF LinkLives, LinkType, Expired
<1>7. RevokedIsDead'
  BY <1>1, <1>2, <1>3 DEF RevokedIsDead, LinkType
<1> QED BY <1>4, <1>5, <1>6, <1>7 DEF LinksInv

\* Readers: they look up, check the age and drop what has expired.
LEMMA LinksRead ==
  ASSUME LinksInv, NEW a \in Visitors \cup Listers, LookUp(a) \/ Snapshot(a) \/ CheckAge(a)
  PROVE  LinksInv'
<1>1. LinkType /\ ReadWasAsked /\ LinkLives /\ RevokedIsDead
  BY DEF LinksInv
<1>2. UNCHANGED <<now, linkOps, granted, revoked, asked, active, table>>
  BY DEF LookUp, Snapshot, CheckAge, LinkStep
<1>3. PICK q \in SUBSET (Token \X Ttls) :
         /\ seen' = [seen EXCEPT ![a] = q]
         /\ \A p \in q : p[2] \in asked[p[1]]
         /\ \E l \in {"idle", "check", "drop"} :
               /\ lpc' = [lpc EXCEPT ![a] = l]
               /\ l = "drop" => \A p \in q : Expired(p[1], p[2])
  <2>1. CASE LookUp(a)
    <3>1. PICK t \in Token : active[t] # 0 /\ seen' = [seen EXCEPT ![a] = {<<t, active[t]>>}]
      BY <2>1 DEF LookUp
    <3>2. active[t] \in Ttls /\ active[t] \in asked[t]
      BY <1>1, <3>1 DEF LinkType, ReadWasAsked
    <3>3. {<<t, active[t]>>} \in SUBSET (Token \X Ttls)
      BY <3>2
    <3>4. lpc' = [lpc EXCEPT ![a] = "check"]
      BY <2>1 DEF LookUp
    <3>5. \A p \in {<<t, active[t]>>} : p[2] \in asked[p[1]]
      BY <3>2
    <3> QED BY <3>1, <3>3, <3>4, <3>5
  <2>2. CASE Snapshot(a)
    <3> DEFINE q == {p \in Token \X Ttls : active[p[1]] = p[2]}
    <3>1. seen' = [seen EXCEPT ![a] = q] /\ lpc' = [lpc EXCEPT ![a] = "check"]
      BY <2>2 DEF Snapshot
    <3>2. \A p \in q : p[1] \in Token /\ p[2] # 0 /\ active[p[1]] = p[2]
      BY TokenFacts
    <3>3. \A p \in q : p[2] \in asked[p[1]]
      BY <1>1, <3>2 DEF ReadWasAsked
    <3> QED BY <3>1, <3>3
  <2>3. CASE CheckAge(a)
    <3> DEFINE q == {p \in seen[a] : Expired(p[1], p[2])}
    <3>1. seen' = [seen EXCEPT ![a] = q]
      BY <2>3 DEF CheckAge
    <3>2. \E l \in {"idle", "drop"} : lpc' = [lpc EXCEPT ![a] = l]
      BY <2>3 DEF CheckAge
    <3>3. q \in SUBSET (Token \X Ttls) /\ \A p \in q : p[2] \in asked[p[1]]
      BY <1>1 DEF LinkType, ReadWasAsked
    <3>4. \A p \in q : Expired(p[1], p[2])
      OBVIOUS
    <3> HIDE DEF q
    <3> QED BY <3>1, <3>2, <3>3, <3>4
  <2> QED BY <2>1, <2>2, <2>3
<1>4. LinkType'
  BY <1>1, <1>2, <1>3 DEF LinkType
<1>5. ReadWasAsked'
  BY <1>1, <1>2, <1>3 DEF ReadWasAsked, LinkType, Expired
<1>6. LinkLives' /\ RevokedIsDead'
  BY <1>1, <1>2 DEF LinkLives, RevokedIsDead, Expired
<1> QED BY <1>4, <1>5, <1>6 DEF LinksInv

LEMMA LinksDrop ==
  ASSUME LinksInv, NEW a \in Visitors \cup Listers, DropExpired(a)
  PROVE  LinksInv'
<1>1. LinkType /\ ReadWasAsked /\ LinkLives /\ RevokedIsDead
  BY DEF LinksInv
<1>2. /\ UNCHANGED <<now, linkOps, granted, revoked, asked, seen>>
      /\ lpc[a] = "drop" /\ lpc' = [lpc EXCEPT ![a] = "idle"]
  BY DEF DropExpired, LinkStep
<1> DEFINE gone == {p[1] : p \in seen[a]}
<1>3. PICK g \in SUBSET gone, h \in SUBSET gone : active' = Without(active, g) /\ table' = Without(table, h)
  <2>1. CASE active' = Without(active, gone) /\ table' = Without(table, gone)
    BY <2>1
  <2>2. CASE \E t \in gone : \E before \in SUBSET (gone \ {t}) :
                active' = Without(active, before \cup {t}) /\ table' = Without(table, before)
    <3>1. PICK t \in gone : \E before \in SUBSET (gone \ {t}) :
                active' = Without(active, before \cup {t}) /\ table' = Without(table, before)
      BY <2>2
    <3>2. PICK before \in SUBSET (gone \ {t}) :
                active' = Without(active, before \cup {t}) /\ table' = Without(table, before)
      BY <3>1
    <3>3. before \cup {t} \in SUBSET gone /\ before \in SUBSET gone
      OBVIOUS
    <3> QED BY <3>2, <3>3
  <2> QED BY <2>1, <2>2 DEF DropExpired
<1>4. \A t \in Token : /\ active'[t] = active[t] \/ (active'[t] = 0 /\ t \in gone)
                       /\ table'[t] = table[t] \/ (table'[t] = 0 /\ t \in gone)
  BY <1>3 DEF Without
<1>5. \A t \in gone : \E l \in asked[t] : Expired(t, l)
  BY <1>1, <1>2 DEF ReadWasAsked
<1> HIDE DEF gone
<1>6. LinkType'
  BY <1>1, <1>2, <1>3 DEF LinkType, Without
<1>7. ReadWasAsked'
  BY <1>1, <1>2, <1>4 DEF ReadWasAsked, LinkType, Expired
<1>8. LinkLives'
  <2> SUFFICES ASSUME NEW u \in Token, granted'[u] # 0, asked'[u] = {granted'[u]},
                      ~Expired(u, granted[u])'
               PROVE  active'[u] = granted'[u] /\ table'[u] = granted'[u]
    BY DEF LinkLives
  <2>1. asked[u] = {granted[u]} /\ ~Expired(u, granted[u]) /\ granted[u] # 0
    BY <1>2 DEF Expired
  <2>2. u \notin gone
    BY <1>5, <2>1
  <2> QED BY <1>1, <1>2, <1>4, <2>1, <2>2 DEF LinkLives
<1>9. RevokedIsDead'
  BY <1>1, <1>2, <1>4 DEF RevokedIsDead, LinkType
<1> QED BY <1>6, <1>7, <1>8, <1>9 DEF LinksInv

LEMMA LinksOther ==
  ASSUME LinksInv,
         Tick \/ Restart \/ UNCHANGED <<now, linkOps, active, table, granted, revoked, asked, lpc, seen>>
  PROVE  LinksInv'
<1>1. LinkType /\ ReadWasAsked /\ LinkLives /\ RevokedIsDead
  BY DEF LinksInv
<1>2. CASE Tick
  <2>1. /\ UNCHANGED <<linkOps, active, table, granted, revoked, asked, lpc, seen>>
        /\ now \in Nat /\ now' = now + 1 /\ now' \in 0..MaxNow
    BY <1>1, <1>2, TokenFacts DEF Tick, LinkType
  <2>2. \A t \in Token, l \in Ttls : Expired(t, l) => Expired(t, l)'
    BY <2>1, TokenFacts DEF Expired
  <2>3. LinkType'
    BY <1>1, <2>1 DEF LinkType
  <2>4. ReadWasAsked'
    <3>1. \A b \in Visitors \cup Listers : \A p \in seen[b] : p[1] \in Token /\ p[2] \in Ttls
      BY <1>1 DEF LinkType
    <3>2. \A b \in Visitors \cup Listers : \A p \in seen[b] : Expired(p[1], p[2]) => Expired(p[1], p[2])'
      BY <2>2, <3>1
    <3> QED BY <1>1, <2>1, <3>2 DEF ReadWasAsked
  <2>5. LinkLives'
    <3>1. \A t \in Token : granted[t] # 0 => (Expired(t, granted[t]) => Expired(t, granted[t])')
      BY <1>1, <2>1, <2>2 DEF LinkType, Expired
    <3> QED BY <1>1, <2>1, <3>1 DEF LinkLives
  <2>6. RevokedIsDead'
    BY <1>1, <2>1 DEF RevokedIsDead
  <2> QED BY <2>3, <2>4, <2>5, <2>6 DEF LinksInv
<1>3. CASE Restart
  <2>1. /\ UNCHANGED <<now, linkOps, table, granted, revoked, asked, seen>>
        /\ active' = table /\ lpc' = [a \in Visitors \cup Listers |-> "idle"]
    BY <1>3 DEF Restart
  <2>2. LinkType' /\ ReadWasAsked'
    BY <1>1, <2>1 DEF LinkType, ReadWasAsked, Expired
  <2>3. LinkLives' /\ RevokedIsDead'
    BY <1>1, <2>1 DEF LinkLives, RevokedIsDead, Expired
  <2> QED BY <2>2, <2>3 DEF LinksInv
<1>4. CASE UNCHANGED <<now, linkOps, active, table, granted, revoked, asked, lpc, seen>>
  BY <1>1, <1>4 DEF LinksInv, LinkType, ReadWasAsked, LinkLives, RevokedIsDead, Expired
<1> QED BY <1>2, <1>3, <1>4

(***************************************************************************)
(* File requests.                                                           *)
(***************************************************************************)
CallPlaces == {"idle", "upload", "get", "fulfil", "dismiss", "insert", "title", "push", "toast", "end", "error"}
Over == {"push", "toast", "end", "error"}   \* the store was written, or the call ended

RequestType ==
    /\ req \in [Rids -> Row \cup {NoRow}] /\ files \in SUBSET FileNames
    /\ pc \in [Callers -> CallPlaces]
    /\ rid \in [Callers -> Rids \cup {NoRow}] /\ name \in [Callers -> FileNames \cup {NoRow}]

\* A call before its write has its file; one that read its request has a row,
\* which stays.
CallHasRow ==
    \A c \in Callers :
        /\ pc[c] \in {"upload", "get", "fulfil"} => rid[c] \in Rids /\ name[c] \in FileNames
        /\ pc[c] \in {"fulfil", "dismiss"} => rid[c] \in Rids /\ req[rid[c]] # NoRow

RequestsInv == RequestType /\ CallHasRow

LEMMA CallerKinds ==
  /\ Askers \subseteq Callers /\ Fulfillers \subseteq Callers /\ Dismissers \subseteq Callers
  /\ Writers \subseteq Callers /\ Titlers \subseteq Callers /\ Erasers \subseteq Callers
  /\ Callers \subseteq Actors /\ Sockets \subseteq Actors
BY StateAssumption DEF Actors

LEMMA RequestsInvInit == Init => RequestsInv
BY DEF Init, RequestsInv, RequestType, CallHasRow, CallPlaces

\* A step that leaves the requests alone and moves one caller.
LEMMA RequestsMove ==
  ASSUME RequestsInv, NEW c \in Callers, NEW l \in CallPlaces, pc' = [pc EXCEPT ![c] = l],
         UNCHANGED <<req, files, rid, name>>,
         l \in Over \/ pc[c] = "idle", l \notin {"upload", "get", "fulfil", "dismiss"}
  PROVE  RequestsInv'
<1>1. RequestType'
  BY DEF RequestsInv, RequestType
<1>2. CallHasRow'
  BY DEF RequestsInv, RequestType, CallHasRow, Over
<1> QED BY <1>1, <1>2 DEF RequestsInv

LEMMA RequestsAsk ==
  ASSUME RequestsInv, NEW c \in Askers, Ask(c)
  PROVE  RequestsInv'
<1>1. RequestType /\ CallHasRow /\ c \in Callers /\ CallerDevice[c] \in Devices
  BY CallerKinds, StateAssumption DEF RequestsInv
<1> DEFINE new == [status |-> "pending", device |-> CallerDevice[c], by |-> NoRow, file |-> NoRow]
<1>2. PICK r \in Rids : req[r] = NoRow /\ req' = [req EXCEPT ![r] = new]
  BY DEF Ask, InsertRequest
<1>3. new \in Row /\ new # NoRow
  BY <1>1, StateAssumption DEF Row
<1>4. pc' = [pc EXCEPT ![c] = "push"] /\ pc[c] = "idle" /\ UNCHANGED <<files, rid, name>>
  BY DEF Ask, Goto
<1>5. \A q \in Rids : req[q] # NoRow => req'[q] = req[q]
  BY <1>1, <1>2 DEF RequestType
<1>6. RequestType'
  BY <1>1, <1>2, <1>3, <1>4 DEF RequestType, CallPlaces
<1>7. CallHasRow'
  BY <1>1, <1>4, <1>5 DEF RequestType, CallHasRow, Over
<1> QED BY <1>6, <1>7 DEF RequestsInv

LEMMA RequestsUpload ==
  ASSUME RequestsInv, NEW c \in Fulfillers, CheckName(c) \/ Upload(c)
  PROVE  RequestsInv'
<1>1. RequestType /\ CallHasRow /\ c \in Callers
  BY CallerKinds DEF RequestsInv
<1>2. CASE CheckName(c)
  <2>1. PICK r \in Rids, n \in FileNames :
            /\ rid' = [rid EXCEPT ![c] = r] /\ name' = [name EXCEPT ![c] = n]
            /\ pc' = [pc EXCEPT ![c] = IF n \in files THEN "end" ELSE "upload"]
    BY <1>2 DEF CheckName, Goto
  <2>2. pc[c] = "idle" /\ UNCHANGED <<req, files>>
    BY <1>2 DEF CheckName
  <2>3. RequestType'
    BY <1>1, <2>1, <2>2 DEF RequestType, CallPlaces
  <2>4. CallHasRow'
    BY <1>1, <2>1, <2>2 DEF RequestType, CallHasRow
  <2> QED BY <2>3, <2>4 DEF RequestsInv
<1>3. CASE Upload(c)
  <2>1. PICK l \in {"get", "error"} : pc' = [pc EXCEPT ![c] = l]
    BY <1>3 DEF Upload, Goto
  <2>2. pc[c] = "upload" /\ files' = files \cup {name[c]} /\ UNCHANGED <<req, rid, name>>
    BY <1>3 DEF Upload
  <2>3. RequestType'
    BY <1>1, <2>1, <2>2 DEF RequestType, CallHasRow, CallPlaces
  <2>4. CallHasRow'
    BY <1>1, <2>1, <2>2 DEF RequestType, CallHasRow
  <2> QED BY <2>3, <2>4 DEF RequestsInv
<1> QED BY <1>2, <1>3

LEMMA RequestsGet ==
  ASSUME RequestsInv, NEW c \in Callers, GetPending(c) \/ (c \in Dismissers /\ GetOwn(c))
  PROVE  RequestsInv'
<1>1. RequestType /\ CallHasRow
  BY DEF RequestsInv
<1>2. CASE GetPending(c)
  <2>1. /\ pc[c] = "get" /\ UNCHANGED <<req, files, rid, name>>
        /\ pc' = [pc EXCEPT ![c] = IF Refused(rid[c]) THEN "end" ELSE "fulfil"]
    BY <1>2 DEF GetPending, Goto, requests
  <2>2. RequestType'
    BY <1>1, <2>1 DEF RequestType, CallPlaces
  <2>3. CallHasRow'
    BY <1>1, <2>1 DEF RequestType, CallHasRow, Over, Refused
  <2> QED BY <2>2, <2>3 DEF RequestsInv
<1>3. CASE GetOwn(c)
  <2>1. PICK r \in Rids :
          /\ rid' = [rid EXCEPT ![c] = r]
          /\ pc' = [pc EXCEPT ![c] = IF req[r] # NoRow /\ req[r].device = CallerDevice[c] THEN "dismiss" ELSE "end"]
    BY <1>3 DEF GetOwn, Goto
  <2>2. pc[c] = "idle" /\ UNCHANGED <<req, files, name>>
    BY <1>3 DEF GetOwn
  <2>4. RequestType'
    BY <1>1, <2>1, <2>2 DEF RequestType, CallPlaces
  <2>5. CallHasRow'
    BY <1>1, <2>1, <2>2 DEF RequestType, CallHasRow, Over
  <2> QED BY <2>4, <2>5 DEF RequestsInv
<1> QED BY <1>2, <1>3

LEMMA RequestsFulfil ==
  ASSUME RequestsInv, NEW c \in Fulfillers, FulfilRequest(c)
  PROVE  RequestsInv'
<1>1. RequestType /\ CallHasRow /\ c \in Callers
  BY CallerKinds DEF RequestsInv
<1> DEFINE r == rid[c]
           new == [req[r] EXCEPT !.status = "fulfilled", !.by = c, !.file = name[c]]
<1>2. /\ pc[c] = "fulfil" /\ pc' = [pc EXCEPT ![c] = "push"]
      /\ UNCHANGED <<files, rid, name>>
      /\ req' = [req EXCEPT ![r].status = "fulfilled", ![r].by = c, ![r].file = name[c]]
  BY DEF FulfilRequest, Goto, UpdateRequest
<1>3. r \in Rids /\ req[r] # NoRow /\ name[c] \in FileNames /\ req[r] \in Row
  BY <1>1, <1>2 DEF CallHasRow, RequestType
<1>4. /\ new \in Row /\ new # NoRow
      /\ new.status = "fulfilled" /\ new.by = c /\ new.file = name[c]
  BY <1>1, <1>3, StateAssumption DEF Row, RequestType
<1>5. req' = [req EXCEPT ![r] = new]
  BY <1>1, <1>2, <1>3 DEF RequestType, Row
<1> HIDE DEF new, r
<1>6. RequestType'
  <2>1. req' \in [Rids -> Row \cup {NoRow}]
    BY <1>1, <1>3, <1>4, <1>5 DEF RequestType
  <2>2. pc' \in [Callers -> CallPlaces]
    BY <1>1, <1>2 DEF RequestType, CallPlaces
  <2> QED BY <1>1, <1>2, <2>1, <2>2 DEF RequestType
<1>7. CallHasRow'
  BY <1>1, <1>2, <1>3, <1>4, <1>5 DEF RequestType, CallHasRow, Over, r
<1> QED BY <1>6, <1>7 DEF RequestsInv

LEMMA RequestsDismiss ==
  ASSUME RequestsInv, NEW c \in Dismissers, DismissRequest(c)
  PROVE  RequestsInv'
<1>1. RequestType /\ CallHasRow /\ c \in Callers
  BY CallerKinds DEF RequestsInv
<1> DEFINE r == rid[c]
           new == [req[r] EXCEPT !.status = "dismissed"]
<1>2. /\ pc[c] = "dismiss" /\ pc' = [pc EXCEPT ![c] = "push"]
      /\ UNCHANGED <<files, rid, name>>
      /\ req' = [req EXCEPT ![r].status = "dismissed"]
  BY DEF DismissRequest, Goto, Dismiss
<1>3. r \in Rids /\ req[r] # NoRow /\ req[r] \in Row
  BY <1>1, <1>2 DEF CallHasRow, RequestType
<1>4. new \in Row /\ new # NoRow /\ new.status = "dismissed"
  BY <1>1, <1>3, StateAssumption DEF Row
<1>5. req' = [req EXCEPT ![r] = new]
  BY <1>1, <1>2, <1>3 DEF RequestType, Row
<1> HIDE DEF new, r
<1>6. RequestType'
  BY <1>1, <1>2, <1>3, <1>4, <1>5 DEF RequestType, CallPlaces
<1>7. CallHasRow'
  BY <1>1, <1>2, <1>3, <1>4, <1>5 DEF RequestType, CallHasRow, Over, r
<1> QED BY <1>6, <1>7 DEF RequestsInv

LEMMA RequestsRestart ==
  ASSUME RequestsInv,
         UNCHANGED <<req, files, rid, name>>,
         \/ pc' = [c \in Callers |-> IF pc[c] = "idle" THEN "idle" ELSE "end"]
         \/ UNCHANGED pc
  PROVE  RequestsInv'
<1>1. RequestType'
  BY DEF RequestsInv, RequestType, CallPlaces
<1>2. CallHasRow'
  BY DEF RequestsInv, RequestType, CallHasRow, Over
<1> QED BY <1>1, <1>2 DEF RequestsInv

(***************************************************************************)
(* Clipboard snippets: no update is lost.                                   *)
(***************************************************************************)
ClipType ==
    /\ snip \in [Sids -> Snippet \cup {NoRow}] /\ last \in [Sids -> Snippet \cup {NoRow}]
    /\ lock \in Clients \cup {NoOne}
    /\ sid \in [Clients -> Sids \cup {NoRow}] /\ row \in [Clients -> Snippet \cup {NoRow}]
    /\ text \in [Clients -> Titles \cup Contents \cup {NoRow}]

\* Between the SELECT and the UPDATE of a call the call holds the lock, and the
\* row it read is the row in the table.
HolderIsCurrent ==
    /\ \A c \in Clients : lock = c =>
          sid[c] \in Sids /\ snip[sid[c]] # NoRow /\ row[c] = snip[sid[c]]
    /\ \A c \in Callers : pc[c] = "title" => c \in Titlers /\ lock = c /\ text[c] \in Titles
    /\ \A s \in Sockets : hpc[s] = "update" => lock = s /\ text[s] \in Contents

ClipInv == ClipType /\ HolderIsCurrent /\ NoLostUpdate

LEMMA ClientKinds ==
  /\ Writers \subseteq Clients /\ Titlers \subseteq Clients /\ Erasers \subseteq Clients
  /\ Sockets \subseteq Clients /\ NoOne \notin Clients /\ NoRow \notin Snippet
BY StateAssumption DEF Clients, NoOne

LEMMA ClipInvInit == Init => ClipInv
<1> SUFFICES ASSUME Init PROVE ClipInv
  OBVIOUS
<1>1. snip \in [Sids -> Snippet \cup {NoRow}]
  BY StateAssumption DEF Init
<1>2. ClipType
  BY <1>1 DEF Init, ClipType
<1>3. HolderIsCurrent
  BY ClientKinds DEF Init, HolderIsCurrent, HubInit
<1>4. NoLostUpdate
  BY DEF Init, NoLostUpdate
<1> QED BY <1>2, <1>3, <1>4 DEF ClipInv

\* A step that leaves the clipboard alone.
LEMMA ClipKept ==
  ASSUME ClipInv, UNCHANGED <<snip, lock, sid, text, row, last>>,
         \A c \in Callers : pc'[c] = "title" => pc[c] = "title",
         \A s \in Sockets : hpc'[s] = "update" => hpc[s] = "update"
  PROVE  ClipInv'
BY DEF ClipInv, ClipType, HolderIsCurrent, NoLostUpdate

LEMMA ClipRestart ==
  ASSUME ClipInv, Restart
  PROVE  ClipInv'
<1>1. /\ lock' = NoOne /\ UNCHANGED <<snip, sid, text, row, last>>
      /\ \A c \in Callers : pc'[c] # "title"
      /\ \A s \in Sockets : hpc'[s] # "update"
  BY DEF Restart, HubRestart
<1> QED BY <1>1, ClientKinds DEF ClipInv, ClipType, HolderIsCurrent, NoLostUpdate

LEMMA ClipInsert ==
  ASSUME ClipInv, NEW c \in Writers, Insert(c), pc \in [Callers -> CallPlaces]
  PROVE  ClipInv'
<1>1. ClipType /\ HolderIsCurrent /\ NoLostUpdate /\ c \in Callers
  BY CallerKinds DEF ClipInv
<1>2. PICK i \in Sids, t \in Titles :
         /\ snip' = [snip EXCEPT ![i] = [title |-> t, content |-> Blank]]
         /\ last' = [last EXCEPT ![i] = [title |-> t, content |-> Blank]]
  BY DEF Insert, InsertSnippet
<1>3. /\ lock = NoOne /\ UNCHANGED <<lock, sid, text, row, hpc>> /\ pc' = [pc EXCEPT ![c] = "push"]
  BY DEF Insert, NoText, Free, Goto
<1>4. [title |-> t, content |-> Blank] \in Snippet
  BY DEF Snippet
<1>5. ClipType'
  BY <1>1, <1>2, <1>3, <1>4 DEF ClipType
<1>6. HolderIsCurrent'
  BY <1>1, <1>3, ClientKinds DEF HolderIsCurrent
<1>7. NoLostUpdate'
  BY <1>1, <1>2 DEF NoLostUpdate, ClipType
<1> QED BY <1>5, <1>6, <1>7 DEF ClipInv

LEMMA ClipDelete ==
  ASSUME ClipInv, NEW c \in Erasers, DeleteSnippet(c), pc \in [Callers -> CallPlaces]
  PROVE  ClipInv'
<1>1. ClipType /\ HolderIsCurrent /\ NoLostUpdate /\ c \in Callers
  BY CallerKinds DEF ClipInv
<1>2. PICK i \in Sids : snip' = [snip EXCEPT ![i] = NoRow]
  BY DEF DeleteSnippet, DeleteRow
<1>3. /\ lock = NoOne /\ UNCHANGED <<lock, sid, text, row, last, hpc>> /\ pc' = [pc EXCEPT ![c] = "push"]
  BY DEF DeleteSnippet, NoText, Free, Goto
<1>4. ClipType'
  BY <1>1, <1>2, <1>3 DEF ClipType
<1>5. HolderIsCurrent'
  BY <1>1, <1>3, ClientKinds DEF HolderIsCurrent
<1>6. NoLostUpdate'
  BY <1>1, <1>2, <1>3 DEF NoLostUpdate, ClipType
<1> QED BY <1>4, <1>5, <1>6 DEF ClipInv

\* A SELECT that finds its row takes the lock.
LEMMA ClipRead ==
  ASSUME ClipInv, NEW c \in Clients, NEW i \in Sids, NEW t \in Titles \cup Contents,
         Read(c, i, t), snip[i] # NoRow,
         \A d \in Callers : pc'[d] = "title" =>
            pc[d] = "title" \/ (d = c /\ c \in Titlers /\ t \in Titles),
         \A s \in Sockets : hpc'[s] = "update" =>
            hpc[s] = "update" \/ (s = c /\ t \in Contents)
  PROVE  ClipInv'
<1>1. ClipType /\ HolderIsCurrent /\ NoLostUpdate
  BY DEF ClipInv
<1>2. /\ lock = NoOne /\ lock' = c /\ UNCHANGED <<snip, last>>
      /\ sid' = [sid EXCEPT ![c] = i] /\ text' = [text EXCEPT ![c] = t]
      /\ row' = [row EXCEPT ![c] = snip[i]]
  BY DEF Read, Free
<1>3. ClipType'
  BY <1>1, <1>2 DEF ClipType
<1>4. HolderIsCurrent'
  <2>1. \A d \in Callers : pc[d] # "title"
    BY <1>1, <1>2, ClientKinds DEF HolderIsCurrent
  <2>2. \A s \in Sockets : hpc[s] # "update"
    BY <1>1, <1>2, ClientKinds DEF HolderIsCurrent
  <2>3. sid'[c] = i /\ text'[c] = t /\ row'[c] = snip'[i] /\ snip'[i] # NoRow
    BY <1>1, <1>2 DEF ClipType
  <2> QED BY <1>2, <2>1, <2>2, <2>3 DEF HolderIsCurrent
<1>5. NoLostUpdate'
  BY <1>1, <1>2 DEF NoLostUpdate
<1> QED BY <1>3, <1>4, <1>5 DEF ClipInv

\* The UPDATE under the same lock writes over the row that was read.
LEMMA ClipWrite ==
  ASSUME ClipInv, NEW c \in Clients, lock = c, NEW new \in Snippet, Write(c, new),
         last' = [last EXCEPT ![sid[c]] = new],
         \A d \in Callers : pc'[d] = "title" => pc[d] = "title" /\ d # c,
         \A s \in Sockets : hpc'[s] = "update" => hpc[s] = "update" /\ s # c
  PROVE  ClipInv'
<1>1. ClipType /\ HolderIsCurrent /\ NoLostUpdate
  BY DEF ClipInv
<1>2. /\ lock' = NoOne /\ UNCHANGED <<sid, text, row>> /\ sid[c] \in Sids /\ snip[sid[c]] # NoRow
      /\ snip' = [snip EXCEPT ![sid[c]] = new]
  BY <1>1 DEF Write, NoText, HolderIsCurrent, ClipType
<1>3. ClipType'
  BY <1>1, <1>2 DEF ClipType
<1>4. HolderIsCurrent'
  BY <1>1, <1>2, ClientKinds DEF HolderIsCurrent
<1>5. NoLostUpdate'
  BY <1>1, <1>2 DEF NoLostUpdate, ClipType
<1> QED BY <1>3, <1>4, <1>5 DEF ClipInv

LEMMA ClipTitle ==
  ASSUME ClipInv, NEW c \in Titlers, ReadForTitle(c) \/ WriteTitle(c), pc \in [Callers -> CallPlaces]
  PROVE  ClipInv'
<1>1. ClipType /\ HolderIsCurrent /\ NoLostUpdate /\ c \in Callers /\ c \in Clients
  BY CallerKinds, ClientKinds DEF ClipInv
<1>2. CASE ReadForTitle(c)
  <2>1. PICK i \in Sids, t \in Titles :
           /\ Read(c, i, t) /\ UNCHANGED hpc
           /\ pc' = [pc EXCEPT ![c] = IF snip[i] # NoRow THEN "title" ELSE "end"]
    BY <1>2 DEF ReadForTitle, Goto, hub
  <2>2. CASE snip[i] # NoRow
    BY <1>1, <2>1, <2>2, ClipRead
  <2>3. CASE snip[i] = NoRow
    <3>1. UNCHANGED <<snip, lock, sid, text, row, last>> /\ pc' = [pc EXCEPT ![c] = "end"]
      BY <2>1, <2>3 DEF Read
    <3> QED BY <2>1, <3>1, ClipKept
  <2> QED BY <2>2, <2>3
<1>3. CASE WriteTitle(c)
  <2> DEFINE new == [row[c] EXCEPT !.title = text[c]]
  <2>1. /\ pc[c] = "title" /\ pc' = [pc EXCEPT ![c] = "push"] /\ UNCHANGED hpc
        /\ Write(c, new) /\ last' = [last EXCEPT ![sid[c]].title = text[c]]
    BY <1>3 DEF WriteTitle, Goto
  <2>2. /\ lock = c /\ text[c] \in Titles /\ sid[c] \in Sids
        /\ row[c] = snip[sid[c]] /\ snip[sid[c]] \in Snippet /\ last[sid[c]] = row[c]
    BY <1>1, <2>1 DEF HolderIsCurrent, ClipType, NoLostUpdate
  <2>3. new \in Snippet
    BY <2>2 DEF Snippet
  <2>4. last' = [last EXCEPT ![sid[c]] = new]
    BY <1>1, <2>1, <2>2 DEF ClipType
  <2>5. \A s \in Sockets : s # c
    BY HubAssumption, <1>1
  <2> QED BY <1>1, <2>1, <2>2, <2>3, <2>4, <2>5, ClipWrite DEF HolderIsCurrent
<1> QED BY <1>2, <1>3

LEMMA ClipContent ==
  ASSUME ClipInv, HubInv, NEW s \in Sockets, ReadForContent(s) \/ WriteContent(s)
  PROVE  ClipInv'
<1>1. ClipType /\ HolderIsCurrent /\ NoLostUpdate /\ s \in Clients /\ hpc \in [Sockets -> HandlerPlaces]
  BY ClientKinds DEF ClipInv, HubInv, HubTypeOK
<1>2. CASE ReadForContent(s)
  <2>1. PICK i \in Sids, t \in Contents :
           /\ Read(s, i, t) /\ UNCHANGED pc
           /\ hpc' = [hpc EXCEPT ![s] = IF snip[i] # NoRow THEN "update" ELSE "loop"]
    BY <1>2 DEF ReadForContent, At
  <2>2. CASE snip[i] # NoRow
    BY <1>1, <2>1, <2>2, ClipRead
  <2>3. CASE snip[i] = NoRow
    <3>1. UNCHANGED <<snip, lock, sid, text, row, last>> /\ hpc' = [hpc EXCEPT ![s] = "loop"]
      BY <2>1, <2>3 DEF Read
    <3> QED BY <1>1, <2>1, <3>1, ClipKept
  <2> QED BY <2>2, <2>3
<1>3. CASE WriteContent(s)
  <2> DEFINE new == [row[s] EXCEPT !.content = text[s]]
  <2>1. /\ hpc[s] = "update" /\ hpc' = [hpc EXCEPT ![s] = "push"] /\ UNCHANGED pc
        /\ Write(s, new) /\ last' = [last EXCEPT ![sid[s]].content = text[s]]
    BY <1>3 DEF WriteContent, At
  <2>2. /\ lock = s /\ text[s] \in Contents /\ sid[s] \in Sids
        /\ row[s] = snip[sid[s]] /\ snip[sid[s]] \in Snippet /\ last[sid[s]] = row[s]
    BY <1>1, <2>1 DEF HolderIsCurrent, ClipType, NoLostUpdate
  <2>3. new \in Snippet
    BY <2>2 DEF Snippet
  <2>4. last' = [last EXCEPT ![sid[s]] = new]
    BY <1>1, <2>1, <2>2 DEF ClipType
  <2>5. \A d \in Callers : s # d
    BY HubAssumption
  <2> QED BY <1>1, <2>1, <2>2, <2>3, <2>4, <2>5, ClipWrite DEF HolderIsCurrent
<1> QED BY <1>2, <1>3

(***************************************************************************)
(* Clipboard snippets: how far overlapping calls may exceed the limit.      *)
(***************************************************************************)
Stored == {i \in Sids : snip[i] # NoRow}
Creators == Writers \cap start.who
Inserting == {c \in Creators : pc[c] = "insert"}   \* counted, not inserted
Begun == {c \in Creators : pc[c] # "idle"}

\* Every call that has counted found room for one snippet; what exceeds the
\* limit belongs to calls that have begun.
CapInv ==
    /\ \A c \in Callers : pc[c] = "insert" => c \in Creators
    /\ \/ Cardinality(Stored) + Cardinality(Inserting) <= MaxSnippets
       \/ Cardinality(Stored) + Cardinality(Inserting) < MaxSnippets + Cardinality(Begun)

LEMMA CapFinite ==
  /\ IsFiniteSet(Stored) /\ IsFiniteSet(Creators) /\ IsFiniteSet(Inserting) /\ IsFiniteSet(Begun)
  /\ Cardinality(Stored) \in Nat /\ Cardinality(Creators) \in Nat
  /\ Cardinality(Inserting) \in Nat /\ Cardinality(Begun) \in Nat
  /\ Cardinality(Inserting) <= Cardinality(Begun) /\ Cardinality(Begun) <= Cardinality(Creators)
  /\ MaxSnippets \in Nat
<1>1. Stored \in SUBSET Sids /\ Creators \in SUBSET Writers
  BY DEF Stored, Creators
<1>2. IsFiniteSet(Stored) /\ IsFiniteSet(Creators)
  BY <1>1, StateAssumption, FS_Subset
<1>3. Begun \in SUBSET Creators /\ Inserting \in SUBSET Begun
  BY DEF Inserting, Begun
<1>4. IsFiniteSet(Begun) /\ Cardinality(Begun) <= Cardinality(Creators)
  BY <1>2, <1>3, FS_Subset
<1>5. IsFiniteSet(Inserting) /\ Cardinality(Inserting) <= Cardinality(Begun)
  BY <1>3, <1>4, FS_Subset
<1> QED BY <1>2, <1>4, <1>5, FS_CardinalityType, StateAssumption

LEMMA CapFinitePrime ==
  /\ IsFiniteSet(Stored') /\ IsFiniteSet(Creators') /\ IsFiniteSet(Inserting') /\ IsFiniteSet(Begun')
  /\ Cardinality(Stored') \in Nat /\ Cardinality(Creators') \in Nat
  /\ Cardinality(Inserting') \in Nat /\ Cardinality(Begun') \in Nat
  /\ Cardinality(Inserting') <= Cardinality(Begun') /\ Cardinality(Begun') <= Cardinality(Creators')
<1>1. Stored' \in SUBSET Sids /\ Creators' \in SUBSET Writers
  BY DEF Stored, Creators
<1>2. IsFiniteSet(Stored') /\ IsFiniteSet(Creators')
  BY <1>1, StateAssumption, FS_Subset
<1>3. Begun' \in SUBSET Creators' /\ Inserting' \in SUBSET Begun'
  BY DEF Inserting, Begun
<1>4. IsFiniteSet(Begun') /\ Cardinality(Begun') <= Cardinality(Creators')
  BY <1>2, <1>3, FS_Subset
<1>5. IsFiniteSet(Inserting') /\ Cardinality(Inserting') <= Cardinality(Begun')
  BY <1>3, <1>4, FS_Subset
<1> QED BY <1>2, <1>4, <1>5, FS_CardinalityType

LEMMA CapInvInit == Init => CapInv
<1> SUFFICES ASSUME Init PROVE CapInv
  OBVIOUS
<1>1. Cardinality(Stored) <= MaxSnippets
  BY StateAssumption DEF Init, Stored
<1>2. Inserting = {} /\ \A c \in Callers : pc[c] # "insert"
  BY CallerKinds DEF Init, Inserting, Creators
<1>3. Cardinality(Inserting) = 0
  BY <1>2, FS_EmptySet
<1> QED BY <1>1, <1>2, <1>3, CapFinite DEF CapInv

\* A step that stores nothing and counts nothing.
LEMMA CapKept ==
  ASSUME CapInv, Stored' \subseteq Stored, UNCHANGED start,
         \A c \in Callers : pc'[c] = "insert" => pc[c] = "insert",
         \A c \in Callers : pc'[c] = "idle" => pc[c] = "idle"
  PROVE  CapInv'
<1>1. Creators' = Creators /\ Creators \subseteq Callers
  BY CallerKinds DEF Creators
<1>2. Inserting' \subseteq Inserting /\ Begun \subseteq Begun'
  BY <1>1 DEF Inserting, Begun
<1>3. /\ Cardinality(Stored') <= Cardinality(Stored)
      /\ Cardinality(Inserting') <= Cardinality(Inserting)
  BY <1>2, CapFinite, FS_Subset
<1>4. Cardinality(Begun) <= Cardinality(Begun')
  BY <1>2, CapFinitePrime, FS_Subset
<1>5. \A c \in Callers : pc'[c] = "insert" => c \in Creators'
  BY <1>1 DEF CapInv
<1> QED BY <1>3, <1>4, <1>5, CapFinite, CapFinitePrime DEF CapInv

LEMMA CapCount ==
  ASSUME CapInv, NEW c \in Writers, Count(c), pc \in [Callers -> CallPlaces]
  PROVE  CapInv'
<1>1. c \in Callers /\ c \in start.who /\ pc[c] = "idle" /\ UNCHANGED <<start, snip>>
  BY CallerKinds DEF Count, ClipStep, clipboard
<1>2. Stored' = Stored /\ Number = Cardinality(Stored)
  BY <1>1 DEF Stored, Number
<1>3. CASE Number >= MaxSnippets
  <2>1. pc' = [pc EXCEPT ![c] = "end"]
    BY <1>3 DEF Count, Goto
  <2> QED BY <1>1, <1>2, <2>1, CapKept
<1>4. CASE ~(Number >= MaxSnippets)
  <2>1. pc' = [pc EXCEPT ![c] = "insert"]
    BY <1>4 DEF Count, Goto
  <2>2. Cardinality(Stored') < MaxSnippets
    BY <1>2, <1>4, CapFinite
  <2>3. \A d \in Callers : pc'[d] = "insert" => d \in Creators'
    BY <1>1, <2>1 DEF CapInv, Creators
  <2> QED BY <2>2, <2>3, CapFinite, CapFinitePrime DEF CapInv
<1> QED BY <1>3, <1>4

LEMMA CapInsert ==
  ASSUME CapInv, NEW c \in Writers, Insert(c), pc \in [Callers -> CallPlaces], ClipType
  PROVE  CapInv'
<1>1. /\ c \in Callers /\ pc[c] = "insert" /\ UNCHANGED start /\ pc' = [pc EXCEPT ![c] = "push"]
      /\ c \in Creators /\ Creators' = Creators /\ Creators \subseteq Callers
  BY CallerKinds DEF Insert, ClipStep, Goto, CapInv, Creators
<1>2. PICK i \in Sids : Stored' \subseteq Stored \cup {i}
  <2>1. PICK i \in Sids, t \in Titles : snip' = [snip EXCEPT ![i] = [title |-> t, content |-> Blank]]
    BY DEF Insert, InsertSnippet
  <2>2. Stored' \subseteq Stored \cup {i}
    BY <2>1 DEF Stored, ClipType
  <2> QED BY <2>2
<1>3. Inserting' = Inserting \ {c} /\ c \in Inserting /\ Begun' = Begun
  BY <1>1 DEF Inserting, Begun
<1>4. Cardinality(Inserting') = Cardinality(Inserting) - 1
  BY <1>3, CapFinite, FS_RemoveElement
<1>5. Cardinality(Stored') <= Cardinality(Stored) + 1
  <2>1. /\ IsFiniteSet(Stored \cup {i})
        /\ Cardinality(Stored \cup {i}) = IF i \in Stored THEN Cardinality(Stored) ELSE Cardinality(Stored) + 1
    BY CapFinite, FS_AddElement
  <2>2. Cardinality(Stored') <= Cardinality(Stored \cup {i})
    BY <1>2, <2>1, FS_Subset
  <2> QED BY <2>1, <2>2, CapFinite, CapFinitePrime
<1>6. \A d \in Callers : pc'[d] = "insert" => d \in Creators'
  BY <1>1 DEF CapInv
<1> QED BY <1>3, <1>4, <1>5, <1>6, CapFinite, CapFinitePrime DEF CapInv

LEMMA CapGives == CapInv => SnippetCap
<1> SUFFICES ASSUME CapInv PROVE SnippetCap
  OBVIOUS
<1>1. Number = Cardinality(Stored) /\ Cardinality(Writers \cap start.who) = Cardinality(Creators)
  BY DEF Number, Stored, Creators
<1> QED BY <1>1, CapFinite DEF CapInv, SnippetCap

(***************************************************************************)
(* The whole server.                                                        *)
(***************************************************************************)
Inv ==
    /\ HubInv /\ LinksInv /\ RequestsInv /\ ClipInv /\ CapInv
    /\ restarts \in 0..MaxRestarts

LEMMA InvInit == Init => Inv
<1>1. Init => HubInv
  BY HubInvInit DEF Init
<1>2. Init => restarts \in 0..MaxRestarts
  BY StateAssumption DEF Init
<1> QED BY <1>1, <1>2, LinksInvInit, RequestsInvInit, ClipInvInit, CapInvInit DEF Inv

LEMMA HubKept ==
  ASSUME HubInv, UNCHANGED <<start, hub>>
  PROVE  HubInv'
BY DEF HubInv, HubTypeOK, NoGhost, NewestServed, hub

LEMMA LinksKept ==
  ASSUME LinksInv, UNCHANGED links
  PROVE  LinksInv'
BY LinksOther DEF links

LEMMA LinksStep ==
  ASSUME Inv, LinksNext
  PROVE  Inv'
<1>1. HubInv /\ LinksInv /\ RequestsInv /\ ClipInv /\ CapInv
  BY DEF Inv
<1>2. UNCHANGED <<start, hub, requests, clipboard, pc, restarts>>
  BY DEF LinksNext, CreateLink, RevokeLink, BeginLinkOp, LookUp, Snapshot, CheckAge, DropExpired, LinkStep, Tick
<1>3. LinksInv'
  BY <1>1, LinksCreate, LinksRevoke, LinksRead, LinksDrop, LinksOther DEF LinksNext
<1>4. HubInv'
  BY <1>1, <1>2, HubKept
<1>5. RequestsInv'
  BY <1>1, <1>2, RequestsRestart DEF requests
<1>6. ClipInv'
  BY <1>1, <1>2, ClipKept DEF clipboard, hub
<1>7. Stored' = Stored
  BY <1>2 DEF Stored, clipboard
<1>8. CapInv'
  BY <1>1, <1>2, <1>7, CapKept
<1> QED BY <1>2, <1>3, <1>4, <1>5, <1>6, <1>8 DEF Inv

\* A caller's step on the file requests, or the end of a broadcast: the links
\* and the clipboard stay.
LEMMA CallerFrame ==
  ASSUME Inv, NEW c \in Callers, NEW l \in CallPlaces, Goto(c, l), l \notin {"title", "insert", "idle"},
         UNCHANGED <<start, links, clipboard, restarts, hpc>>, HubInv', RequestsInv'
  PROVE  Inv'
<1>1. HubInv /\ LinksInv /\ RequestsInv /\ ClipInv /\ CapInv
  BY DEF Inv
<1>2. \A d \in Callers : pc'[d] = pc[d] \/ pc'[d] \notin {"title", "insert", "idle"}
  BY <1>1 DEF RequestsInv, RequestType, Goto
<1>3. LinksInv'
  BY <1>1, LinksKept
<1>4. ClipInv'
  BY <1>1, <1>2, ClipKept DEF clipboard
<1>5. Stored' = Stored
  BY DEF Stored, clipboard
<1>6. CapInv'
  BY <1>1, <1>2, <1>5, CapKept
<1> QED BY <1>3, <1>4, <1>6 DEF Inv

LEMMA RequestStepInv ==
  ASSUME Inv, NEW c \in Callers,
         \/ c \in Askers /\ Ask(c)
         \/ c \in Fulfillers /\ (CheckName(c) \/ Upload(c) \/ GetPending(c) \/ FulfilRequest(c))
         \/ c \in Dismissers /\ (GetOwn(c) \/ DismissRequest(c))
         \/ Pushed(c)
  PROVE  Inv'
<1>1. HubInv /\ LinksInv /\ RequestsInv /\ ClipInv /\ CapInv /\ c \in Actors
  BY CallerKinds DEF Inv
<1>2. CASE c \in Askers /\ Ask(c)
  <2>1. /\ Goto(c, "push") /\ Cast(c, conn, CallerDevice[c])
        /\ UNCHANGED <<start, links, clipboard, restarts, conn, newest, up, hpc>>
    BY <1>2 DEF Ask, RequestStep
  <2>2. HubInv' /\ RequestsInv'
    BY <1>1, <1>2, <2>1, HubCast, RequestsAsk
  <2> QED BY <2>1, <2>2, CallerFrame DEF CallPlaces
<1>3. CASE c \in Fulfillers /\ (CheckName(c) \/ Upload(c))
  <2>1. /\ \E l \in {"end", "upload", "get", "error"} : Goto(c, l)
        /\ UNCHANGED <<start, hub, links, clipboard, restarts>>
    BY <1>3 DEF CheckName, Upload, RequestStep
  <2>2. HubInv' /\ RequestsInv'
    BY <1>1, <1>3, <2>1, HubKept, RequestsUpload
  <2> QED BY <2>1, <2>2, CallerFrame DEF CallPlaces, hub
<1>4. CASE GetPending(c)
  <2>1. /\ Goto(c, "end") \/ Goto(c, "fulfil")
        /\ UNCHANGED <<start, hub, links, clipboard, restarts>>
    BY <1>4 DEF GetPending, RequestStep
  <2>2. HubInv' /\ RequestsInv'
    BY <1>1, <1>4, <2>1, HubKept, RequestsGet
  <2> QED BY <2>1, <2>2, CallerFrame DEF CallPlaces, hub
<1>5. CASE c \in Fulfillers /\ FulfilRequest(c)
  <2>1. /\ Goto(c, "push") /\ Cast(c, conn, NoSocket)
        /\ UNCHANGED <<start, links, clipboard, restarts, conn, newest, up, hpc>>
    BY <1>5 DEF FulfilRequest, RequestStep
  <2>2. HubInv' /\ RequestsInv'
    BY <1>1, <1>5, <2>1, HubCast, RequestsFulfil
  <2> QED BY <2>1, <2>2, CallerFrame DEF CallPlaces
<1>6. CASE c \in Dismissers /\ GetOwn(c)
  <2>1. /\ Goto(c, "end") \/ Goto(c, "dismiss")
        /\ UNCHANGED <<start, hub, links, clipboard, restarts>>
    BY <1>6 DEF GetOwn, RequestStep
  <2>2. HubInv' /\ RequestsInv'
    BY <1>1, <1>6, <2>1, HubKept, RequestsGet
  <2> QED BY <2>1, <2>2, CallerFrame DEF CallPlaces, hub
<1>7. CASE c \in Dismissers /\ DismissRequest(c)
  <2>1. /\ Goto(c, "push") /\ Cast(c, conn, NoSocket)
        /\ UNCHANGED <<start, links, clipboard, restarts, conn, newest, up, hpc>>
    BY <1>7 DEF DismissRequest, RequestStep
  <2>2. HubInv' /\ RequestsInv'
    BY <1>1, <1>7, <2>1, HubCast, RequestsDismiss
  <2> QED BY <2>1, <2>2, CallerFrame DEF CallPlaces
<1>8. CASE Pushed(c)
  <2>1. /\ Purge(c)
        /\ (\E e : Cast(c, conn', e)) \/ Quiet
        /\ UNCHANGED <<start, links, requests, clipboard, restarts, up, hpc>>
    BY <1>8 DEF Pushed, RequestStep
  <2>2. PICK l \in {"toast", "end", "error"} : Goto(c, l)
    BY <1>8 DEF Pushed, SendTo
  <2>3. HubInv'
    BY <1>1, <2>1, HubPurge
  <2>4. RequestsInv'
    BY <1>1, <2>1, <2>2, RequestsMove DEF requests, CallPlaces, Over, Goto
  <2> QED BY <2>1, <2>2, <2>3, <2>4, CallerFrame DEF CallPlaces
<1> QED BY <1>2, <1>3, <1>4, <1>5, <1>6, <1>7, <1>8

LEMMA ClipboardStepInv ==
  ASSUME Inv, NEW c \in Callers,
         \/ c \in Writers /\ (Count(c) \/ Insert(c))
         \/ c \in Titlers /\ (ReadForTitle(c) \/ WriteTitle(c))
         \/ c \in Erasers /\ DeleteSnippet(c)
  PROVE  Inv'
<1>1. /\ HubInv /\ LinksInv /\ RequestsInv /\ ClipInv /\ CapInv /\ c \in Actors
      /\ pc \in [Callers -> CallPlaces] /\ ClipType
  BY CallerKinds DEF Inv, RequestsInv, RequestType, ClipInv
<1>2. UNCHANGED <<start, links, requests, restarts>>
  BY DEF Count, Insert, ReadForTitle, WriteTitle, DeleteSnippet, Read, Write, ClipStep
<1>3. LinksInv' /\ restarts' \in 0..MaxRestarts
  BY <1>1, <1>2, LinksKept DEF Inv
<1>4. CASE c \in Writers /\ Count(c)
  <2>1. /\ pc[c] = "idle" /\ UNCHANGED <<clipboard, hub>>
        /\ \E l \in {"end", "insert"} : pc' = [pc EXCEPT ![c] = l]
    BY <1>4 DEF Count, Goto
  <2>2. HubInv' /\ RequestsInv'
    BY <1>1, <1>2, <2>1, HubKept, RequestsMove DEF requests, CallPlaces
  <2>3. ClipInv'
    BY <1>1, <2>1, ClipKept DEF clipboard, hub
  <2> QED BY <1>1, <1>3, <1>4, <2>2, <2>3, CapCount DEF Inv
<1>5. CASE c \in Writers /\ Insert(c)
  <2>1. /\ pc' = [pc EXCEPT ![c] = "push"] /\ Cast(c, conn, NoSocket)
        /\ UNCHANGED <<conn, newest, up, hpc>>
    BY <1>5 DEF Insert, Goto
  <2>2. HubInv' /\ RequestsInv'
    BY <1>1, <1>2, <2>1, HubCast, RequestsMove DEF requests, CallPlaces, Over
  <2> QED BY <1>1, <1>3, <1>5, <2>2, CapInsert, ClipInsert DEF Inv
<1>6. CASE c \in Titlers /\ ReadForTitle(c)
  <2>1. /\ pc[c] = "idle" /\ UNCHANGED <<snip, hub>>
        /\ \E l \in {"end", "title"} : pc' = [pc EXCEPT ![c] = l]
    BY <1>6 DEF ReadForTitle, Goto, Read
  <2>2. HubInv' /\ RequestsInv'
    BY <1>1, <1>2, <2>1, HubKept, RequestsMove DEF requests, CallPlaces
  <2>3. Stored' = Stored
    BY <2>1 DEF Stored
  <2>4. CapInv'
    BY <1>1, <1>2, <2>1, <2>3, CapKept
  <2> QED BY <1>1, <1>3, <1>6, <2>2, <2>4, ClipTitle DEF Inv
<1>7. CASE c \in Titlers /\ WriteTitle(c)
  <2>1. /\ pc' = [pc EXCEPT ![c] = "push"] /\ Cast(c, conn, NoSocket)
        /\ UNCHANGED <<conn, newest, up, hpc>>
        /\ \E new : snip' = [snip EXCEPT ![sid[c]] = IF @ = NoRow THEN @ ELSE new]
    BY <1>7 DEF WriteTitle, Goto, Write
  <2>2. HubInv' /\ RequestsInv'
    BY <1>1, <1>2, <2>1, HubCast, RequestsMove DEF requests, CallPlaces, Over
  <2>3. Stored' \subseteq Stored
    BY <1>1, <2>1 DEF Stored, ClipType
  <2>4. CapInv'
    BY <1>1, <1>2, <2>1, <2>3, CapKept
  <2> QED BY <1>1, <1>3, <1>7, <2>2, <2>4, ClipTitle DEF Inv
<1>8. CASE c \in Erasers /\ DeleteSnippet(c)
  <2>1. /\ pc' = [pc EXCEPT ![c] = "push"] /\ Cast(c, conn, NoSocket)
        /\ UNCHANGED <<conn, newest, up, hpc>>
        /\ \E i \in Sids : snip' = [snip EXCEPT ![i] = NoRow]
    BY <1>8 DEF DeleteSnippet, Goto, DeleteRow
  <2>2. HubInv' /\ RequestsInv'
    BY <1>1, <1>2, <2>1, HubCast, RequestsMove DEF requests, CallPlaces, Over
  <2>3. Stored' \subseteq Stored
    BY <1>1, <2>1 DEF Stored, ClipType
  <2>4. CapInv'
    BY <1>1, <1>2, <2>1, <2>3, CapKept
  <2> QED BY <1>1, <1>3, <1>8, <2>2, <2>4, ClipDelete DEF Inv
<1> QED BY <1>4, <1>5, <1>6, <1>7, <1>8

\* A step of the hub alone, and one in which a socket updates a snippet.
LEMMA SocketStepInv ==
  ASSUME Inv, NEW s \in Sockets, SocketNext(s) \/ ReadForContent(s)
  PROVE  Inv'
<1>1. /\ HubInv /\ LinksInv /\ RequestsInv /\ ClipInv /\ CapInv /\ s \in Actors
      /\ ClipType /\ hpc \in [Sockets -> HandlerPlaces]
  BY CallerKinds DEF Inv, ClipInv, HubInv, HubTypeOK
<1>2. UNCHANGED <<start, links, requests, pc, restarts>>
  BY DEF SocketNext, ReadForContent, WriteContent, Read, Write, ClipStep
<1>3. LinksInv' /\ RequestsInv' /\ restarts' \in 0..MaxRestarts
  BY <1>1, <1>2, LinksKept, RequestsRestart DEF Inv, requests
<1>4. CASE HandlerNext(s) /\ UNCHANGED <<start, links, requests, clipboard, pc, restarts>>
  <2>1. HubInv'
    BY <1>1, <1>4, HubHandler
  <2>2. \A q \in Sockets : hpc'[q] = "update" => hpc[q] = "update"
    BY <1>1, <1>4 DEF HandlerNext, Connect, Listed, CastSend, CastEnd, Disconnected, Teardown, At
  <2>3. ClipInv'
    BY <1>1, <1>4, <2>2, ClipKept DEF clipboard
  <2>4. Stored' = Stored
    BY <1>4 DEF Stored, clipboard
  <2> QED BY <1>1, <1>2, <1>3, <2>1, <2>3, <2>4, CapKept DEF Inv
<1>5. CASE WriteContent(s)
  <2>1. /\ At(s, "push") /\ Cast(s, conn, DeviceOf[s]) /\ UNCHANGED <<conn, newest, up>>
        /\ hpc[s] = "update"
        /\ \E new : snip' = [snip EXCEPT ![sid[s]] = IF @ = NoRow THEN @ ELSE new]
    BY <1>5 DEF WriteContent, Write
  <2>2. HubInv'
    BY <1>1, <1>2, <2>1, HubMove DEF Handling
  <2>3. ClipInv'
    BY <1>1, <1>5, ClipContent
  <2>4. Stored' \subseteq Stored
    BY <1>1, <2>1 DEF Stored, ClipType
  <2> QED BY <1>1, <1>2, <1>3, <2>2, <2>3, <2>4, CapKept DEF Inv
<1>6. CASE ReadForContent(s)
  <2>1. /\ \E l \in Handling : At(s, l)
        /\ hpc[s] \in Handling /\ UNCHANGED <<conn, newest, up, todo, dead, snip>>
    BY <1>6 DEF ReadForContent, Read, Handling
  <2>2. HubInv'
    BY <1>1, <1>2, <2>1, HubMove DEF Quiet
  <2>3. ClipInv'
    BY <1>1, <1>6, ClipContent
  <2>4. Stored' = Stored
    BY <2>1 DEF Stored
  <2> QED BY <1>1, <1>2, <1>3, <2>2, <2>3, <2>4, CapKept DEF Inv
<1> QED BY <1>4, <1>5, <1>6 DEF SocketNext

LEMMA HubStepInv ==
  ASSUME Inv, UNCHANGED <<start, links, requests, clipboard, pc, restarts>>,
         \/ \E c \in Callers : CastSend(c)
         \/ \E s \in Sockets : Reject(s) \/ Leave(s)
  PROVE  Inv'
<1>1. /\ HubInv /\ LinksInv /\ RequestsInv /\ ClipInv /\ CapInv
      /\ hpc \in [Sockets -> HandlerPlaces]
  BY DEF Inv, HubInv, HubTypeOK
<1>2. HubInv'
  <2>1. ASSUME NEW c \in Callers, CastSend(c) PROVE HubInv'
    BY <1>1, <2>1, HubCastSend, CallerKinds
  <2>2. ASSUME NEW s \in Sockets, Reject(s) \/ Leave(s) PROVE HubInv'
    BY <1>1, <2>2, HubHandler
  <2> QED BY <2>1, <2>2
<1>3. \A q \in Sockets : hpc'[q] = "update" => hpc[q] = "update"
  BY <1>1 DEF Reject, Leave, CastSend, At
<1>4. ClipInv'
  BY <1>1, <1>3, ClipKept DEF clipboard
<1>5. Stored' = Stored
  BY DEF Stored, clipboard
<1>6. LinksInv' /\ RequestsInv' /\ restarts' \in 0..MaxRestarts
  BY <1>1, LinksKept, RequestsRestart DEF Inv, requests
<1> QED BY <1>1, <1>2, <1>4, <1>5, <1>6, CapKept DEF Inv

LEMMA RestartInv ==
  ASSUME Inv, Restart
  PROVE  Inv'
<1>1. HubInv /\ LinksInv /\ RequestsInv /\ ClipInv /\ CapInv
  BY DEF Inv
<1>2. /\ UNCHANGED <<start, requests, snip>> /\ HubRestart
      /\ pc' = [c \in Callers |-> IF pc[c] = "idle" THEN "idle" ELSE "end"]
      /\ restarts' \in 0..MaxRestarts
  BY StateAssumption DEF Restart, Inv
<1>3. HubInv' /\ LinksInv' /\ ClipInv'
  BY <1>1, <1>2, HubAgain, LinksOther, ClipRestart
<1>4. RequestsInv'
  BY <1>1, <1>2, RequestsRestart DEF requests
<1>5. Stored' = Stored
  BY <1>2 DEF Stored
<1>6. CapInv'
  BY <1>1, <1>2, <1>5, CapKept
<1> QED BY <1>2, <1>3, <1>4, <1>6 DEF Inv

LEMMA InvNext == Inv /\ [Next]_vars => Inv'
<1> SUFFICES ASSUME Inv, [Next]_vars PROVE Inv'
  OBVIOUS
<1>1. CASE LinksNext
  BY <1>1, LinksStep
<1>2. ASSUME NEW c \in Callers, CallerNext(c) PROVE Inv'
  BY <1>2, RequestStepInv, ClipboardStepInv, HubStepInv DEF CallerNext
<1>3. ASSUME NEW s \in Sockets, SocketNext(s) \/ ReadForContent(s) PROVE Inv'
  BY <1>3, SocketStepInv
<1>4. ASSUME NEW s \in Sockets, (Reject(s) \/ Leave(s))
                               /\ UNCHANGED <<start, links, requests, clipboard, pc, restarts>>
      PROVE  Inv'
  BY <1>4, HubStepInv
<1>5. CASE Restart
  BY <1>5, RestartInv
<1>6. CASE UNCHANGED vars
  <2>1. UNCHANGED <<start, hub, links, requests, clipboard, pc, restarts>>
    BY <1>6 DEF vars
  <2>2. Stored' = Stored
    BY <2>1 DEF Stored, clipboard
  <2> QED BY <2>1, <2>2, HubKept, LinksKept, RequestsRestart, ClipKept, CapKept DEF Inv, requests, clipboard, hub
<1> QED BY <1>1, <1>2, <1>3, <1>4, <1>5, <1>6 DEF Next

LEMMA InvHolds == Spec => []Inv
<1>1. Init => Inv
  BY InvInit
<1>2. Inv /\ [Next]_vars => Inv'
  BY InvNext
<1> QED BY <1>1, <1>2, PTL DEF Spec

\* ConnectionManager and /ws: the device list never names a socket whose
\* handler has ended, and a teardown never evicts the newer connection of the
\* same device, however handlers, broadcasts and restarts interleave.
THEOREM DeviceListSound == Spec => []DevicesSound
<1>1. Inv => DevicesSound
  <2> SUFFICES ASSUME Inv PROVE DevicesSound
    OBVIOUS
  <2>1. HubTypeOK /\ NoGhost /\ NewestServed
    BY DEF Inv, HubInv
  <2>2. TypeOK
    BY <2>1 DEF Inv, TypeOK, LinksInv, LinkType, RequestsInv, RequestType, CallPlaces, ClipInv, ClipType
  <2>3. NewestRegistered
    BY <2>1 DEF NewestServed, NewestRegistered, Handling, HubTypeOK
  <2> QED BY <2>1, <2>2, <2>3 DEF DevicesSound
<1> QED BY <1>1, InvHolds, PTL

\* ShareLinkService: for every set of lifetimes, a link lives in memory and on
\* disk for the lifetime its creator was told, and no revoked link comes back.
THEOREM LinksHonoured == Spec => []LinksAsTold
<1>1. Inv => LinksAsTold
  BY DEF Inv, LinksInv, LinksAsTold
<1> QED BY <1>1, InvHolds, PTL

\* create_snippet: the count and the insertion are two calls, so the limit may
\* be passed, by less than the number of callers.
THEOREM SnippetsBounded == Spec => []SnippetCap
<1>1. Inv => SnippetCap
  BY CapGives DEF Inv
<1> QED BY <1>1, InvHolds, PTL

\* update_clipboard_snippet: SELECT and UPDATE under one lock lose no update.
THEOREM UpdatesKept == Spec => []NoLostUpdate
<1>1. Inv => NoLostUpdate
  BY DEF Inv, ClipInv
<1> QED BY <1>1, InvHolds, PTL
=============================================================================
