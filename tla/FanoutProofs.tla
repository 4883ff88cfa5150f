---------------------------- MODULE FanoutProofs ----------------------------
(***************************************************************************)
(* Proofs about the stream bridge, for any connections, streams, topics    *)
(* and room capacity.                                                      *)
(***************************************************************************)
EXTENDS Fanout, TLAPS

\* Type correctness of the part of the state the proofs use.
TablesOK ==
    /\ open \subseteq Stream /\ headerParsed \subseteq open
    /\ isPub \subseteq open /\ isZonePub \subseteq open
    /\ topic \in [Stream -> Name \cup {None}]
    /\ topicToRoom \in [Name -> Room \cup {Sentinel}]
    /\ delivery \in [Conn -> Stream \cup {None}]
    /\ members \in [Room -> SUBSET Conn]
    /\ verb \in [Stream -> Verb \cup {None}]
    /\ \A s \in headerParsed : topic[s] \in Name

\* A stream with a StreamState belongs to a live connection: the close
\* callback erases them all.
OpenLive == \A s \in open : Owner[s] \in live

\* The inductive invariant behind DeliveryOpen, EntityBacked and
\* RoomsDistinct.
BridgeInv == TablesOK /\ OpenLive /\ DeliveryOpen /\ EntityBacked /\ RoomsDistinct

\* The sentinel fanout-core answers when it is full is not a room.
LEMMA SentinelNotRoom == Sentinel \notin Room
  BY FanoutAssumption DEF Sentinel, Room

\* getOrCreateRoom answers the sentinel, or a room such that storing it
\* keeps the rooms of different names distinct.
LEMMA RoomChoice ==
  ASSUME TablesOK, RoomsDistinct, NEW n \in Name, NEW r \in GetOrCreateRoom(n)
  PROVE  /\ r \in Room \cup {Sentinel}
         /\ topicToRoom[n] # Sentinel => r = topicToRoom[n]
         /\ r # Sentinel => \A k \in Name \ {n} : topicToRoom[k] # r
  <1>1. CASE topicToRoom[n] # Sentinel
    BY <1>1 DEF GetOrCreateRoom, TablesOK, RoomsDistinct
  <1>2. CASE topicToRoom[n] = Sentinel
    <2>1. r \in AllocRoom
      BY <1>2 DEF GetOrCreateRoom
    <2>2. QED
      BY <1>2, <2>1 DEF AllocRoom
  <1>3. QED
    BY <1>1, <1>2

\* Storing getOrCreateRoom's answer keeps the room table well formed.
LEMMA StoreRoom ==
  ASSUME TablesOK, RoomsDistinct, NEW n \in Name, NEW r \in GetOrCreateRoom(n),
         topicToRoom' = [topicToRoom EXCEPT ![n] = r]
  PROVE  /\ topicToRoom' \in [Name -> Room \cup {Sentinel}]
         /\ RoomsDistinct'
         /\ \A k \in Name : topicToRoom[k] # Sentinel => topicToRoom'[k] = topicToRoom[k]
  <1>1. /\ r \in Room \cup {Sentinel}
        /\ topicToRoom[n] # Sentinel => r = topicToRoom[n]
        /\ r # Sentinel => \A k \in Name \ {n} : topicToRoom[k] # r
    BY RoomChoice
  <1>2. topicToRoom \in [Name -> Room \cup {Sentinel}]
    BY DEF TablesOK
  <1>3. QED
    BY <1>1, <1>2 DEF RoomsDistinct

\* A server that just started satisfies the invariant.
LEMMA BridgeInit == Init => BridgeInv
  <1> SUFFICES ASSUME Init PROVE BridgeInv
    OBVIOUS
  <1>1. TablesOK
    BY DEF Init, TablesOK
  <1>2. OpenLive /\ EntityBacked
    BY DEF Init, OpenLive, EntityBacked
  <1>3. DeliveryOpen /\ RoomsDistinct
    <2>1. topicToRoom = [n \in Name |-> Sentinel] /\ delivery = [c \in Conn |-> None]
      BY DEF Init
    <2>2. QED
      BY <2>1 DEF DeliveryOpen, RoomsDistinct
  <1>4. QED
    BY <1>1, <1>2, <1>3 DEF BridgeInv

\* A header line keeps the stream flags well formed.
LEMMA HeaderKeeps ==
  ASSUME TablesOK, OpenLive, NEW s \in Stream, NEW n \in Name, Header(s, n),
         Owner[s] \in live
  PROVE  /\ open' \subseteq Stream /\ headerParsed' \subseteq open'
         /\ open' = open \cup {s} /\ live' = live
         /\ topic' \in [Stream -> Name \cup {None}]
         /\ topic'[s] = n
         /\ \A q \in headerParsed' : topic'[q] \in Name
         /\ OpenLive'
  BY DEF TablesOK, OpenLive, Header

\* A sent header keeps the type of `verb'.
LEMMA SentKeeps ==
  ASSUME TablesOK, NEW s \in Stream, NEW v \in Verb, NEW x, Sent(s, v, x)
  PROVE  verb' \in [Stream -> Verb \cup {None}]
  BY DEF TablesOK, Sent

\* A step adds at most the connection of `s', to room `r' of topic `n'.
OnlyJoins(s, n, r) ==
    \A q \in Room : \A c \in members'[q] :
        \/ c \in members[q]
        \/ q = r /\ c = Owner[s] /\ topicToRoom'[n] = r

\* Joining a room keeps the tables; it may only point the connection's
\* delivery entry at the joining stream.
LEMMA JoinKeeps ==
  ASSUME TablesOK, RoomsDistinct, NEW s \in Stream, NEW n \in Name,
         topic'[s] = n, NEW r \in GetOrCreateRoom(n), Join(s, r)
  PROVE  /\ topicToRoom' \in [Name -> Room \cup {Sentinel}]
         /\ RoomsDistinct'
         /\ \A k \in Name : topicToRoom[k] # Sentinel => topicToRoom'[k] = topicToRoom[k]
         /\ delivery' \in [Conn -> Stream \cup {None}]
         /\ \A c \in Conn : delivery'[c] = delivery[c] \/ (c = Owner[s] /\ delivery'[c] = s)
         /\ members' \in [Room -> SUBSET Conn]
         /\ OnlyJoins(s, n, r)
  <1>0. /\ Owner[s] \in Conn /\ r \in Room \cup {Sentinel}
        /\ delivery \in [Conn -> Stream \cup {None}] /\ members \in [Room -> SUBSET Conn]
        /\ topicToRoom \in [Name -> Room \cup {Sentinel}]
    BY FanoutAssumption, RoomChoice DEF TablesOK
  <1>1. CASE r = Sentinel
    <2>1. topicToRoom' = topicToRoom /\ delivery' = delivery /\ members' = members
      BY <1>1 DEF Join, tables
    <2>2. QED
      BY <1>0, <2>1 DEF RoomsDistinct, OnlyJoins
  <1>2. CASE r # Sentinel
    <2>1. /\ topicToRoom' = [topicToRoom EXCEPT ![n] = r]
          /\ delivery' = [delivery EXCEPT ![Owner[s]] = s]
          /\ members' = [members EXCEPT ![r] = @ \cup {Owner[s]}]
      BY <1>2 DEF Join
    <2>2. /\ topicToRoom' \in [Name -> Room \cup {Sentinel}]
          /\ RoomsDistinct'
          /\ \A k \in Name : topicToRoom[k] # Sentinel => topicToRoom'[k] = topicToRoom[k]
      BY <2>1, StoreRoom
    <2>3. /\ delivery' \in [Conn -> Stream \cup {None}]
          /\ \A c \in Conn : delivery'[c] = delivery[c] \/ (c = Owner[s] /\ delivery'[c] = s)
      BY <1>0, <2>1
    <2>4. topicToRoom'[n] = r
      BY <1>0, <2>1
    <2>5. /\ members' \in [Room -> SUBSET Conn]
          /\ OnlyJoins(s, n, r)
      BY <1>0, <1>2, <2>1, <2>4 DEF OnlyJoins
    <2>6. QED
      BY <2>2, <2>3, <2>5
  <1>3. QED
    BY <1>1, <1>2

\* Closing streams drops the delivery entries and the entities they back.
LEMMA CleanupKeeps ==
  ASSUME BridgeInv, NEW c \in Conn, NEW S \in SUBSET open,
         \A s \in S : Owner[s] = c, Cleanup(c, S), Erase(S)
  PROVE  /\ TablesOK' /\ RoomsDistinct'
         /\ \A d \in Conn : delivery'[d] # None =>
               delivery'[d] = delivery[d] /\ delivery'[d] \in open'
         /\ \A d \in entities' : d \in entities /\ \E s \in isZonePub' : Owner[s] = d
  <1>0. /\ TablesOK /\ OpenLive /\ DeliveryOpen /\ EntityBacked /\ RoomsDistinct
    BY DEF BridgeInv
  <1>1. /\ open' = open \ S /\ headerParsed' = headerParsed \ S
        /\ isPub' = isPub \ S /\ isZonePub' = isZonePub \ S
        /\ topic' = [s \in Stream |-> IF s \in S THEN None ELSE topic[s]]
        /\ verb' = [s \in Stream |-> IF s \in S THEN None ELSE verb[s]]
        /\ topicToRoom' = topicToRoom
    BY DEF Erase
  <1>2. /\ delivery' = [delivery EXCEPT ![c] = IF @ \in S THEN None ELSE @]
        /\ delivery \in [Conn -> Stream \cup {None}]
    BY <1>0 DEF Cleanup, DropDelivery, TablesOK
  <1>3. members' \in [Room -> SUBSET Conn]
    BY <1>0 DEF Cleanup, TablesOK
  <1>4. delivery' \in [Conn -> Stream \cup {None}]
    BY <1>2
  <1>5. TablesOK'
    BY <1>0, <1>1, <1>3, <1>4 DEF TablesOK
  <1>6. RoomsDistinct'
    BY <1>0, <1>1 DEF RoomsDistinct
  <1>7. ASSUME NEW d \in Conn, delivery'[d] # None
        PROVE  delivery'[d] = delivery[d] /\ delivery'[d] \in open'
    <2>1. delivery'[d] = delivery[d] /\ (d = c => delivery[d] \notin S)
      BY <1>2, <1>7
    <2>2. delivery[d] \in open /\ Owner[delivery[d]] = d
      BY <2>1, <1>7, <1>0 DEF DeliveryOpen
    <2>3. QED
      BY <2>1, <2>2, <1>1
  <1>8. ASSUME NEW d \in entities'
        PROVE  d \in entities /\ \E s \in isZonePub' : Owner[s] = d
    <2>1. d \in entities /\ (S \cap isZonePub # {} => d # c)
      BY <1>8 DEF Cleanup, DropEntity
    <2>2. PICK s \in isZonePub : Owner[s] = d
      BY <2>1, <1>0 DEF EntityBacked
    <2>3. s \notin S
      BY <2>1, <2>2
    <2>4. QED
      BY <2>1, <2>2, <2>3, <1>1
  <1>9. QED
    BY <1>5, <1>6, <1>7, <1>8

\* A header line whose handler leaves the tables alone keeps the invariant.
LEMMA PlainHeader ==
  ASSUME BridgeInv, NEW s \in Stream, NEW n \in Name, NEW v \in Verb, NEW x,
         Owner[s] \in live, Header(s, n), Sent(s, v, x),
         isPub' \in {isPub, isPub \cup {s}}, isZonePub' = isZonePub,
         UNCHANGED tables, UNCHANGED entities
  PROVE  BridgeInv'
  <1>0. TablesOK /\ OpenLive /\ DeliveryOpen /\ EntityBacked /\ RoomsDistinct
    BY DEF BridgeInv
  <1>1. /\ open' \subseteq Stream /\ headerParsed' \subseteq open'
        /\ open' = open \cup {s} /\ live' = live
        /\ topic' \in [Stream -> Name \cup {None}]
        /\ \A q \in headerParsed' : topic'[q] \in Name
        /\ OpenLive'
    BY <1>0, HeaderKeeps
  <1>2. topicToRoom' = topicToRoom /\ delivery' = delivery /\ members' = members
    BY DEF tables
  <1>3. verb' \in [Stream -> Verb \cup {None}]
    BY <1>0, SentKeeps
  <1>4. TablesOK'
    BY <1>0, <1>1, <1>2, <1>3 DEF TablesOK
  <1>5. DeliveryOpen' /\ EntityBacked' /\ RoomsDistinct'
    BY <1>0, <1>1, <1>2 DEF DeliveryOpen, EntityBacked, RoomsDistinct
  <1>6. QED
    BY <1>1, <1>4, <1>5 DEF BridgeInv

\* A header line whose handler joins a room keeps the invariant.
LEMMA JoiningHeader ==
  ASSUME BridgeInv, NEW s \in Stream, NEW n \in Name, NEW v \in Verb, NEW x,
         NEW r \in GetOrCreateRoom(n),
         Owner[s] \in live, Header(s, n), Sent(s, v, x), Join(s, r),
         isPub' \in {isPub, isPub \ {s}}, isZonePub' = isZonePub, UNCHANGED entities
  PROVE  BridgeInv'
  <1>0. TablesOK /\ OpenLive /\ DeliveryOpen /\ EntityBacked /\ RoomsDistinct
    BY DEF BridgeInv
  <1>1. /\ open' \subseteq Stream /\ headerParsed' \subseteq open'
        /\ open' = open \cup {s} /\ live' = live
        /\ topic' \in [Stream -> Name \cup {None}]
        /\ topic'[s] = n
        /\ \A q \in headerParsed' : topic'[q] \in Name
        /\ OpenLive'
    BY <1>0, HeaderKeeps
  <1>2. /\ topicToRoom' \in [Name -> Room \cup {Sentinel}]
        /\ RoomsDistinct'
        /\ delivery' \in [Conn -> Stream \cup {None}]
        /\ \A c \in Conn : delivery'[c] = delivery[c] \/ (c = Owner[s] /\ delivery'[c] = s)
        /\ members' \in [Room -> SUBSET Conn]
    BY <1>0, <1>1, JoinKeeps
  <1>3. verb' \in [Stream -> Verb \cup {None}]
    BY <1>0, SentKeeps
  <1>4. TablesOK'
    BY <1>0, <1>1, <1>2, <1>3 DEF TablesOK
  <1>5. DeliveryOpen' /\ EntityBacked'
    BY <1>0, <1>1, <1>2 DEF DeliveryOpen, EntityBacked
  <1>6. QED
    BY <1>1, <1>2, <1>4, <1>5 DEF BridgeInv

\* Every callback keeps the invariant.
LEMMA BridgeStep == BridgeInv /\ [Next]_vars => BridgeInv'
  <1> SUFFICES ASSUME BridgeInv, [Next]_vars PROVE BridgeInv'
    OBVIOUS
  <1>0. /\ TablesOK /\ OpenLive /\ DeliveryOpen /\ EntityBacked /\ RoomsDistinct
        /\ \A t \in Topic : t \in Name
        /\ Pos \in Name
        /\ \A s \in Stream : Owner[s] \in Conn
        /\ Verb = {"SUB", "PUB", "SKB", "ZPB", "???"}
    BY FanoutAssumption DEF BridgeInv, Name, Verb
  <1>1. CASE UNCHANGED vars
    BY <1>0, <1>1 DEF vars, parser, tables, client, BridgeInv, TablesOK, OpenLive,
       DeliveryOpen, EntityBacked, RoomsDistinct
  <1>2. ASSUME NEW c \in Conn, Connect(c) PROVE BridgeInv'
    BY <1>0, <1>2 DEF Connect, parser, tables, client, BridgeInv, TablesOK, OpenLive,
       DeliveryOpen, EntityBacked, RoomsDistinct
  <1>3. ASSUME NEW c \in Conn, CloseConn(c) PROVE BridgeInv'
    <2> DEFINE S == {s \in open : Owner[s] = c}
    <2>1. live' = live \ {c} /\ Cleanup(c, S) /\ Erase(S)
      BY <1>3 DEF CloseConn
    <2>2. /\ TablesOK' /\ RoomsDistinct'
          /\ \A d \in Conn : delivery'[d] # None =>
                delivery'[d] = delivery[d] /\ delivery'[d] \in open'
          /\ \A d \in entities' : d \in entities /\ \E s \in isZonePub' : Owner[s] = d
      BY <2>1, CleanupKeeps
    <2>3. open' = open \ S /\ isZonePub' = isZonePub \ S
      BY <2>1 DEF Erase
    <2>4. OpenLive'
      BY <1>0, <2>1, <2>3 DEF OpenLive
    <2>5. DeliveryOpen'
      BY <1>0, <2>1, <2>2, <2>3 DEF DeliveryOpen
    <2>6. EntityBacked'
      BY <1>0, <2>1, <2>2, <2>3 DEF EntityBacked, TablesOK
    <2>7. QED
      BY <2>2, <2>4, <2>5, <2>6 DEF BridgeInv
  <1>4. ASSUME NEW s \in Stream, CloseStream(s) PROVE BridgeInv'
    <2>1. live' = live /\ Cleanup(Owner[s], {s}) /\ Erase({s}) /\ {s} \subseteq open
      BY <1>4 DEF CloseStream
    <2>2. /\ TablesOK' /\ RoomsDistinct'
          /\ \A d \in Conn : delivery'[d] # None =>
                delivery'[d] = delivery[d] /\ delivery'[d] \in open'
          /\ \A d \in entities' : d \in entities /\ \E q \in isZonePub' : Owner[q] = d
      BY <1>0, <2>1, CleanupKeeps
    <2>3. open' = open \ {s}
      BY <2>1 DEF Erase
    <2>4. OpenLive' /\ DeliveryOpen' /\ EntityBacked'
      BY <1>0, <2>1, <2>2, <2>3 DEF OpenLive, DeliveryOpen, EntityBacked
    <2>5. QED
      BY <2>2, <2>4 DEF BridgeInv
  <1>5. ASSUME NEW s \in Stream, Partial(s) PROVE BridgeInv'
    BY <1>0, <1>5 DEF Partial, parser, tables, client, BridgeInv, TablesOK, OpenLive,
       DeliveryOpen, EntityBacked, RoomsDistinct
  <1>6. ASSUME NEW s \in Stream, HeaderZone(s) PROVE BridgeInv'
    <2>1. /\ Owner[s] \in live /\ Header(s, Pos) /\ Sent(s, "ZPB", "payload")
          /\ isZonePub' = isZonePub \cup {s} /\ isPub' = isPub
          /\ delivery' = [delivery EXCEPT ![Owner[s]] = s]
          /\ topicToRoom' = topicToRoom /\ members' = members /\ entities' = entities
      BY <1>6 DEF HeaderZone, MaySend
    <2>2. /\ open' \subseteq Stream /\ headerParsed' \subseteq open'
          /\ open' = open \cup {s} /\ live' = live
          /\ topic' \in [Stream -> Name \cup {None}]
          /\ \A q \in headerParsed' : topic'[q] \in Name
          /\ OpenLive'
      BY <1>0, <2>1, HeaderKeeps
    <2>3. verb' \in [Stream -> Verb \cup {None}]
      BY <1>0, <2>1, SentKeeps
    <2>4. TablesOK'
      BY <1>0, <2>1, <2>2, <2>3 DEF TablesOK
    <2>5. DeliveryOpen'
      BY <1>0, <2>1, <2>2 DEF DeliveryOpen, TablesOK
    <2>6. EntityBacked' /\ RoomsDistinct'
      BY <1>0, <2>1, <2>2 DEF EntityBacked, RoomsDistinct
    <2>7. QED
      BY <2>2, <2>4, <2>5, <2>6 DEF BridgeInv
  <1>7. ASSUME NEW s \in Stream, HeaderZoneMalformed(s) PROVE BridgeInv'
    BY <1>0, <1>7, PlainHeader DEF HeaderZoneMalformed, MaySend
  <1>8. ASSUME NEW s \in Stream, HeaderNoSpace(s) PROVE BridgeInv'
    BY <1>0, <1>8 DEF HeaderNoSpace, parser, tables, BridgeInv, TablesOK, OpenLive,
       DeliveryOpen, EntityBacked, RoomsDistinct
  <1>9. ASSUME NEW s \in Stream, PayloadPub(s) PROVE BridgeInv'
    <2>1. /\ s \in headerParsed /\ headerParsed' = headerParsed \ {s}
          /\ live' = live /\ open' = open /\ isPub' = isPub /\ isZonePub' = isZonePub
          /\ topic' = topic /\ delivery' = delivery /\ members' = members
          /\ entities' = entities /\ verb' = verb
      BY <1>9 DEF PayloadPub
    <2>2. PICK r \in GetOrCreateRoom(topic[s]) :
             topicToRoom' = [topicToRoom EXCEPT ![topic[s]] = r]
      BY <1>9 DEF PayloadPub
    <2>3. topic[s] \in Name
      BY <1>0, <2>1 DEF TablesOK
    <2>4. topicToRoom' \in [Name -> Room \cup {Sentinel}] /\ RoomsDistinct'
      BY <1>0, <2>2, <2>3, StoreRoom
    <2>5. TablesOK'
      BY <1>0, <2>1, <2>4 DEF TablesOK
    <2>6. OpenLive' /\ DeliveryOpen' /\ EntityBacked'
      BY <1>0, <2>1 DEF OpenLive, DeliveryOpen, EntityBacked
    <2>7. QED
      BY <2>4, <2>5, <2>6 DEF BridgeInv
  <1>10. ASSUME NEW s \in Stream, PayloadZone(s) PROVE BridgeInv'
    <2>1. /\ s \in isZonePub /\ headerParsed' = headerParsed \ {s}
          /\ live' = live /\ open' = open /\ isPub' = isPub /\ isZonePub' = isZonePub
          /\ topic' = topic /\ verb' = verb /\ entities' = entities \cup {Owner[s]}
          /\ topicToRoom' = topicToRoom /\ delivery' = delivery /\ members' = members
      BY <1>10 DEF PayloadZone, tables
    <2>2. TablesOK'
      BY <1>0, <2>1 DEF TablesOK
    <2>3. OpenLive' /\ DeliveryOpen' /\ RoomsDistinct'
      BY <1>0, <2>1 DEF OpenLive, DeliveryOpen, RoomsDistinct
    <2>4. EntityBacked'
      BY <1>0, <2>1 DEF EntityBacked, OpenLive, TablesOK
    <2>5. QED
      BY <2>2, <2>3, <2>4 DEF BridgeInv
  <1>11. ASSUME NEW s \in Stream, SketchCorrupt(s) PROVE BridgeInv'
    BY <1>0, <1>11 DEF SketchCorrupt, tables, BridgeInv, TablesOK, OpenLive,
       DeliveryOpen, EntityBacked, RoomsDistinct
  <1>12. ASSUME NEW s \in Stream, NEW t \in Topic, HeaderSub(s, t) PROVE BridgeInv'
    <2>1. PICK r \in GetOrCreateRoom(t) : Join(s, r)
      BY <1>12 DEF HeaderSub
    <2>2. QED
      BY <1>0, <1>12, <2>1, JoiningHeader DEF HeaderSub, MaySend
  <1>13. ASSUME NEW s \in Stream, NEW t \in Topic, HeaderPub(s, t) PROVE BridgeInv'
    BY <1>0, <1>13, PlainHeader DEF HeaderPub, MaySend
  <1>14. ASSUME NEW s \in Stream, NEW t \in Topic, HeaderSketch(s, t) PROVE BridgeInv'
    <2>1. PICK r \in GetOrCreateRoom(t) : Join(s, r)
      BY <1>14 DEF HeaderSketch
    <2>2. QED
      BY <1>0, <1>14, <2>1, JoiningHeader DEF HeaderSketch, MaySend
  <1>15. ASSUME NEW s \in Stream, NEW t \in Topic, HeaderUnknown(s, t) PROVE BridgeInv'
    BY <1>0, <1>15, PlainHeader DEF HeaderUnknown, MaySend
  <1>16. ASSUME NEW s \in Stream, NEW f \in Frame, SketchFrame(s, f) PROVE BridgeInv'
    BY <1>0, <1>16 DEF SketchFrame, parser, tables, client, BridgeInv, TablesOK,
       OpenLive, DeliveryOpen, EntityBacked, RoomsDistinct
  <1>17. QED
    BY <1>1, <1>2, <1>3, <1>4, <1>5, <1>6, <1>7, <1>8, <1>9, <1>10, <1>11, <1>12,
       <1>13, <1>14, <1>15, <1>16 DEF Next

\* For any clients, well behaved or not: delivery entries name open streams
\* of live connections, entities are backed by a ZPB stream, and topics never
\* share a room.
THEOREM BridgeCorrect == Spec => [](DeliveryOpen /\ EntityBacked /\ RoomsDistinct)
  <1>1. BridgeInv => DeliveryOpen /\ EntityBacked /\ RoomsDistinct
    BY DEF BridgeInv
  <1>2. QED
    BY <1>1, BridgeInit, BridgeStep, PTL DEF Spec

-----------------------------------------------------------------------------
(* Subscriptions, for clients that use one verb per stream                 *)

\* The flags of a stream agree with the one verb its client uses.
FlagsMatchVerb ==
    \A s \in Stream : /\ s \in isZonePub => verb[s] = "ZPB"
                      /\ s \in isPub => verb[s] = "PUB"

MembersInv == BridgeInv /\ FlagsMatchVerb /\ MembersBacked

\* A step that keeps every subscribed stream and the rooms of their topics,
\* and adds no member, keeps the members backed.
LEMMA BackingKept ==
  ASSUME MembersInv, TablesOK', open \subseteq open',
         \A r \in Room : members'[r] \subseteq members[r],
         \A n \in Name : topicToRoom[n] # Sentinel => topicToRoom'[n] = topicToRoom[n],
         \A s \in headerParsed : verb[s] \in {"SUB", "SKB"} =>
            s \in headerParsed' /\ verb'[s] = verb[s] /\ topic'[s] = topic[s]
  PROVE  MembersBacked'
  <1> SUFFICES ASSUME NEW r \in Room, NEW c \in members'[r]
               PROVE \E s \in open' : /\ Owner[s] = c
                                      /\ Subscribed(s, topic[s])'
                                      /\ topicToRoom'[topic'[s]] = r
    BY DEF MembersBacked
  <1>0. c \in members[r] /\ MembersBacked
    BY DEF MembersInv
  <1>1. PICK s \in open : /\ Owner[s] = c
                          /\ Subscribed(s, topic[s]) /\ topicToRoom[topic[s]] = r
    BY <1>0, ZenonT(30) DEF MembersBacked
  <1>2. topic[s] \in Name
    BY <1>1 DEF MembersInv, BridgeInv, TablesOK, Subscribed
  <1>3. s \in headerParsed' /\ verb'[s] = verb[s] /\ topic'[s] = topic[s]
    BY <1>1 DEF Subscribed
  <1>4. topicToRoom'[topic[s]] = topicToRoom[topic[s]] /\ topicToRoom[topic[s]] # Sentinel
    BY <1>1, <1>2 DEF Subscribed
  <1>5. Subscribed(s, topic[s])'
    BY <1>1, <1>3, <1>4 DEF Subscribed
  <1>6. QED
    BY <1>1, <1>3, <1>4, <1>5

\* Sending the stream's one verb fixes the verb and leaves the others alone.
LEMMA SentVerb ==
  ASSUME MembersInv, ~Mixed, NEW s \in Stream, NEW v \in Verb, NEW x,
         MaySend(s, v), Sent(s, v, x)
  PROVE  verb'[s] = v /\ \A q \in Stream \ {s} : verb'[q] = verb[q]
  BY FanoutAssumption DEF MembersInv, BridgeInv, TablesOK, MaySend, Sent, Verb

\* A header line leaves the streams that have a header alone.
LEMMA HeaderOthers ==
  ASSUME MembersInv, NEW s \in Stream, NEW n \in Name, Header(s, n)
  PROVE  /\ open' = open \cup {s} /\ headerParsed' = headerParsed \cup {s}
         /\ s \notin headerParsed /\ topic'[s] = n
         /\ \A q \in Stream \ {s} : topic'[q] = topic[q]
  BY DEF MembersInv, BridgeInv, TablesOK, Header

\* A header line of one verb whose handler adds no member.
LEMMA PlainHeaderMembers ==
  ASSUME MembersInv, BridgeInv', ~Mixed, NEW s \in Stream, NEW n \in Name,
         NEW v \in Verb, NEW x, MaySend(s, v), Header(s, n), Sent(s, v, x),
         isPub' = isPub \/ (isPub' = isPub \cup {s} /\ v = "PUB"),
         isZonePub' = isZonePub \/ (isZonePub' = isZonePub \cup {s} /\ v = "ZPB"),
         topicToRoom' = topicToRoom, members' = members
  PROVE  MembersInv'
  <1>1. verb'[s] = v /\ \A q \in Stream \ {s} : verb'[q] = verb[q]
    BY SentVerb
  <1>2. /\ open' = open \cup {s} /\ headerParsed' = headerParsed \cup {s}
        /\ s \notin headerParsed /\ \A q \in Stream \ {s} : topic'[q] = topic[q]
    BY HeaderOthers
  <1>3. verb[s] \in {None, v}
    BY DEF MaySend
  <1>4. TablesOK /\ TablesOK' /\ FlagsMatchVerb
    BY DEF MembersInv, BridgeInv
  <1>5. FlagsMatchVerb'
    <2>1. s \in isPub => v = "PUB"
      BY <1>3, <1>4, FanoutAssumption DEF FlagsMatchVerb, Verb
    <2>2. s \in isZonePub => v = "ZPB"
      BY <1>3, <1>4, FanoutAssumption DEF FlagsMatchVerb, Verb
    <2>3. ASSUME NEW q \in Stream
          PROVE  (q \in isZonePub' => verb'[q] = "ZPB") /\ (q \in isPub' => verb'[q] = "PUB")
      <3>1. CASE q = s
        BY <1>1, <2>1, <2>2, <3>1
      <3>2. CASE q # s
        <4>1. (q \in isZonePub' => q \in isZonePub) /\ (q \in isPub' => q \in isPub)
          BY <3>2
        <4>2. (q \in isZonePub => verb[q] = "ZPB") /\ (q \in isPub => verb[q] = "PUB")
          BY <1>4 DEF FlagsMatchVerb
        <4>3. verb'[q] = verb[q]
          BY <1>1, <3>2
        <4>4. QED
          BY <4>1, <4>2, <4>3
      <3>3. QED
        BY <3>1, <3>2
    <2>4. QED
      BY <2>3 DEF FlagsMatchVerb
  <1>6. \A q \in headerParsed : q \in Stream \ {s}
    BY <1>2, <1>4 DEF TablesOK
  <1>7. MembersBacked'
    BY <1>1, <1>2, <1>4, <1>6, BackingKept
  <1>8. QED
    BY <1>5, <1>7 DEF MembersInv

\* A SUB or SKB header: the new member is backed by the joining stream.
LEMMA JoiningHeaderMembers ==
  ASSUME MembersInv, BridgeInv', ~Mixed, NEW s \in Stream, NEW n \in Name,
         NEW v \in {"SUB", "SKB"}, NEW x, NEW r \in GetOrCreateRoom(n),
         MaySend(s, v), Header(s, n), Sent(s, v, x), Join(s, r),
         isPub' \in {isPub, isPub \ {s}}, isZonePub' = isZonePub
  PROVE  MembersInv'
  <1>0. /\ TablesOK /\ TablesOK' /\ FlagsMatchVerb /\ RoomsDistinct /\ v \in Verb
        /\ MembersBacked
    BY DEF MembersInv, BridgeInv, Verb
  <1>1. verb'[s] = v /\ \A q \in Stream \ {s} : verb'[q] = verb[q]
    BY <1>0, SentVerb
  <1>2. /\ open' = open \cup {s} /\ headerParsed' = headerParsed \cup {s}
        /\ s \notin headerParsed /\ topic'[s] = n
        /\ \A q \in Stream \ {s} : topic'[q] = topic[q]
    BY HeaderOthers
  <1>3. verb[s] \in {None, v}
    BY DEF MaySend
  <1>4. FlagsMatchVerb'
    <2>1. s \notin isPub /\ s \notin isZonePub
      BY <1>0, <1>3, FanoutAssumption DEF FlagsMatchVerb, Verb
    <2>2. isPub' \subseteq isPub /\ isZonePub' = isZonePub
      OBVIOUS
    <2>3. ASSUME NEW q \in Stream
          PROVE  (q \in isZonePub' => verb'[q] = "ZPB") /\ (q \in isPub' => verb'[q] = "PUB")
      <3>1. CASE q = s
        BY <2>1, <2>2, <3>1
      <3>2. CASE q # s
        BY <1>0, <1>1, <2>2, <3>2 DEF FlagsMatchVerb
      <3>3. QED
        BY <3>1, <3>2
    <2>4. QED
      BY <2>3 DEF FlagsMatchVerb
  <1>5. /\ \A k \in Name : topicToRoom[k] # Sentinel => topicToRoom'[k] = topicToRoom[k]
        /\ \A q \in Room : \A c \in members'[q] :
              \/ c \in members[q]
              \/ q = r /\ c = Owner[s] /\ topicToRoom'[n] = r
    <2>1. TablesOK /\ RoomsDistinct /\ topic'[s] = n /\ Join(s, r)
      BY <1>0, <1>2
    <2>2. \A k \in Name : topicToRoom[k] # Sentinel => topicToRoom'[k] = topicToRoom[k]
      BY <2>1, JoinKeeps
    <2>3. OnlyJoins(s, n, r)
      BY <2>1, JoinKeeps
    <2>4. QED
      BY <2>2, <2>3 DEF OnlyJoins
  <1>6. ASSUME NEW q \in Room, NEW c \in members'[q]
        PROVE  \E p \in open' : /\ Owner[p] = c
                                /\ Subscribed(p, topic[p])'
                                /\ topicToRoom'[topic'[p]] = q
    <2>1. CASE c \in members[q]
      <3>1. PICK p \in open : /\ Owner[p] = c
                              /\ Subscribed(p, topic[p]) /\ topicToRoom[topic[p]] = q
        BY <1>0, <2>1, ZenonT(30) DEF MembersBacked
      <3>2. p \in headerParsed /\ p \in Stream \ {s} /\ topic[p] \in Name
        BY <3>1, <1>0, <1>2 DEF Subscribed, TablesOK
      <3>3. p \in headerParsed' /\ verb'[p] = verb[p] /\ topic'[p] = topic[p]
        BY <3>2, <1>1, <1>2
      <3>4. topicToRoom'[topic[p]] = topicToRoom[topic[p]] /\ topicToRoom[topic[p]] # Sentinel
        BY <3>1, <3>2, <1>5 DEF Subscribed
      <3>5. Subscribed(p, topic[p])'
        BY <3>1, <3>3, <3>4 DEF Subscribed
      <3>6. QED
        BY <3>1, <3>3, <3>4, <3>5, <1>2
    <2>2. CASE q = r /\ c = Owner[s] /\ topicToRoom'[n] = r
      <3>1. Subscribed(s, topic[s])'
        BY <2>2, <1>1, <1>2, <1>6, SentinelNotRoom DEF Subscribed
      <3>2. QED
        BY <2>2, <3>1, <1>2
    <2>3. QED
      BY <2>1, <2>2, <1>5, <1>6
  <1>7. MembersBacked'
    BY <1>6, ZenonT(30) DEF MembersBacked
  <1>8. QED
    BY <1>4, <1>7 DEF MembersInv

\* Closing the streams `S' of a connection takes it out of the rooms they
\* subscribed to.
LEMMA CleanupMembers ==
  ASSUME MembersInv, BridgeInv', NEW c \in Conn, NEW S \in SUBSET open,
         \A s \in S : Owner[s] = c, Cleanup(c, S), Erase(S)
  PROVE  MembersInv'
  <1>0. TablesOK /\ TablesOK' /\ FlagsMatchVerb
    BY DEF MembersInv, BridgeInv
  <1>1. /\ open' = open \ S /\ headerParsed' = headerParsed \ S
        /\ isPub' = isPub \ S /\ isZonePub' = isZonePub \ S
        /\ \A s \in Stream \ S : topic'[s] = topic[s] /\ verb'[s] = verb[s]
        /\ topicToRoom' = topicToRoom
    BY DEF Erase
  <1>2. FlagsMatchVerb'
    BY <1>0, <1>1 DEF FlagsMatchVerb
  <1>3. ASSUME NEW r \in Room, NEW d \in members'[r]
        PROVE  \E p \in open' : /\ Owner[p] = d
                                /\ Subscribed(p, topic[p])'
                                /\ topicToRoom'[topic'[p]] = r
    <2>1. /\ d \in members[r]
          /\ (\E s \in Leaving(S) : topicToRoom[topic[s]] = r) => d # c
      <3>1. members'[r] = IF \E s \in Leaving(S) : topicToRoom[topic[s]] = r
                          THEN members[r] \ {c} ELSE members[r]
        BY DEF Cleanup
      <3>2. QED
        BY <1>3, <3>1
    <2>2. PICK p \in open : /\ Owner[p] = d
                            /\ Subscribed(p, topic[p]) /\ topicToRoom[topic[p]] = r
      BY <2>1 DEF MembersInv, MembersBacked
    <2>3. p \notin S
      <3>1. SUFFICES ASSUME p \in S PROVE FALSE
        OBVIOUS
      <3>2. p \in Stream /\ p \notin isZonePub /\ p \notin isPub
        BY <1>0, <2>2 DEF FlagsMatchVerb, Subscribed, TablesOK
      <3>3. p \in Leaving(S)
        BY <3>1, <3>2, <2>2 DEF Leaving, Subscribed
      <3>4. QED
        BY <3>1, <3>3, <2>1, <2>2
    <2>4. /\ p \in open' /\ p \in headerParsed'
          /\ topic'[p] = topic[p] /\ verb'[p] = verb[p] /\ topicToRoom' = topicToRoom
      BY <2>2, <2>3, <1>0, <1>1 DEF Subscribed, TablesOK
    <2>5. Subscribed(p, topic[p])'
      BY <2>2, <2>4 DEF Subscribed
    <2>6. QED
      BY <2>2, <2>4, <2>5
  <1>4. MembersBacked'
    BY <1>3, ZenonT(30) DEF MembersBacked
  <1>5. QED
    BY <1>2, <1>4 DEF MembersInv

\* With one verb per stream every callback keeps the members backed.
LEMMA MembersStep == ~Mixed /\ MembersInv /\ [Next]_vars => MembersInv'
  <1> SUFFICES ASSUME ~Mixed, MembersInv, [Next]_vars PROVE MembersInv'
    OBVIOUS
  <1>0. /\ BridgeInv /\ BridgeInv' /\ TablesOK /\ TablesOK' /\ FlagsMatchVerb
        /\ \A t \in Topic : t \in Name
        /\ Pos \in Name
        /\ \A s \in Stream : Owner[s] \in Conn
        /\ {"SUB", "PUB", "SKB", "ZPB", "???"} \subseteq Verb
    BY BridgeStep, FanoutAssumption DEF MembersInv, BridgeInv, Name, Verb
  <1>1. ASSUME headerParsed' = headerParsed, topic' = topic, verb' = verb,
               topicToRoom' = topicToRoom, members' = members,
               open \subseteq open', isPub' = isPub, isZonePub' = isZonePub
        PROVE  MembersInv'
    <2>1. FlagsMatchVerb'
      BY <1>0, <1>1 DEF FlagsMatchVerb
    <2>2. MembersBacked'
      BY <1>0, <1>1, BackingKept
    <2>3. QED
      BY <1>0, <2>1, <2>2 DEF MembersInv
  <1>2. CASE UNCHANGED vars
    BY <1>1, <1>2 DEF vars, parser, tables, client
  <1>3. ASSUME NEW c \in Conn, Connect(c) PROVE MembersInv'
    BY <1>1, <1>3 DEF Connect, parser, tables, client
  <1>4. ASSUME NEW c \in Conn, CloseConn(c) PROVE MembersInv'
    BY <1>0, <1>4, CleanupMembers DEF CloseConn
  <1>5. ASSUME NEW s \in Stream, CloseStream(s) PROVE MembersInv'
    BY <1>0, <1>5, CleanupMembers DEF CloseStream
  <1>6. ASSUME NEW s \in Stream, Partial(s) PROVE MembersInv'
    BY <1>1, <1>6 DEF Partial, parser, tables, client
  <1>7. ASSUME NEW s \in Stream, HeaderZone(s) PROVE MembersInv'
    BY <1>0, <1>7, PlainHeaderMembers DEF HeaderZone
  <1>8. ASSUME NEW s \in Stream, HeaderZoneMalformed(s) PROVE MembersInv'
    BY <1>0, <1>8, PlainHeaderMembers DEF HeaderZoneMalformed, tables
  <1>9. ASSUME NEW s \in Stream, HeaderNoSpace(s) PROVE MembersInv'
    BY <1>1, <1>9 DEF HeaderNoSpace, parser, tables
  <1>10. ASSUME NEW s \in Stream, PayloadPub(s) PROVE MembersInv'
    <2>1. /\ s \in isPub /\ headerParsed' = headerParsed \ {s} /\ open' = open
          /\ isPub' = isPub /\ isZonePub' = isZonePub /\ topic' = topic
          /\ members' = members /\ verb' = verb /\ s \in headerParsed
      BY <1>10 DEF PayloadPub
    <2>2. PICK r \in GetOrCreateRoom(topic[s]) :
             topicToRoom' = [topicToRoom EXCEPT ![topic[s]] = r]
      BY <1>10 DEF PayloadPub
    <2>3. topic[s] \in Name /\ RoomsDistinct
      BY <1>0, <2>1 DEF TablesOK, BridgeInv
    <2>4. \A k \in Name : topicToRoom[k] # Sentinel => topicToRoom'[k] = topicToRoom[k]
      BY <1>0, <2>2, <2>3, StoreRoom
    <2>5. verb[s] = "PUB"
      BY <1>0, <2>1 DEF FlagsMatchVerb
    <2>6. FlagsMatchVerb'
      BY <1>0, <2>1 DEF FlagsMatchVerb
    <2>7. MembersBacked'
      BY <1>0, <2>1, <2>4, <2>5, BackingKept
    <2>8. QED
      BY <1>0, <2>6, <2>7 DEF MembersInv
  <1>11. ASSUME NEW s \in Stream, PayloadZone(s) PROVE MembersInv'
    <2>1. /\ s \in isZonePub /\ headerParsed' = headerParsed \ {s} /\ open' = open
          /\ isPub' = isPub /\ isZonePub' = isZonePub /\ topic' = topic
          /\ members' = members /\ verb' = verb /\ topicToRoom' = topicToRoom
      BY <1>11 DEF PayloadZone, tables
    <2>2. verb[s] = "ZPB"
      BY <1>0, <2>1 DEF FlagsMatchVerb
    <2>3. FlagsMatchVerb'
      BY <1>0, <2>1 DEF FlagsMatchVerb
    <2>4. MembersBacked'
      BY <1>0, <2>1, <2>2, BackingKept
    <2>5. QED
      BY <1>0, <2>3, <2>4 DEF MembersInv
  <1>12. ASSUME NEW s \in Stream, SketchCorrupt(s) PROVE MembersInv'
    BY <1>1, <1>12 DEF SketchCorrupt, tables
  <1>13. ASSUME NEW s \in Stream, NEW t \in Topic, HeaderSub(s, t) PROVE MembersInv'
    <2>1. PICK r \in GetOrCreateRoom(t) : Join(s, r)
      BY <1>13 DEF HeaderSub
    <2>2. QED
      BY <1>0, <1>13, <2>1, JoiningHeaderMembers DEF HeaderSub
  <1>14. ASSUME NEW s \in Stream, NEW t \in Topic, HeaderPub(s, t) PROVE MembersInv'
    BY <1>0, <1>14, PlainHeaderMembers DEF HeaderPub, tables
  <1>15. ASSUME NEW s \in Stream, NEW t \in Topic, HeaderSketch(s, t) PROVE MembersInv'
    <2>1. PICK r \in GetOrCreateRoom(t) : Join(s, r)
      BY <1>15 DEF HeaderSketch
    <2>2. QED
      BY <1>0, <1>15, <2>1, JoiningHeaderMembers DEF HeaderSketch
  <1>16. ASSUME NEW s \in Stream, NEW t \in Topic, HeaderUnknown(s, t) PROVE MembersInv'
    BY <1>0, <1>16, PlainHeaderMembers DEF HeaderUnknown, tables
  <1>17. ASSUME NEW s \in Stream, NEW f \in Frame, SketchFrame(s, f) PROVE MembersInv'
    BY <1>1, <1>17 DEF SketchFrame, parser, tables, client
  <1>18. QED
    BY <1>2, <1>3, <1>4, <1>5, <1>6, <1>7, <1>8, <1>9, <1>10, <1>11, <1>12, <1>13,
       <1>14, <1>15, <1>16, <1>17 DEF Next

\* When every client uses one verb per stream, malformed headers included,
\* cleanupStream leaves no ghost member: every member of a room has an open
\* SUB or SKB stream for the room's topic.
THEOREM MembersAlwaysBacked == ASSUME ~Mixed PROVE Spec => []MembersBacked
  <1>1. Init => MembersInv
    BY BridgeInit DEF Init, MembersInv, FlagsMatchVerb, MembersBacked
  <1>2. MembersInv /\ [Next]_vars => MembersInv'
    BY MembersStep
  <1>3. MembersInv => MembersBacked
    BY DEF MembersInv
  <1>4. QED
    BY <1>1, <1>2, <1>3, PTL DEF Spec
=============================================================================
