------------------------------- MODULE Fanout -------------------------------
(***************************************************************************)
(* The stream bridge of the fanout server                                  *)
(* (flow/examples/picoquic_fanout_server.actor.cpp): what                  *)
(* fanoutStreamCallback does with the bytes of SUB, PUB, SKB and ZPB       *)
(* streams.  picoquic calls it from one reactor thread, so each callback   *)
(* is one step.                                                            *)
(*                                                                         *)
(* A member of Stream stands for one (cnx, stream id) pair and Owner[s]    *)
(* for its cnx.  A connection that closes may connect again: connIdOf is   *)
(* the address of the picoquic_cnx_t, which the allocator reuses.  Bytes   *)
(* are abstracted to the units the parser acts on: a header line, a        *)
(* 100-byte payload, a sketch frame.  Bytes that complete no unit only     *)
(* create the StreamState (Partial).  A FIN that carries data is the data  *)
(* callback followed by CloseStream.                                       *)
(*                                                                         *)
(* The Lean cores behind the FFI are external: fanout-core keeps the       *)
(* room members and the zone entities, sketch-core the accepted frames.    *)
(***************************************************************************)
EXTENDS Integers

CONSTANTS Conn,          \* addresses of picoquic_cnx_t objects
          Stream,        \* (cnx, stream id) pairs
          Owner,         \* the cnx of each stream
          Topic,         \* topic names
          Pos,           \* the text of a ZPB position; not a topic
          Frame,         \* CSP1 sketch packets
          RoomCapacity,  \* the capacity fanout_init was given
          None,          \* absence of a stream, name or verb
          Mixed,         \* a client may use several verbs on one stream
          MultiSub,      \* a connection may hold several receiving streams
          Malformed      \* a client may send malformed headers

\* The verbs of header lines; "???" stands for one the server does not know.
Verb == {"SUB", "PUB", "SKB", "ZPB", "???"}

ASSUME FanoutAssumption ==
    /\ Owner \in [Stream -> Conn]
    /\ Pos \notin Topic
    /\ None \notin Stream /\ None \notin Topic \cup {Pos} /\ None \notin Verb
    /\ RoomCapacity \in Nat
    /\ Mixed \in BOOLEAN /\ MultiSub \in BOOLEAN /\ Malformed \in BOOLEAN

VARIABLES
    live,          \* connections picoquic has open
    open,          \* BridgeState.streams: streams with a StreamState
    headerParsed, isPub, isSketch, isZonePub,    \* flags of StreamState
    topic, roomId,                               \* fields of StreamState
    corrupt,       \* streams whose buf starts with an oversized frame length
    topicToRoom,   \* BridgeState.topicToRoom, Sentinel where absent
    delivery,      \* BridgeState.delivery
    members,       \* fanout-core: the connections subscribed to each room
    entities,      \* fanout-core: the connections with an entity in a zone
    history,       \* sketch-core: the accepted frames of each room
    verb,          \* client: the first verb it used on the stream
    expect,        \* client: the unit it sends next on the stream
    seen,          \* history: frames the client of the stream knows
    last           \* history: what the latest step published, and to whom

parser == <<headerParsed, isPub, isSketch, isZonePub, topic, roomId, corrupt>>
tables == <<topicToRoom, delivery, members>>
client == <<verb, expect>>
vars   == <<live, open, parser, tables, entities, history, client, seen, last>>

Room     == 0 .. RoomCapacity - 1
Sentinel == RoomCapacity
Name     == Topic \cup {Pos}

Quiet == [kind |-> "none", stream |-> None, to |-> {}]

-----------------------------------------------------------------------------
(* Room table and fanout-core                                              *)

\* What fanout_alloc_room may return: a room no topic has, or the sentinel.
AllocRoom ==
    LET free == {r \in Room : \A n \in Name : topicToRoom[n] # r}
    IN  IF free = {} THEN {Sentinel} ELSE free

\* The rooms getOrCreateRoom may return for a name.
GetOrCreateRoom(n) ==
    IF topicToRoom[n] # Sentinel THEN {topicToRoom[n]} ELSE AllocRoom

\* fanout_pub_targets followed by the lookup in `delivery': the streams a
\* message from `s' to the connections `targets' is written to.
Written(s, targets) ==
    {delivery[c] : c \in {d \in targets \ {Owner[s]} : delivery[d] # None}}

-----------------------------------------------------------------------------
(* What a client sends.  A client that keeps to the protocol uses one verb *)
(* per stream; the constants relax that.                                   *)

Receives(v) == v \in {"SUB", "SKB", "ZPB"}

MaySend(s, v) ==
    /\ Owner[s] \in live
    /\ expect[s] = "header"
    /\ verb[s] \in {None, v} \/ Mixed
    /\ \/ MultiSub \/ ~Receives(v)
       \/ \A q \in open \ {s} : Owner[q] = Owner[s] => ~Receives(verb[q])

Sent(s, v, next) ==
    /\ verb' = [verb EXCEPT ![s] = IF @ = None THEN v ELSE @]
    /\ expect' = [expect EXCEPT ![s] = next]

-----------------------------------------------------------------------------
(* Callbacks                                                               *)

Connect(c) ==
    /\ c \notin live
    /\ live' = live \cup {c}
    /\ last' = Quiet
    /\ UNCHANGED <<open, parser, tables, entities, history, client, seen>>

\* Data that completes no unit: `streams[cnx][streamId]' is created.
Partial(s) ==
    /\ Owner[s] \in live /\ s \notin open
    /\ open' = open \cup {s}
    /\ last' = Quiet
    /\ UNCHANGED <<live, parser, tables, entities, history, client, seen>>

\* A complete header line with a space in it: pumpStream stores the rest of
\* the line and marks the header parsed before it looks at the verb.
Header(s, n) ==
    /\ s \notin headerParsed
    /\ open' = open \cup {s}
    /\ headerParsed' = headerParsed \cup {s}
    /\ topic' = [topic EXCEPT ![s] = n]
    /\ last' = Quiet
    /\ UNCHANGED <<live, corrupt>>

\* handleSub once getOrCreateRoom has answered `r': an early return when
\* there is no room, else the delivery stream and the subscription.
Join(s, r) ==
    IF r = Sentinel
    THEN UNCHANGED tables
    ELSE /\ topicToRoom' = [topicToRoom EXCEPT ![topic'[s]] = r]
         /\ delivery' = [delivery EXCEPT ![Owner[s]] = s]
         /\ members' = [members EXCEPT ![r] = @ \cup {Owner[s]}]

HeaderSub(s, t) ==
    /\ MaySend(s, "SUB")
    /\ Header(s, t)
    /\ isPub' = isPub \ {s}
    /\ \E r \in GetOrCreateRoom(t) : Join(s, r)
    /\ Sent(s, "SUB", "nothing")
    /\ UNCHANGED <<isSketch, isZonePub, roomId, entities, history, seen>>

HeaderPub(s, t) ==
    /\ MaySend(s, "PUB")
    /\ Header(s, t)
    /\ isPub' = isPub \cup {s}
    /\ Sent(s, "PUB", "payload")
    /\ UNCHANGED <<isSketch, isZonePub, roomId, tables, entities, history,
                   seen>>

\* Faulty handleSketchSub: a late joiner gets no history.
ReplayNothing(r) == {}

\* The frames handleSketchSub replays to a stream that joined room `r'.
Replay(r) == IF r = Sentinel THEN {} ELSE history[r]

\* The roomId of an SKB stream; without a room the early return leaves the
\* field's initial 0.
SketchRoom(s, r) == IF r = Sentinel THEN roomId[s] ELSE r

\* SKB: join as SUB does, then replay the accepted history on the stream.
HeaderSketch(s, t) ==
    /\ MaySend(s, "SKB")
    /\ Header(s, t)
    /\ isSketch' = isSketch \cup {s}
    /\ \E r \in GetOrCreateRoom(t) :
          /\ Join(s, r)
          /\ roomId' = [roomId EXCEPT ![s] = SketchRoom(s, r)]
          /\ seen' = [seen EXCEPT ![s] = @ \cup Replay(r)]
    /\ Sent(s, "SKB", "frames")
    /\ UNCHANGED <<isPub, isZonePub, entities, history>>

HeaderZone(s) ==
    /\ MaySend(s, "ZPB")
    /\ Header(s, Pos)
    /\ isZonePub' = isZonePub \cup {s}
    /\ delivery' = [delivery EXCEPT ![Owner[s]] = s]
    /\ Sent(s, "ZPB", "payload")
    /\ UNCHANGED <<isPub, isSketch, roomId, topicToRoom, members, entities,
                   history, seen>>

\* ZPB whose six numbers do not parse.  The client goes on to its payload.
HeaderZoneMalformed(s) ==
    /\ Malformed
    /\ MaySend(s, "ZPB")
    /\ Header(s, Pos)
    /\ Sent(s, "ZPB", "payload")
    /\ UNCHANGED <<isPub, isSketch, isZonePub, roomId, tables, entities,
                   history, seen>>

\* A verb the server does not know.
HeaderUnknown(s, t) ==
    /\ Malformed
    /\ MaySend(s, "???")
    /\ Header(s, t)
    /\ Sent(s, "???", "nothing")
    /\ UNCHANGED <<isPub, isSketch, isZonePub, roomId, tables, entities,
                   history, seen>>

\* A header line without a space is consumed and leaves the flags alone.
HeaderNoSpace(s) ==
    /\ Malformed
    /\ Owner[s] \in live /\ expect[s] = "header" /\ s \notin headerParsed
    /\ open' = open \cup {s}
    /\ last' = Quiet
    /\ UNCHANGED <<live, parser, tables, entities, history, verb, expect, seen>>

\* A complete payload on a stream whose flags say PUB: handlePub, then the
\* parser waits for a fresh header.
PayloadPub(s) ==
    /\ expect[s] = "payload" /\ s \in headerParsed
    /\ s \notin isSketch /\ s \in isPub
    /\ \E r \in GetOrCreateRoom(topic[s]) :
          /\ topicToRoom' = [topicToRoom EXCEPT ![topic[s]] = r]
          /\ last' = [kind |-> "pub", stream |-> s,
                      to |-> IF r = Sentinel THEN {} ELSE Written(s, members[r])]
    /\ headerParsed' = headerParsed \ {s}
    /\ expect' = [expect EXCEPT ![s] = "header"]
    /\ UNCHANGED <<live, open, isPub, isSketch, isZonePub, topic, roomId, corrupt,
                   delivery, members, entities, history, verb, seen>>

\* A complete payload on a stream whose flags say ZPB: the sender's entity
\* moves, then the payload goes to whichever entities fanout_zone_targets
\* names.
PayloadZone(s) ==
    /\ expect[s] = "payload" /\ s \in headerParsed
    /\ s \notin isSketch /\ s \notin isPub /\ s \in isZonePub
    /\ entities' = entities \cup {Owner[s]}
    /\ \E targets \in SUBSET entities :
          last' = [kind |-> "zone", stream |-> s, to |-> Written(s, targets)]
    /\ headerParsed' = headerParsed \ {s}
    /\ expect' = [expect EXCEPT ![s] = "header"]
    /\ UNCHANGED <<live, open, isPub, isSketch, isZonePub, topic, roomId, corrupt,
                   tables, history, verb, seen>>

\* A fresh sketch frame: accepted into the room's history and relayed.
\* Frames the core rejects, duplicates included, change nothing.
SketchFrame(s, f) ==
    LET to == Written(s, members[roomId[s]])
    IN  /\ expect[s] = "frames" /\ s \in headerParsed /\ s \in isSketch
        /\ s \notin corrupt
        /\ roomId[s] \in Room /\ f \notin history[roomId[s]]
        /\ history' = [history EXCEPT ![roomId[s]] = @ \cup {f}]
        /\ seen' = [q \in Stream |->
                       IF q \in to \cup {s} THEN seen[q] \cup {f} ELSE seen[q]]
        /\ last' = [kind |-> "frame", stream |-> s, to |-> to]
        /\ UNCHANGED <<live, open, parser, tables, entities, client>>

\* A frame length above kMaxSketchFrame stays at the head of the buffer.
SketchCorrupt(s) ==
    /\ Malformed
    /\ expect[s] = "frames" /\ s \in headerParsed /\ s \in isSketch
    /\ corrupt' = corrupt \cup {s}
    /\ last' = Quiet
    /\ UNCHANGED <<live, open, headerParsed, isPub, isSketch, isZonePub, topic,
                   roomId, tables, entities, history, verb, expect, seen>>

\* Faulty cleanupStream: the delivery entry survives its stream.
KeepDelivery(c, S) == delivery' = delivery

\* cleanupStream, first part: forget the delivery stream if it is closing.
DropDelivery(c, S) ==
    delivery' = [delivery EXCEPT ![c] = IF @ \in S THEN None ELSE @]

\* cleanupStream of a ZPB stream: fanout_entity_remove.
DropEntity(c, S) ==
    entities' = IF S \cap isZonePub = {} THEN entities ELSE entities \ {c}

\* Faulty cleanupStream: the test of isPub is missing.
LeavingAny(S) == {s \in S : s \in headerParsed \ isZonePub}

\* Faulty cleanupStream: only SKB streams unsubscribe.
LeavingSketch(S) == {s \in S : s \in (headerParsed \cap isSketch)}

\* The streams of `S' that cleanupStream unsubscribes from their topic.
Leaving(S) == {s \in S : s \in headerParsed \ (isZonePub \cup isPub)}

\* cleanupStream for the streams `S' of connection `c'.
Cleanup(c, S) ==
    /\ DropDelivery(c, S)
    /\ DropEntity(c, S)
    /\ members' = [r \in Room |->
                      IF \E s \in Leaving(S) : topicToRoom[topic[s]] = r
                      THEN members[r] \ {c} ELSE members[r]]

\* The StreamStates of `S' are erased.
Erase(S) ==
    /\ open' = open \ S
    /\ headerParsed' = headerParsed \ S
    /\ isPub' = isPub \ S /\ isSketch' = isSketch \ S /\ isZonePub' = isZonePub \ S
    /\ corrupt' = corrupt \ S
    /\ topic' = [s \in Stream |-> IF s \in S THEN None ELSE topic[s]]
    /\ roomId' = [s \in Stream |-> IF s \in S THEN 0 ELSE roomId[s]]
    /\ verb' = [s \in Stream |-> IF s \in S THEN None ELSE verb[s]]
    /\ expect' = [s \in Stream |-> IF s \in S THEN "header" ELSE expect[s]]
    /\ seen' = [s \in Stream |-> IF s \in S THEN {} ELSE seen[s]]
    /\ last' = Quiet
    /\ UNCHANGED <<topicToRoom, history>>

\* picoquic_callback_stream_fin and picoquic_callback_stream_reset.
CloseStream(s) ==
    /\ s \in open
    /\ Cleanup(Owner[s], {s})
    /\ Erase({s})
    /\ UNCHANGED live

\* picoquic_callback_close, from the peer or from the idle timeout.
CloseConn(c) ==
    /\ c \in live
    /\ live' = live \ {c}
    /\ Cleanup(c, {s \in open : Owner[s] = c})
    /\ Erase({s \in open : Owner[s] = c})

-----------------------------------------------------------------------------
Init ==
    /\ live = {} /\ open = {}
    /\ headerParsed = {} /\ isPub = {} /\ isSketch = {} /\ isZonePub = {}
    /\ topic = [s \in Stream |-> None]
    /\ roomId = [s \in Stream |-> 0]
    /\ corrupt = {}
    /\ topicToRoom = [n \in Name |-> Sentinel]
    /\ delivery = [c \in Conn |-> None]
    /\ members = [r \in Room |-> {}]
    /\ entities = {}
    /\ history = [r \in Room |-> {}]
    /\ verb = [s \in Stream |-> None]
    /\ expect = [s \in Stream |-> "header"]
    /\ seen = [s \in Stream |-> {}]
    /\ last = Quiet

Next ==
    \/ \E c \in Conn : Connect(c) \/ CloseConn(c)
    \/ \E s \in Stream :
          \/ Partial(s) \/ HeaderZone(s) \/ HeaderZoneMalformed(s)
          \/ HeaderNoSpace(s) \/ PayloadPub(s) \/ PayloadZone(s)
          \/ SketchCorrupt(s) \/ CloseStream(s)
    \/ \E s \in Stream, t \in Topic :
          \/ HeaderSub(s, t) \/ HeaderPub(s, t) \/ HeaderSketch(s, t)
          \/ HeaderUnknown(s, t)
    \/ \E s \in Stream, f \in Frame : SketchFrame(s, f)

Spec == Init /\ [][Next]_vars

-----------------------------------------------------------------------------
(* Properties                                                              *)

\* Every variable keeps its type.
TypeOK ==
    /\ live \subseteq Conn /\ entities \subseteq Conn
    /\ open \subseteq Stream /\ headerParsed \subseteq open
    /\ isPub \subseteq open /\ isSketch \subseteq open /\ isZonePub \subseteq open
    /\ corrupt \subseteq open
    /\ topic \in [Stream -> Name \cup {None}]
    /\ roomId \in [Stream -> Nat]
    /\ topicToRoom \in [Name -> Room \cup {Sentinel}]
    /\ delivery \in [Conn -> Stream \cup {None}]
    /\ members \in [Room -> SUBSET Conn]
    /\ history \in [Room -> SUBSET Frame]
    /\ verb \in [Stream -> Verb \cup {None}]
    /\ expect \in [Stream -> {"header", "payload", "frames", "nothing"}]
    /\ seen \in [Stream -> SUBSET Frame]
    /\ last.to \subseteq Stream

\* No write to a dead stream: a delivery entry always names an open stream of
\* a live connection, whatever the clients send, so handlePub, handleZonePub
\* and handleSketchFrame never pass picoquic a freed cnx.
DeliveryOpen ==
    \A c \in Conn : delivery[c] # None =>
        /\ c \in live
        /\ delivery[c] \in open
        /\ Owner[delivery[c]] = c

\* No ghost entities: an entity in the zone table belongs to a live
\* connection that still has an open ZPB stream, whatever the clients send.
EntityBacked ==
    \A c \in entities : c \in live /\ \E s \in isZonePub : Owner[s] = c

\* Two topics never share a room: getOrCreateRoom keeps PUB traffic of
\* different topics apart.
RoomsDistinct ==
    \A n, k \in Name :
        topicToRoom[n] = topicToRoom[k] /\ topicToRoom[n] # Sentinel => n = k

Subscribed(s, n) ==
    /\ s \in headerParsed /\ verb[s] \in {"SUB", "SKB"}
    /\ topic[s] = n /\ topicToRoom[n] # Sentinel

\* No ghost members: when a stream carries one verb, a connection in a room
\* has an open SUB or SKB stream for the room's topic, so a connection whose
\* address is reused never inherits a subscription.
MembersBacked ==
    \A r \in Room : \A c \in members[r] :
        \E s \in open : /\ Owner[s] = c
                         /\ Subscribed(s, topic[s]) /\ topicToRoom[topic[s]] = r

\* A PUB step writes to every subscribed stream of the other connections.
Reaches ==
    last'.kind = "pub" =>
        LET p == last'.stream IN
        \A s \in Stream : Subscribed(s, topic[p]) /\ Owner[s] # Owner[p] => s \in last'.to

\* "A subscriber receives each PUB payload verbatim, pushed back on the same
\* bidirectional stream it sent its SUB on": every PUB is written to every
\* stream of another connection that is subscribed to its topic.
SubscriberReached == [][Reaches]_vars

\* "a late joiner converges to the same graph as everyone who was present
\* from the start": the client of an SKB stream that joined a room knows
\* exactly the frames the room accepted, through replay and relay.
SketchConverges ==
    \A s \in headerParsed \cap isSketch :
        topicToRoom[topic[s]] # Sentinel => seen[s] = history[topicToRoom[topic[s]]]

\* An accepted frame "should be relayed to the room's subscribers": frames
\* reach only streams of the topic their sender named in its SKB header.
FramesStayInTopic ==
    last.kind = "frame" => \A s \in last.to : topic[s] = topic[last.stream]

=============================================================================
