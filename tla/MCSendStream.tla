---------------------------- MODULE MCSendStream ----------------------------
(* Two bits of length per byte: a remaining length takes one byte up to 3,    *)
(* two up to 15, three up to 63.  The largest CONNECT has 29 bytes.           *)
EXTENDS SendStream

Conn(id, topic, message, user, password, flags) ==
    [type |-> CONNECT, client_id |-> id, will_topic |-> topic, will_message |-> message,
     user_name |-> user, password |-> password, connect_flags |-> flags, keep_alive |-> 60]

ConnectionSet == {
    Conn(<<97>>, <<>>, <<>>, <<>>, <<>>, 2 + 8 + 32 + 1),     \* bits of a will without one
    Conn(<<>>, <<<<98>>>>, <<<<>>>>, <<<<117>>>>, <<<<112, 113>>>>, 2 + 16),
    Conn(<<>>, <<<<98>>>>, <<>>, <<>>, <<>>, 2) }             \* refused: no message

Topics(type, pid, topics, qos) ==
    [type |-> type, pid |-> pid, topics |-> topics, max_qos |-> qos]

RequestSet == {
    Packet(PUBLISH, 2, 1, <<97>>, <<48>>),
    Packet(PUBLISH, 4, 258, <<97>>, <<>>),
    Packet(PUBLISH, 8, 0, <<97>>, <<49>>),
    Topics(SUBSCRIBE, 3, <<<<97>>>>, <<1>>),
    Topics(SUBSCRIBE, 5, <<<<97>>, <<98>>, <<99>>>>, <<0, 1, 2>>),   \* refused: too many
    Topics(UNSUBSCRIBE, 4, <<<<97>>>>, <<>>),
    Packet(PUBREL, 0, 258, <<>>, <<>>),
    Packet(DISCONNECT, 0, 0, <<>>, <<>>) }
=============================================================================
