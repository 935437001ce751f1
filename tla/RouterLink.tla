----------------------------- MODULE RouterLink -----------------------------
(***************************************************************************)
(* How routes come from the routing daemons to the simulated routers: the  *)
(* helper process in the namespace of a router (horse_daemon.c), the       *)
(* message format (routing_msg/routing_msg.c), the server (sim/server.c),  *)
(* the framing of its streams (sim/conn_manager.c), the event queue and    *)
(* router_handle_control_message (net/router.c).                           *)
(*                                                                         *)
(* A stream is a sequence of words of 4 bytes, each a pair of 16-bit       *)
(* halves.  TCP hands the server the next segments of a stream, each one   *)
(* send() of the helper, or, with Split, any part of one.                  *)
(***************************************************************************)
EXTENDS Scheduler, SequencesExt, FiniteSets

CONSTANTS
    Ids,          \* the router ids of the topology, which the helpers are given
    RouteChanges, \* netlink messages: kind, dst, mask, gateway (0: none), mhops
    MaxSends,     \* bound on the messages a helper sends
    MaxClock,     \* bound on the clock
    Split         \* whether TCP may cut a send() in parts

VARIABLES
    helper,       \* state of the process: "off", "running" or "gone"
    conns,        \* s->connections: conn_id -> router id of the peer
    wire,         \* the segments on their way
    sent,         \* the messages that were sent
    pos, header,  \* the static variables of conn_manager_router_message_cb
    queue,        \* sch->ev_queue
    clock,        \* sch->clock
    handled,      \* what router_handle_control_message was given and unpacked
    fib           \* the routes fib_add has put in the table of a router

vars == <<helper, conns, wire, sent, pos, header, queue, clock, handled, fib>>

-----------------------------------------------------------------------------
(* routing_msg.h and routing_msg.c.                                        *)
HEADER_LEN == 8
ROUTER_ACTIVITY == 0
ROUTER_FIB == 1

(* A bug: no rounding. *)
ROUND_UP_None(x, y) == x

ROUND_UP(x, y) == ((x + (y - 1)) \div y) * y

U32(x) == <<0, x>>
Undefined == <<-1, -1>>
NoHeader == <<U32(0), U32(0)>>

Header(type, size, router_id) == <<<<type, size>>, U32(router_id)>>

(* The size leaves out the padding at the end.                             *)
send_next_hop(router_id, c, hop) ==
    Header(ROUTER_FIB, HEADER_LEN + 12, router_id)
      \o <<U32(c.dst), U32(c.mask), U32(hop), U32(0)>>

send_activity(router_id) == Header(ROUTER_ACTIVITY, HEADER_LEN, router_id)

(* A message as routing_msg_unpack and fib_add see it: the entries of 12   *)
(* bytes that the size has room for, in the data after the header.         *)
routing_msg_unpack(data) ==
    LET size == data[1][2]
        entries == IF size < HEADER_LEN THEN 0 ELSE (size - HEADER_LEN) \div 12
        word(i) == IF i <= Len(data) THEN data[i] ELSE Undefined
    IN  [type |-> data[1][1], router_id |-> data[2][2],
         routes |-> IF data[1][1] # ROUTER_FIB THEN <<>>
                    ELSE [i \in 1..entries |-> [k \in 1..3 |-> word(2 + 3 * (i - 1) + k)]]]

-----------------------------------------------------------------------------
(* The gateways of a netlink message that loop sends: the attributes of a  *)
(* multipath route are those of its first next hop.  A deletion and the    *)
(* default route are not sent.                                             *)
Hops(c) ==
    IF c.kind # "NEWROUTE" \/ c.dst = 0 THEN <<>>
    ELSE (IF c.mhops = <<>> THEN <<>> ELSE <<c.mhops[1]>>)
         \o (IF c.gateway = 0 THEN <<>> ELSE <<c.gateway>>)

Init ==
    /\ helper = [r \in Ids |-> "off"]
    /\ conns = <<>>
    /\ wire = [r \in Ids |-> <<>>] /\ sent = [r \in Ids |-> <<>>]
    /\ pos = 0 /\ header = NoHeader
    /\ queue = <<>> /\ clock = 0
    /\ handled = [r \in Ids |-> <<>>] /\ fib = [r \in Ids |-> <<>>]

(* client_connect and accept_conn_cb; the two threads of the helper start. *)
Connect(r) ==
    /\ helper[r] = "off"
    /\ helper' = [helper EXCEPT ![r] = "running"]
    /\ conns' = Append(conns, r)
    /\ UNCHANGED <<wire, sent, pos, header, queue, clock, handled, fib>>

Send(r, msgs) ==
    /\ helper[r] = "running" /\ Len(sent[r]) + Len(msgs) <= MaxSends
    /\ wire' = [wire EXCEPT ![r] = @ \o msgs]
    /\ sent' = [sent EXCEPT ![r] = @ \o [i \in DOMAIN msgs |-> routing_msg_unpack(msgs[i])]]
    /\ UNCHANGED <<helper, conns, pos, header, queue, clock, handled, fib>>

(* capture_cb sees a packet of a routing protocol (BGP OPEN or UPDATE, or  *)
(* OSPF other than Hello).                                                 *)
Capture(r) == Send(r, <<send_activity(r)>>)

(* loop of route_table_monitor gets a netlink message.                     *)
MonitorRoute(r) ==
    \E c \in RouteChanges :
        Send(r, [i \in DOMAIN Hops(c) |-> send_next_hop(r, c, Hops(c)[i])])

(* The helper is killed or exits; event_cb frees the bufferevent when the  *)
(* stream has ended, and leaves the connection in the table.               *)
HelperExits(r) ==
    /\ helper[r] = "running"
    /\ helper' = [helper EXCEPT ![r] = "gone"]
    /\ UNCHANGED <<conns, wire, sent, pos, header, queue, clock, handled, fib>>

-----------------------------------------------------------------------------
RouterIn(st, c, data) ==
    [st EXCEPT !.queue = scheduler_insert(@,
        [time |-> clock, conn |-> c, router_id |-> st.header[2][2], data |-> data])]

(* A bug: an event for every header, whether a payload follows or not. *)
ReadHeader_Always(st, c) ==
    LET n == IF Len(st.in) < 2 THEN Len(st.in) ELSE 2
        hdr == [i \in 1..2 |-> IF i <= n THEN st.in[i] ELSE U32(0)]
        read == [st EXCEPT !.header = hdr, !.in = SubSeq(@, n + 1, Len(@)), !.n = n]
    IN IF n = 0 THEN read
       ELSE [RouterIn(read, c, hdr) EXCEPT
               !.pos = IF ROUND_UP(hdr[1][2], 8) > HEADER_LEN THEN HEADER_LEN ELSE 0]

ReadHeader(st, c) ==
    LET n == IF Len(st.in) < 2 THEN Len(st.in) ELSE 2
        hdr == [i \in 1..2 |-> IF i <= n THEN st.in[i] ELSE U32(0)]
        read == [st EXCEPT !.header = hdr, !.in = SubSeq(@, n + 1, Len(@)), !.n = n]
    IN IF n = 0 THEN read
       ELSE IF hdr[1][2] = HEADER_LEN THEN RouterIn(read, c, hdr)
       ELSE IF ROUND_UP(hdr[1][2], 8) > HEADER_LEN THEN [read EXCEPT !.pos = HEADER_LEN]
       ELSE read

(* A bug: the position stays when there is no payload to read yet. *)
ReadPayload_Waits(st, c) ==
    LET len == (ROUND_UP(st.header[1][2], 8) - HEADER_LEN) \div 4
        n == IF Len(st.in) < len THEN Len(st.in) ELSE len
        data == st.header \o [i \in 1..len |-> IF i <= n THEN st.in[i] ELSE Undefined]
        read == [st EXCEPT !.in = SubSeq(@, n + 1, Len(@)), !.n = n]
    IN IF n = 0 THEN read ELSE [RouterIn(read, c, data) EXCEPT !.pos = 0]

(* What is not there to read is not waited for: the data is then what the  *)
(* memory held.                                                            *)
ReadPayload(st, c) ==
    LET len == (ROUND_UP(st.header[1][2], 8) - HEADER_LEN) \div 4
        n == IF Len(st.in) < len THEN Len(st.in) ELSE len
        data == st.header \o [i \in 1..len |-> IF i <= n THEN st.in[i] ELSE Undefined]
        read == [st EXCEPT !.in = SubSeq(@, n + 1, Len(@)), !.n = n]
    IN  [RouterIn(read, c, data) EXCEPT !.pos = 0]

RECURSIVE conn_manager_router_message_cb(_, _)
conn_manager_router_message_cb(st, c) ==
    LET next == IF st.pos = 0 THEN ReadHeader(st, c) ELSE ReadPayload(st, c)
    IN  IF next.n = 0 THEN next ELSE conn_manager_router_message_cb(next, c)

(* What the server may read of a stream at a time, and what it leaves.     *)
Arrivals(w) ==
    {[in |-> FlattenSeq(SubSeq(w, 1, n)), rest |-> SubSeq(w, n + 1, Len(w))] : n \in 1..Len(w)}
    \union (IF ~Split \/ w = <<>> THEN {}
            ELSE {[in |-> SubSeq(w[1], 1, k),
                   rest |-> <<SubSeq(w[1], k + 1, Len(w[1]))>> \o Tail(w)] : k \in 1..(Len(w[1]) - 1)})

(* Data arrives on connection c, and the server thread runs the callback.  *)
DataArrives(c) ==
    /\ \E a \in Arrivals(wire[conns[c]]) :
          LET st == conn_manager_router_message_cb(
                      [pos |-> pos, header |-> header, in |-> a.in, n |-> 0, queue |-> queue], c)
          IN /\ pos' = st.pos /\ header' = st.header /\ queue' = st.queue
             /\ wire' = [wire EXCEPT ![conns[c]] = a.rest]
    /\ UNCHANGED <<helper, conns, sent, clock, handled, fib>>

(* handle_router_in and router_handle_control_message; a message for a     *)
(* router that is not found is dropped.                                    *)
HandleRouterIn ==
    /\ queue # <<>>
    /\ LET ev == Head(queue)
           msg == routing_msg_unpack(ev.data)
       IN IF ev.router_id \in Ids
          THEN /\ handled' = [handled EXCEPT ![ev.router_id] = Append(@, msg)]
               /\ fib' = [fib EXCEPT ![ev.router_id] = @ \o msg.routes]
          ELSE UNCHANGED <<handled, fib>>
    /\ queue' = scheduler_dispatch(queue)
    /\ UNCHANGED <<helper, conns, wire, sent, pos, header, clock>>

ClockMoves ==
    /\ clock < MaxClock /\ clock' = clock + 1
    /\ UNCHANGED <<helper, conns, wire, sent, pos, header, queue, handled, fib>>

Next ==
    \/ \E r \in Ids : Connect(r) \/ Capture(r) \/ MonitorRoute(r) \/ HelperExits(r)
    \/ \E c \in DOMAIN conns : DataArrives(c)
    \/ HandleRouterIn
    \/ ClockMoves

(* The server thread and the simulation loop run on, and TCP delivers:     *)
(* weak fairness, with what enables the actions written out.               *)
Fairness ==
    /\ <>[](queue # <<>>) => []<><<HandleRouterIn>>_vars
    /\ \A c \in 1..Cardinality(Ids) :
         <>[](c \in DOMAIN conns /\ wire[conns[c]] # <<>>)
           => []<><<c \in DOMAIN conns /\ DataArrives(c)>>_vars

Spec == Init /\ [][Next]_vars
FairSpec == Spec /\ Fairness

-----------------------------------------------------------------------------
Count(s, m) == Cardinality({i \in DOMAIN s : s[i] = m})

(* A router is given the messages its helper sent and no others, each once *)
(* ("The header size includes the header and payload, excluding trailing   *)
(* padding to an 8-byte boundary").                                        *)
HandledWasSent ==
    \A r \in Ids : \A i \in DOMAIN handled[r] :
        Count(handled[r], handled[r][i]) <= Count(sent[r], handled[r][i])

(* Between two calls of the callback no message is half read: the static   *)
(* variables that all connections share carry nothing from one to another. *)
NothingHalfRead == pos = 0

RoutesOf(msgs) == UNION {Range(msgs[i].routes) : i \in DOMAIN msgs}

(* Every message is handled in the end, also when the helper has exited    *)
(* after it sent it; so every route that a daemon announced gets to the    *)
(* table of its router.                                                    *)
EveryMessageHandled ==
    \A r \in Ids : <>[](/\ Len(handled[r]) = Len(sent[r])
                        /\ RoutesOf(sent[r]) \subseteq Range(fib[r]))
=============================================================================
