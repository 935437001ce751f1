------------------------------ MODULE BgpPeer ------------------------------
(***************************************************************************)
(* The Python BGP peer of a simulated router: the thread that takes the    *)
(* lines of exabgp and handles one BGP message after the other, with the   *)
(* three routing tables of rib.py.  An exception of Python ends the        *)
(* thread: `dead`.                                                         *)
(*                                                                         *)
(* The peer's other thread handles BGP_ANNOUNCE of the simulator, which    *)
(* router_handle_control_message never sends (src/net/router.c:203): the   *)
(* thread waits forever and takes no step here.                            *)
(***************************************************************************)
EXTENDS BgpDecision

CONSTANTS
    Neighbors,    \* addresses of the neighbors, numbers
    Nets,
    asn,          \* conf["asn"]
    AllowAsIn,    \* conf["allowas_in"]
    MaxPaths,     \* conf["max_paths"]; NoMax is null
    NoMax,
    Attributes,   \* the as_path and med a neighbor may send: Attributes[n]
    MaxUpdates    \* bound on the updates received

ASSUME PeerAssumption ==
    /\ Neighbors \subseteq Nat
    /\ \A n \in Neighbors : \A a \in Attributes[n] :
          a.as_path \in Seq(Nat) /\ a.as_path # <<>> /\ a.med \in Nat
    /\ MaxPaths \in Nat \union {NoMax} /\ NoMax \notin Nat

VARIABLES
    neighbors_up,
    input,        \* input[n][p]: the set of at most one route
    local,        \* local[p]: the routes in use, the best first; empty: no key
    output,       \* output[p]: the route announced to the neighbors, as local
    told,         \* the announcements written to exabgp
    fib,          \* the routes sent to the simulator in a BGPFIBMsg
    dead,
    updates       \* updates received

vars == <<neighbors_up, input, local, output, told, fib, dead, updates>>

Init ==
    /\ neighbors_up = {}
    /\ input = [n \in Neighbors |-> [p \in Nets |-> {}]]
    /\ local = [p \in Nets |-> <<>>]
    /\ output = [p \in Nets |-> <<>>]
    /\ told = {} /\ fib = {} /\ dead = FALSE /\ updates = 0

bgp_routes_are_equal(a, b) == a.next_hop = b.next_hop /\ a.as_path = b.as_path

(* What the decision made of the local routes of a prefix, the routes it   *)
(* returned for the FIB message, whether it returned a list where a route  *)
(* is expected, and whether it raised.                                     *)
Local(l, sent, nested, raised) ==
    [local |-> l, sent |-> sent, nested |-> nested, raised |-> raised]

(* rib.update and rib.drop for a new best route that ties with the old.    *)
Prefer(routes, new) ==
    IF MaxPaths \in {NoMax, 0} THEN <<new>>
    ELSE IF Len(routes) + 1 <= MaxPaths THEN <<new>> \o routes
    ELSE SubSeq(<<new>> \o routes, 1, Len(routes))

(* A tie that the old route wins.                                          *)
KeepBehind(routes, r) ==
    IF Len(routes) + 1 <= MaxPaths THEN Local(Append(routes, r), {r}, FALSE, FALSE)
    ELSE Local(routes, {}, FALSE, FALSE)

(* decision_process_local for the announced route r of a prefix.  A route  *)
(* that wins outright is returned as the list it is stored in; with        *)
(* max_paths null, a tie that the old route wins compares a number with    *)
(* None and raises.                                                        *)
decision_process_local(routes, r) ==
    IF routes = <<>> THEN Local(<<r>>, {r}, FALSE, FALSE)
    ELSE LET cur == routes[1]
             sel == best_path_selection(<<r, cur>>)
             new == IF sel.tie THEN lowest_router_id(sel.routes) ELSE sel.routes[Len(sel.routes)]
             changed == ~bgp_routes_are_equal(new, cur)
         IN  CASE ~sel.tie /\ changed -> Local(<<new>>, {}, TRUE, FALSE)
               [] ~sel.tie /\ ~changed -> Local(routes, {}, FALSE, FALSE)
               [] sel.tie /\ changed -> Local(Prefer(routes, new), {new}, FALSE, FALSE)
               [] sel.tie /\ ~changed /\ MaxPaths = NoMax -> Local(routes, {}, FALSE, TRUE)
               [] OTHER -> KeepBehind(routes, r)

(* bgp_update_peers for a prefix of an announcement of n, after the        *)
(* decision made l of its local routes.                                    *)
Changed(l, out) == out = <<>> \/ ~bgp_routes_are_equal(l[1], out[1])

(* A bug: the neighbor that sent the route is told of it. *)
announce_route_All(n, p, best) ==
    {[to |-> m, prefix |-> p, path |-> <<asn>> \o best.as_path, route |-> best] :
        m \in neighbors_up}

announce_route(n, p, best) ==
    {[to |-> m, prefix |-> p, path |-> <<asn>> \o best.as_path, route |-> best] :
        m \in neighbors_up \ {n}}

-----------------------------------------------------------------------------
(* A session: exabgp opens it before any update and reports its end.       *)
SessionUp(n) ==
    /\ ~dead /\ n \notin neighbors_up
    /\ neighbors_up' = neighbors_up \union {n}
    /\ UNCHANGED <<input, local, output, told, fib, dead, updates>>

(* The routes of the neighbor stay where they are.                         *)
SessionDown(n) ==
    /\ ~dead /\ n \in neighbors_up
    /\ neighbors_up' = neighbors_up \ {n}
    /\ UNCHANGED <<input, local, output, told, fib, dead, updates>>

LoopDetected(path) == ~AllowAsIn /\ \E k \in DOMAIN path : path[k] = asn

(* A bug: output keeps the first route announced. *)
StoreOutput_Once(l, out) == IF out = <<>> THEN <<l[1]>> ELSE out

StoreOutput(l, out) == IF Changed(l, out) THEN <<l[1]>> ELSE out

(* An announcement of the prefixes ps, all with the attributes a.  The     *)
(* local routes of all of them are decided, in some order, before the FIB  *)
(* message is packed and the neighbors are told: an exception of the       *)
(* decision or of pack() ends the thread with the tables as they are.      *)
Announce(n, ps, a) ==
    LET route(p) == [prefix |-> p, neighbor |-> n, next_hop |-> n,
                     as_path |-> a.as_path, med |-> a.med]
        dec == [p \in ps |-> decision_process_local(local[p], route(p))]
        raising == {p \in ps : dec[p].raised}
        stops == \E p \in ps : dec[p].raised \/ dec[p].nested
    IN  /\ ~dead /\ n \in neighbors_up /\ updates < MaxUpdates
        /\ updates' = updates + 1
        /\ IF LoopDetected(a.as_path)
           THEN UNCHANGED <<input, local, output, told, fib, dead>>
           ELSE /\ input' = [input EXCEPT ![n] =
                                [p \in Nets |-> IF p \in ps THEN {route(p)} ELSE @[p]]]
                /\ \E decided \in SUBSET (ps \ raising) :
                      /\ raising = {} => decided = ps
                      /\ local' = [p \in Nets |->
                                     IF p \in decided THEN dec[p].local ELSE local[p]]
                /\ dead' = stops
                /\ fib' = fib \union IF stops THEN {} ELSE UNION {dec[p].sent : p \in ps}
                /\ output' = [p \in Nets |-> IF p \in ps /\ ~stops
                                  THEN StoreOutput(local'[p], output[p]) ELSE output[p]]
                /\ told' = told \union IF stops THEN {}
                     ELSE UNION {announce_route(n, p, local'[p][1]) :
                                    p \in {q \in ps : Changed(local'[q], output[q])}}
        /\ UNCHANGED neighbors_up

(* A withdrawal of the prefixes ps.  For one that the neighbor had         *)
(* announced, a route, which is a tuple, is indexed with a string.         *)
Withdraw(n, ps) ==
    /\ ~dead /\ n \in neighbors_up /\ updates < MaxUpdates
    /\ updates' = updates + 1
    /\ input' = [input EXCEPT ![n] = [p \in Nets |-> IF p \in ps THEN {} ELSE @[p]]]
    /\ dead' = (\E p \in ps : input[n][p] # {} /\ local[p] # <<>>)
    /\ UNCHANGED <<neighbors_up, local, output, told, fib>>

Next ==
    \E n \in Neighbors :
        \/ SessionUp(n)
        \/ SessionDown(n)
        \/ \E ps \in SUBSET Nets \ {{}} :
              \/ \E a \in Attributes[n] : Announce(n, ps, a)
              \/ Withdraw(n, ps)

Spec == Init /\ [][Next]_vars
-----------------------------------------------------------------------------
(* A route was announced by a neighbor and not yet withdrawn or replaced.  *)
Offered(r) == r \in input[r.neighbor][r.prefix]

(* While the thread runs, the route in output is the best one of local:    *)
(* what bgp_update_peers last told the neighbors is what is in use.        *)
OutputFollowsLocal ==
    ~dead => \A p \in Nets :
                /\ local[p] = <<>> <=> output[p] = <<>>
                /\ local[p] # <<>> => bgp_routes_are_equal(local[p][1], output[p][1])

(* No neighbor offers a route that is better than the one in use, though   *)
(* an announcement is compared with the best route only and not with the   *)
(* routes of input.                                                        *)
BestInUse ==
    ~dead => \A p \in Nets, n \in Neighbors :
                \A r \in input[n][p] : ~(Len(r.as_path) < Len(local[p][1].as_path))

(* The routes that share the traffic of a prefix have AS paths of one      *)
(* length, and max_paths bounds how many they are.                         *)
SharedEqually ==
    \A p \in Nets :
        /\ \A i, j \in DOMAIN local[p] : Len(local[p][i].as_path) = Len(local[p][j].as_path)
        /\ Len(local[p]) <= IF MaxPaths \in {NoMax, 0} THEN 1 ELSE MaxPaths

(* A neighbor is never told of a route that it sent itself, although the   *)
(* sender that bgp_update_peers leaves out is that of the update and not   *)
(* that of the best route.                                                 *)
NotToldBack == \A t \in told : t.to # t.route.neighbor

(* A path that is announced has the peer's AS at its head only.            *)
LoopFree == ~AllowAsIn => \A t \in told : \A k \in 2..Len(t.path) : t.path[k] # asn

(* Every route that carries traffic was sent to the simulator.             *)
FibHasLocal ==
    ~dead => \A p \in Nets : \A k \in DOMAIN local[p] : local[p][k] \in fib

(* The best route is stored in output and announced whenever it changed,   *)
(* as bgp_update_peers says, with or without an exception on the way.      *)
BestStored ==
    \A p \in Nets : local[p] # <<>> =>
        output[p] # <<>> /\ bgp_routes_are_equal(local[p][1], output[p][1])

(* After a withdrawal the best route is no longer one that its neighbor    *)
(* withdrew: input has a route of that neighbor for the prefix.            *)
NoWithdrawnBest ==
    \A p \in Nets : local[p] # <<>> => input[local[p][1].neighbor][p] # {}

(* The decision made after input was updated leaves a best route that      *)
(* input has.                                                              *)
BestStillOffered ==
    ~dead => \A p \in Nets : local[p] # <<>> => Offered(local[p][1])

(* A neighbor whose session comes up late is told of the routes that       *)
(* should be propagated: those of output that it did not send.             *)
LateNeighborTold ==
    ~dead => \A n \in neighbors_up, p \in Nets :
        output[p] # <<>> /\ output[p][1].neighbor # n =>
            \E t \in told : t.to = n /\ t.prefix = p

(* The several paths that max_paths allows for are different paths.        *)
PathsDiffer ==
    \A p \in Nets : \A i, j \in DOMAIN local[p] :
        bgp_routes_are_equal(local[p][i], local[p][j]) => i = j

(* An announcement that changes no route in use does not end the thread:   *)
(* on a tie that the old route wins, the new one is put behind it if       *)
(* max_paths is enabled, and left alone otherwise.  A withdrawal is not    *)
(* meant here.                                                             *)
TieSurvived ==
    [][dead' /\ ~dead => \/ local' # local
                         \/ \E n \in Neighbors, p \in Nets :
                               input[n][p] # {} /\ input'[n][p] = {}]_vars
=============================================================================
