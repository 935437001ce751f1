---------------------------- MODULE MCRouterLink ----------------------------
(* Two routers, and daemons that announce a route by one gateway, a route  *)
(* by two, the default route, and withdraw one.                            *)
EXTENDS RouterLink

MCIds == {1, 2}
Change(kind, dst, gateway, mhops) ==
    [kind |-> kind, dst |-> dst, mask |-> 24, gateway |-> gateway, mhops |-> mhops]
MCRouteChanges == {Change("NEWROUTE", 12, 3, <<>>), Change("NEWROUTE", 16, 0, <<4, 5>>)}
OneChange == {Change("NEWROUTE", 12, 3, <<>>)}
OtherChanges == {Change("NEWROUTE", 16, 0, <<4, 5>>), Change("DELROUTE", 12, 3, <<>>),
                 Change("NEWROUTE", 0, 3, <<>>)}
-----------------------------------------------------------------------------
(* The constants of this module give streams that arrive a send() at a     *)
(* time at least; here TCP cuts them anywhere.                             *)
Parts == INSTANCE RouterLink WITH
    RouteChanges <- OneChange, MaxSends <- 1, MaxClock <- 0, Split <- TRUE

VARIABLE tcp

LinkInit == Init /\ tcp \in {"whole", "parts"}
LinkNext == \/ tcp = "whole" /\ Next /\ UNCHANGED tcp
            \/ tcp = "parts" /\ Parts!Next /\ UNCHANGED tcp

(* Fairness of RouterLink, for streams that EveryMessageHandled is about.  *)
LinkSpec ==
    /\ LinkInit /\ [][LinkNext]_<<vars, tcp>>
    /\ <>[](tcp = "whole" /\ queue # <<>>) => []<><<HandleRouterIn>>_vars
    /\ \A c \in 1..Cardinality(Ids) :
         <>[](tcp = "whole" /\ c \in DOMAIN conns /\ wire[conns[c]] # <<>>)
           => []<><<c \in DOMAIN conns /\ DataArrives(c)>>_vars

(* A router is given the messages its helper sent and no others, each once *)
(* (HandledWasSent), from streams that TCP does not cut within a send().   *)
WholeHandledWasSent == tcp = "whole" => HandledWasSent

(* Every message that came in one piece is handled in the end, and its     *)
(* route is in the table of its router (EveryMessageHandled).              *)
WholeHandled ==
    \A r \in Ids : <>[](tcp = "whole" => /\ Len(handled[r]) = Len(sent[r])
                                        /\ RoutesOf(sent[r]) \subseteq Range(fib[r]))
=============================================================================
