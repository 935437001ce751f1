---------------------------- MODULE BgpDecision ----------------------------
(***************************************************************************)
(* The decision process of the Python BGP peer, decision_process.py: a     *)
(* pure function from a list of routes to the routes that remain after the *)
(* AS path and the MED rule.  A route is a record with the neighbor that   *)
(* sent it, its next hop (a number, as ip_to_long makes of an address),    *)
(* its AS path, which every sender begins with its own AS, and its MED.    *)
(***************************************************************************)
EXTENDS Lists, Functions

aspath_length(as_path) == Len(as_path)
get_advertised_as(as_path) == as_path[1]

(* A bug: a route as short as the best so far is left out. *)
KeepShortest_First(best, r) ==
    CASE best = <<>> -> <<r>>
      [] aspath_length(r.as_path) < aspath_length(best[1].as_path) -> <<r>>
      [] OTHER -> best

(* A bug: a longer route is kept. *)
KeepShortest_Longer(best, r) ==
    CASE best = <<>> -> <<r>>
      [] aspath_length(r.as_path) < aspath_length(best[1].as_path) -> <<r>>
      [] OTHER -> Append(best, r)

(* One round of the loop over the routes.                                  *)
KeepShortest(best, r) ==
    CASE best = <<>> -> <<r>>
      [] aspath_length(r.as_path) = aspath_length(best[1].as_path) -> Append(best, r)
      [] aspath_length(r.as_path) < aspath_length(best[1].as_path) -> <<r>>
      [] OTHER -> best

Shortest(routes) ==
    LET best[k \in 0..Len(routes)] ==
          IF k = 0 THEN <<>> ELSE KeepShortest(best[k - 1], routes[k])
    IN  best[Len(routes)]

(* The positions of the routes that an AS advertised.                      *)
FromAs(routes, as) ==
    {k \in 1..Len(routes) : get_advertised_as(routes[k].as_path) = as}

(* The routes of an AS that have the lowest MED of it.                     *)
LowestMed(routes, as) ==
    Kept(routes, {k \in FromAs(routes, as) :
                     \A j \in FromAs(routes, as) : routes[k].med <= routes[j].med})

HighestAs(routes) ==
    CHOOSE as \in {get_advertised_as(routes[k].as_path) : k \in 1..Len(routes)} :
        \A k \in 1..Len(routes) : get_advertised_as(routes[k].as_path) <= as

(* as_list is gone through in ascending order; an AS that is not in it has *)
(* no routes to add.                                                       *)
PostMed(routes) ==
    LET post[as \in 0..HighestAs(routes)] ==
          IF as = 0 THEN LowestMed(routes, 0)
          ELSE post[as - 1] \o LowestMed(routes, as)
    IN  post[HighestAs(routes)]

(* The routes that remain, and whether the rules left more than one.       *)
best_path_selection(routes) ==
    LET best == Shortest(routes)
        post == PostMed(best)
    IN  IF Len(best) = 1 THEN [routes |-> best, tie |-> FALSE]
        ELSE [routes |-> post, tie |-> Len(post) # 1]

(* The positions of the routes with the lowest address.                    *)
LowestHop(routes) ==
    {k \in 1..Len(routes) :
        \A j \in 1..Len(routes) : routes[k].next_hop <= routes[j].next_hop}

lowest_router_id(routes) ==
    routes[CHOOSE k \in LowestHop(routes) : \A j \in LowestHop(routes) : k <= j]

-----------------------------------------------------------------------------
(* The rules as a relation: a is better than b by the AS path or, for      *)
(* routes of one AS, by the MED.                                           *)
Better(a, b) ==
    \/ Len(a.as_path) < Len(b.as_path)
    \/ /\ Len(a.as_path) = Len(b.as_path)
       /\ a.as_path[1] = b.as_path[1]
       /\ a.med < b.med

(* The positions of the routes that no other is better than.               *)
Undominated(routes) ==
    {k \in 1..Len(routes) : \A j \in 1..Len(routes) : ~Better(routes[j], routes[k])}

(* The loops over lists that best_path_selection makes keep exactly the    *)
(* routes that no other is better than, each as often as it was given, and *)
(* report a tie just when more than one remains.                           *)
SelectionRight(routes) ==
    LET sel == best_path_selection(routes)
    IN  /\ \E at \in Bijection(1..Len(sel.routes), Undominated(routes)) :
              \A i \in 1..Len(sel.routes) : sel.routes[i] = routes[at[i]]
        /\ sel.tie <=> Len(sel.routes) > 1
=============================================================================
