------------------------------- MODULE MCBgp -------------------------------
(***************************************************************************)
(* The variable part picks the peer, or its choice of the best path alone. *)
(* Three neighbors of a peer of AS 10.  Neighbor 1 reaches the prefixes by *)
(* a short and by a long path and once through AS 10; neighbors 2 and 3    *)
(* by a short path.  The programs that run the peer send no MED.           *)
(***************************************************************************)
EXTENDS BgpPeer

Path(p) == [as_path |-> p, med |-> 0]

Mixed == [n \in Neighbors |->
            CASE n = 1 -> {Path(<<1, 9>>), Path(<<1, 8, 9>>), Path(<<1, 10, 9>>)}
              [] OTHER -> {Path(<<n, 9>>), Path(<<n, 7, 9>>)}]

Equal == [n \in Neighbors |-> {Path(<<n, 9>>)}]
-----------------------------------------------------------------------------
(* best_path_selection is given every list of up to three routes of two    *)
(* ASes, with short and long paths and two MEDs.                           *)
VARIABLE routes

SomeRoutes == [next_hop : 1..2, as_path : {<<1>>, <<2>>, <<1, 2>>, <<2, 1>>}, med : 0..1]
MaxRoutes == 3

AddRoute == /\ Len(routes) < MaxRoutes
            /\ \E r \in SomeRoutes : routes' = Append(routes, r)

VARIABLE part

PartInit == Init /\ routes = <<>> /\ part \in {"peer", "decision"}
PartNext == \/ part = "peer" /\ Next /\ UNCHANGED <<part, routes>>
            \/ part = "decision" /\ AddRoute /\ UNCHANGED <<part, vars>>

PartSpec == PartInit /\ [][PartNext]_<<vars, routes, part>>

(* Of every list of routes, best_path_selection keeps exactly those that   *)
(* no other is better than.                                                *)
SelectsBest == routes # <<>> => SelectionRight(routes)
=============================================================================
