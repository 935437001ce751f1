---------------------------- MODULE JsonTopology ----------------------------
(***************************************************************************)
(* A topology read from a file (from_json of net/topology.c): the user     *)
(* writes the datapaths and the links, and the program reads the file.     *)
(***************************************************************************)
EXTENDS Topology

CONSTANTS
    Dpids,      \* the datapaths of the file, as they are written (digits)
    PortTexts,  \* the ports of links
    Values,     \* delays and bandwidths
    Keys,       \* the keys a link may have in its file
    MaxLinks

VARIABLES file, topo, state
vars == <<file, topo, state>>

Init == file = [dps |-> <<>>, links |-> <<>>] /\ topo = topology_new /\ state = "writing"

WriteDatapath(d) ==
    /\ state = "writing" /\ file.links = <<>> /\ \A i \in DOMAIN file.dps : file.dps[i] # d
    /\ file' = [file EXCEPT !.dps = Append(@, d)]
    /\ UNCHANGED <<topo, state>>

(* The numbers of a link in the order of its keys; a port has one link.    *)
EndUsed(x, p) == \E i \in DOMAIN file.links :
    LET l == file.links[i]
    IN  (l[1].number = x /\ l[3].number = p) \/ (l[2].number = x /\ l[4].number = p)

WriteLink(keys, x, y, px, py, d, b) ==
    /\ state = "writing" /\ Len(file.links) < MaxLinks
    /\ <<x, px>> # <<y, py>> /\ ~EndUsed(x, px) /\ ~EndUsed(y, py)
    /\ LET numbers == <<x, y, px, py, d, b>>
       IN  file' = [file EXCEPT !.links =
                      Append(@, [k \in DOMAIN keys |-> [key |-> keys[k], number |-> numbers[k]]])]
    /\ UNCHANGED <<topo, state>>

(* from_json: the program exits, or has the topology.                      *)
FromJson ==
    /\ state = "writing" /\ file.dps # <<>>
    /\ LET parsed == parse_topology(file)
       IN  IF parsed = {} THEN state' = "exited" /\ UNCHANGED topo
           ELSE /\ state' = "read"
                /\ topo' = topology_from_ptopo(0, CHOOSE p \in parsed : TRUE)
    /\ UNCHANGED file

Next ==
    \/ \E d \in Dpids : WriteDatapath(d)
    \/ \E keys \in Keys, x, y \in Dpids, px, py \in PortTexts, d, b \in Values :
         WriteLink(keys, x, y, px, py, d, b)
    \/ FromJson

Spec == Init /\ [][Next]_vars

-----------------------------------------------------------------------------
(* The datapaths of the file are 1 to n. *)
Numbered == {parse_number(file.dps[i]) : i \in DOMAIN file.dps} = 1..Len(file.dps)

(* The topology is wired as the file says: from the datapath of one end of *)
(* a link the next hop is the datapath of the other, both ways.  (A link   *)
(* is entered by dpid where the uuid is asked for; this holds for files    *)
(* whose datapaths are 1 to n.)                                            *)
WiredAsWritten ==
    state = "read" /\ Numbered =>
      \A i \in DOMAIN file.links :
        LET l == LinkSpec(file.links[i])
            at(dpid, port) == {<<u, port>> : u \in topology_datapath_by_dpid(topo, dpid)}
            hop(end) == {h.end : h \in topology_next_hop(topo, end)}
        IN /\ \A e \in at(l.switchX, l.portX) : hop(e) = at(l.switchY, l.portY)
           /\ \A e \in at(l.switchY, l.portY) : hop(e) = at(l.switchX, l.portX)

(* The latency of a link is the delay that the file gives ("Latency in     *)
(* microseconds").                                                         *)
LatencyIsDelay ==
    state = "read" /\ Numbered =>
      \A i \in DOMAIN file.links :
        LET l == LinkSpec(file.links[i])
        IN  \A h \in topology_next_hop(topo, <<l.switchX, l.portX>>) : h.latency = l.delay
=============================================================================
