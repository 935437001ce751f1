----------------------------- MODULE MCFlowTable -----------------------------
(***************************************************************************)
(* FlowTable with three matches over two bits: one for each bit alone, and *)
(* one for both, so that mini tables overlap and one match covers another. *)
(***************************************************************************)
EXTENDS FlowTable

MCBits == {1, 2}

MCMatches == {[key |-> {1}, mask |-> {1}],
              [key |-> {}, mask |-> {2}],
              [key |-> {1}, mask |-> {1, 2}]}
=============================================================================
