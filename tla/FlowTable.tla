------------------------------ MODULE FlowTable ------------------------------
(***************************************************************************)
(* One flow table of a datapath (src/src/net/flow_table.c).  The table is  *)
(* a list of mini flow tables, one for each mask; a mini flow table is a   *)
(* hash from the masked key to the flows with that key.                    *)
(*                                                                         *)
(* A key or a mask is a struct of fields that the code only ever compares  *)
(* for equality and combines with &.  Here it is the set of the bits that  *)
(* are set in it, so that & is intersection and a mask can cover a field   *)
(* in part.                                                                *)
(*                                                                         *)
(* uthash keeps the flows of a hash in the order in which they were added  *)
(* (HASH_ITER), accepts several with one key, and finds the one added last *)
(* (it is first in its bucket, until a bucket of ten or more is split).    *)
(* So the flows of a mini table are a sequence.                            *)
(*                                                                         *)
(* Time is in seconds.  It is an argument of every operation, the start    *)
(* time of the flow that is looked up or the time of the message, and may  *)
(* go back from one call to the next.                                      *)
(***************************************************************************)
EXTENDS Lists

CONSTANTS
    Bits,           \* the bits of struct ofl_flow_key
    Matches,        \* matches of flow mods: records of a key and a mask
    Priorities, Timeouts, Instructions,
    MaxTime,        \* bound: the latest time of an operation
    MaxFlows        \* bound: how many flows the table holds

ASSUME ConstantsAssumption ==
    /\ Matches \subseteq [key : SUBSET Bits, mask : SUBSET Bits]
    /\ Priorities \subseteq Nat /\ Timeouts \subseteq Nat
    /\ MaxTime \in Nat /\ MaxFlows \in Nat

VARIABLE ft         \* ft->flows

Time == 0..MaxTime

Flow == [key : SUBSET Bits, mask : SUBSET Bits, priority : Priorities,
         hard_timeout : Timeouts, idle_timeout : Timeouts,
         remove_at : Nat, last_used : Nat, insts : Instructions]

MiniTable == [mask : SUBSET Bits, flows : Seq(Flow)]

(* What unpack_flow_mod leaves in the struct flow of a flow mod.           *)
FlowMod ==
    {[key |-> m.key, mask |-> m.mask, priority |-> p, hard_timeout |-> h,
      idle_timeout |-> i, remove_at |-> 0, last_used |-> 0, insts |-> a] :
        m \in Matches, p \in Priorities, h \in Timeouts, i \in Timeouts,
        a \in Instructions}

(* The part of it that commands other than an addition read.               *)
Command ==
    {[key |-> m.key, mask |-> m.mask, priority |-> p, insts |-> a] :
        m \in Matches, p \in Priorities, a \in Instructions}

-----------------------------------------------------------------------------
apply_all_mask(key, mask) == key \intersect mask

(* The position of the flow that HASH_FIND returns, or 0.                  *)
Find(flows, key) ==
    LET same == {n \in DOMAIN flows : flows[n].key = key}
    IN  IF same = {} THEN 0 ELSE CHOOSE n \in same : \A k \in same : k <= n

(* The test of flow_table_del_expired.                                     *)
Expired(f, time) ==
    \/ f.hard_timeout # 0 /\ f.remove_at < time
    \/ f.idle_timeout # 0 /\ f.last_used + f.idle_timeout < time

(* flow_table_del_flow takes a mini table that becomes empty off the list. *)
DropEmpty(t) == Kept(t, {n \in DOMAIN t : t[n].flows # <<>>})

(* The flows of each mini table n become flows[n].                         *)
SetFlows(t, flows) ==
    DropEmpty([n \in DOMAIN t |-> [mask |-> t[n].mask, flows |-> flows[n]]])

(* The flows of the mini table n alone become flows.                       *)
SetFlowsOf(t, n, flows) ==
    SetFlows(t, [i \in DOMAIN t |-> IF i = n THEN flows ELSE t[i].flows])

(* flows without the one at the position k.                                *)
DelFlow(flows, k) == Kept(flows, DOMAIN flows \ {k})

-----------------------------------------------------------------------------
(* flow_table_lookup: the position in the list of the mini table whose hit *)
(* is returned, or 0.                                                      *)
Hit(m, key) == Find(m.flows, apply_all_mask(key, m.mask))

IsLiveHit(m, key, time) ==
    Hit(m, key) # 0 /\ ~Expired(m.flows[Hit(m, key)], time)

(* A bug: cur_priority is never raised, and the last hit wins.             *)
WinnerLast(t, key, time) ==
    LET hits == {n \in DOMAIN t : IsLiveHit(t[n], key, time)}
    IN  IF hits = {} THEN 0 ELSE CHOOSE n \in hits : \A k \in hits : k <= n

Winner(t, key, time) ==
    LET hits == {n \in DOMAIN t : IsLiveHit(t[n], key, time)}
        priority(n) == t[n].flows[Hit(t[n], key)].priority
    IN  IF hits = {} THEN 0
        ELSE CHOOSE n \in hits :
               \A k \in hits : \/ priority(k) < priority(n)
                               \/ priority(k) = priority(n) /\ n <= k

(* The flow it returns, as a set with at most one element.                 *)
LookupResult(t, key, time) ==
    LET n == Winner(t, key, time)
    IN  IF n = 0 THEN {} ELSE {t[n].flows[Hit(t[n], key)]}

(* The table it leaves: the flow that is returned is marked as used, and   *)
(* every hit that has expired is deleted.                                  *)
flow_table_lookup(t, key, time) ==
    LET left(n) ==
          LET flows == t[n].flows
              hit == Hit(t[n], key)
          IN  IF n = Winner(t, key, time) THEN [flows EXCEPT ![hit].last_used = time]
              ELSE IF hit # 0 /\ Expired(flows[hit], time) THEN DelFlow(flows, hit)
              ELSE flows
    IN  SetFlows(t, [n \in DOMAIN t |-> left(n)])

(* add_flow puts the flow in the mini table of its mask, or in a new one.  *)
add_flow(t, f, time) ==
    LET new == [f EXCEPT !.remove_at = f.hard_timeout + time,
                         !.last_used = time]
        add(m) == IF m.mask = f.mask THEN Append(m.flows, new) ELSE m.flows
    IN  IF \E n \in DOMAIN t : t[n].mask = f.mask
        THEN SetFlows(t, [n \in DOMAIN t |-> add(t[n])])
        ELSE Append(t, [mask |-> f.mask, flows |-> <<new>>])

(* match_strict, and the test of the priority that both its callers make:  *)
(* the mini table in which the flow found is the one that f names, as a    *)
(* set with at most one element.  The first table with the mask ends the   *)
(* search.                                                                 *)
StrictHit(t, f) ==
    {n \in DOMAIN t :
        /\ t[n].mask = f.mask /\ \A i \in 1..(n - 1) : t[i].mask # f.mask
        /\ Find(t[n].flows, f.key) # 0
        /\ t[n].flows[Find(t[n].flows, f.key)].priority = f.priority}

mod_flow_strict(t, f, time) ==
    IF StrictHit(t, f) = {} THEN t
    ELSE LET n == CHOOSE n \in StrictHit(t, f) : TRUE
             flows == t[n].flows
             k == Find(flows, f.key)
         IN  SetFlowsOf(t, n, IF Expired(flows[k], time) THEN DelFlow(flows, k)
                              ELSE [flows EXCEPT ![k].insts = f.insts])

(* Whether or not the flow has expired, it is deleted.                     *)
del_flow_strict(t, f) ==
    IF StrictHit(t, f) = {} THEN t
    ELSE LET n == CHOOSE n \in StrictHit(t, f) : TRUE
         IN  SetFlowsOf(t, n, DelFlow(t[n].flows, Find(t[n].flows, f.key)))

(* A bug: the masks are not compared, and a bit that g does not match on   *)
(* counts as zero.                                                         *)
CoversAnyMask(key, mask, m, g) == apply_all_mask(g.key, mask) = key

(* is_flow_non_strict_in_mft and match_non_strict: g, a flow of the mini   *)
(* table m, is one that the match (key, mask) covers.                      *)
Covers(key, mask, m, g) ==
    /\ apply_all_mask(m.mask, mask) = mask
    /\ apply_all_mask(g.key, mask) = key

(* A bug: the flows are deleted whether or not they have expired.          *)
PurgeLive(key, mask, m, time) ==
    Kept(m.flows, {k \in DOMAIN m.flows : ~Covers(key, mask, m, m.flows[k])})

(* The flows of m without the ones that the match covers and have expired. *)
Purge(key, mask, m, time) ==
    Kept(m.flows, {k \in DOMAIN m.flows :
                      ~(Covers(key, mask, m, m.flows[k]) /\ Expired(m.flows[k], time))})

mod_flow_non_strict(t, f, time) ==
    LET modify(m) ==
          LET left == Purge(f.key, f.mask, m, time)
          IN  [k \in DOMAIN left |->
                  IF Covers(f.key, f.mask, m, left[k])
                  THEN [left[k] EXCEPT !.insts = f.insts] ELSE left[k]]
    IN  SetFlows(t, [n \in DOMAIN t |-> modify(t[n])])

del_flow_non_strict(t, f) ==
    LET left(m) == Kept(m.flows, {k \in DOMAIN m.flows :
                                     ~Covers(f.key, f.mask, m, m.flows[k])})
    IN  SetFlows(t, [n \in DOMAIN t |-> left(t[n])])

(* flow_table_stats deletes the expired flows it meets; the flows it       *)
(* reports are the ones that the match covers in what is left.             *)
flow_table_stats(t, key, mask, time) ==
    SetFlows(t, [n \in DOMAIN t |-> Purge(key, mask, t[n], time)])

-----------------------------------------------------------------------------
Flows(t) == Joined([n \in DOMAIN t |-> t[n].flows])

Init == ft = <<>>

Lookup == \E key \in SUBSET Bits, time \in Time :
              ft' = flow_table_lookup(ft, key, time)

(* The operations of dp_handle_flow_mod.                                   *)
Add == /\ Len(Flows(ft)) < MaxFlows
       /\ \E f \in FlowMod, time \in Time : ft' = add_flow(ft, f, time)

ModifyStrict == \E f \in Command, time \in Time :
                    ft' = mod_flow_strict(ft, f, time)

Modify == \E f \in Command, time \in Time :
              ft' = mod_flow_non_strict(ft, f, time)

DeleteStrict == \E f \in Command : ft' = del_flow_strict(ft, f)

Delete == \E f \in Command : ft' = del_flow_non_strict(ft, f)

(* dp_handle_flow_stats_req and dp_handle_aggregate_stats_req clear the    *)
(* request after they unpack it, so that the match covers every flow.      *)
Stats == \E time \in Time : ft' = flow_table_stats(ft, {}, {}, time)

Next == Lookup \/ Add \/ ModifyStrict \/ Modify \/ DeleteStrict \/ Delete \/ Stats

Spec == Init /\ [][Next]_ft

-----------------------------------------------------------------------------
(* Every mini table is what add_flow and the lookups take it for.          *)
TypeOK == ft \in Seq(MiniTable)

(* "Mini flow tables are hash maps that contain only one combination of    *)
(* match fields" (flow_table.h:17): a mask has one mini table, with only   *)
(* flows of that mask and at least one of them.                            *)
OneTablePerMask ==
    /\ \A n, k \in DOMAIN ft : ft[n].mask = ft[k].mask => n = k
    /\ \A n \in DOMAIN ft :
          /\ ft[n].flows # <<>>
          /\ \A k \in DOMAIN ft[n].flows : ft[n].flows[k].mask = ft[n].mask

(* g has the match of f: the same key under the same mask.                 *)
SameMatch(f, g) == f.key = g.key /\ f.mask = g.mask

MatchesPacket(f, key) == f.key = apply_all_mask(key, f.mask)

(* What flow_table_lookup promises although it looks at one flow of each   *)
(* mini table: the flow it returns matches, has not expired, and any       *)
(* better flow that matches and has not expired is one that a later flow   *)
(* with the same match hides; without a result, that holds for all.        *)
LookupBest ==
    \A key \in SUBSET Bits, time \in Time :
        LET res == LookupResult(ft, key, time)
        IN  /\ \A f \in res : MatchesPacket(f, key) /\ ~Expired(f, time)
            /\ \A n \in DOMAIN ft : \A k \in DOMAIN ft[n].flows :
                  LET g == ft[n].flows[k]
                  IN  \/ ~MatchesPacket(g, key) \/ Expired(g, time)
                      \/ \E f \in res : g.priority <= f.priority
                      \/ \E j \in DOMAIN ft[n].flows :
                            k < j /\ SameMatch(g, ft[n].flows[j])

(* Looking up, modifying and counting flows delete no flow before one of   *)
(* its timeouts has passed, keep the order of the others, and leave no     *)
(* trace of a deleted one.                                                 *)
LiveNames(q, time) ==
    Joined([k \in DOMAIN q |->
               IF Expired(q[k], time) THEN <<>>
               ELSE <<[key |-> q[k].key, mask |-> q[k].mask,
                       priority |-> q[k].priority, remove_at |-> q[k].remove_at]>>])

LosesOnlyExpired(new, time) == LiveNames(Flows(new), time) = LiveNames(Flows(ft), time)

OnlyExpiredDeleted ==
    \A time \in Time :
        /\ \A key \in SUBSET Bits :
              LosesOnlyExpired(flow_table_lookup(ft, key, time), time)
        /\ \A f \in Command :
              /\ LosesOnlyExpired(mod_flow_strict(ft, f, time), time)
              /\ LosesOnlyExpired(mod_flow_non_strict(ft, f, time), time)
        /\ LosesOnlyExpired(flow_table_stats(ft, {}, {}, time), time)

(* g is a flow whose match is at least as specific as the one of f.        *)
Inside(f, g) == f.mask \subseteq g.mask /\ g.key \intersect f.mask = f.key

(* The flows that a non-strict delete should leave of q, and a modify.     *)
Undeleted(f, q) ==
    Joined([k \in DOMAIN q |-> IF Inside(f, q[k]) THEN <<>> ELSE <<q[k]>>])

Modified(f, q, time) ==
    Joined([k \in DOMAIN q |->
               IF ~Inside(f, q[k]) THEN <<q[k]>>
               ELSE IF Expired(q[k], time) THEN <<>>
               ELSE <<[q[k] EXCEPT !.insts = f.insts]>>])

(* A non-strict delete takes exactly the flows whose match is at least as  *)
(* specific as the one given, whatever mini tables they are in, and a      *)
(* non-strict modify changes exactly those that have not expired.          *)
NonStrictExact ==
    \A f \in Command :
        /\ Flows(del_flow_non_strict(ft, f)) = Undeleted(f, Flows(ft))
        /\ \A time \in Time :
              Flows(mod_flow_non_strict(ft, f, time)) = Modified(f, Flows(ft), time)

(* "Must return the flow with highest priority" (flow_table_test.c:71).    *)
LookupHighestPriority ==
    \A key \in SUBSET Bits, time \in Time :
        \A f \in LookupResult(ft, key, time), n \in DOMAIN Flows(ft) :
            LET g == Flows(ft)[n]
            IN  MatchesPacket(g, key) /\ ~Expired(g, time)
                  => g.priority <= f.priority

(* "if flow in the hash table and equal priority / delete flow"            *)
(* (flow_table.c:304): a strict delete takes a flow with the match and the *)
(* priority given, when there is one.                                      *)
DeleteStrictFinds ==
    \A f \in Command :
        (\E n \in DOMAIN Flows(ft) : /\ SameMatch(f, Flows(ft)[n])
                                     /\ Flows(ft)[n].priority = f.priority)
            => del_flow_strict(ft, f) # ft
=============================================================================
