------------------------------- MODULE Rollup -------------------------------
(* What a delegate makes of the atlas of its node (RollupAggregator) and what the  *)
(* console makes of the rollups of several delegates (mergeRollups).             *)
EXTENDS Naturals, FiniteSets, SequencesExt, TLC

CONSTANTS Node, FreshWindow

ASSUME RollupAssumption == FreshWindow \in Nat

(* An atlas has one entry for each node the delegate's node has heard of. *)
AtlasEntry == [node : Node, infer : BOOLEAN, runningJobs : Nat, lastSeen : Nat]

Role == {"worker", "idle", "router", "offline"}

NodeView == [node : Node, runningJobs : Nat, lastSeen : Nat, role : Role, delivered : BOOLEAN]

RoleOf(e) == CASE e.lastSeen > FreshWindow      -> "offline"
               [] e.lastSeen <= FreshWindow /\ e.infer /\ e.runningJobs > 0 -> "worker"
               [] e.lastSeen <= FreshWindow /\ e.infer /\ e.runningJobs = 0 -> "idle"
               [] e.lastSeen <= FreshWindow /\ ~e.infer -> "router"

Classify(e, delivered) == [node |-> e.node, runningJobs |-> e.runningJobs,
                           lastSeen |-> e.lastSeen, role |-> RoleOf(e), delivered |-> delivered]

EmptyRollup == [total |-> 0, by |-> [x \in Role |-> 0], runningJobs |-> 0, nodes |-> {}]

(* One turn of the loop over the atlas. *)
Count(out, v) ==
    [total |-> out.total + 1,
     by |-> [out.by EXCEPT ![v.role] = @ + 1],
     runningJobs |-> out.runningJobs + IF v.role = "worker" THEN v.runningJobs ELSE 0,
     nodes |-> out.nodes \union {v}]

(* The history of the nodes in "flaky" could not be read; they are listed all the same. *)
RollupOf(atlas, flaky) ==
    FoldSet(LAMBDA e, out : Count(out, Classify(e, e.node \notin flaky)), EmptyRollup, atlas)

-----------------------------------------------------------------------------
Put(byId, v) == [n \in DOMAIN byId \union {v.node} |-> IF n = v.node THEN v ELSE byId[n]]

KeepLatestBug(byId, v) == Put(byId, v)               \* the last delegate to answer wins

(* An earlier part keeps a node unless a later one has heard of it more recently. *)
Keep(byId, v) == IF v.node \in DOMAIN byId /\ byId[v.node].lastSeen <= v.lastSeen
                 THEN byId
                 ELSE Put(byId, v)

KeepAll(byId, views) == FoldSet(LAMBDA v, m : Keep(m, v), byId, views)

ById(parts) == FoldLeft(LAMBDA byId, p : KeepAll(byId, p.nodes), [n \in {} |-> n], parts)

Tally(views) == FoldSet(LAMBDA v, out : Count(out, v), EmptyRollup, views)

(* Counted again from the nodes that are left: one may appear under two delegates. *)
MergeRollups(parts) == Tally(Range(ById(parts)))

Jobs(views) == MapThenSumSet(LAMBDA v : v.runningJobs, views)

(* What a rollup of these atlas entries should say: each node once, as the one who  *)
(* heard of it last saw it, and counters that agree with the list.                *)
Reflects(r, entries) ==
    /\ {v.node : v \in r.nodes} = {e.node : e \in entries}
    /\ Cardinality(r.nodes) = Cardinality({e.node : e \in entries})
    /\ \A v \in r.nodes : /\ \E e \in entries : v \in {Classify(e, d) : d \in BOOLEAN}
                          /\ \A e \in entries : e.node = v.node => v.lastSeen <= e.lastSeen
    /\ r.total = Cardinality(r.nodes)
    /\ \A x \in Role : r.by[x] = Cardinality({v \in r.nodes : v.role = x})
    /\ r.runningJobs = Jobs({v \in r.nodes : v.role = "worker"})
=============================================================================
