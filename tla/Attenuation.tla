----------------------------- MODULE Attenuation -----------------------------
(* How a delegate derives a working capability from the one it holds            *)
(* (enroll-service/src/attenuate.rs), and what a host makes of the chain         *)
(* (ce_cap::authorize, a library: modelled from how the code and its tests use   *)
(* it).  An ability list is the set of its members; of the caveats only the      *)
(* expiry is told apart, the others are copied from the parent unchanged.        *)
EXTENDS SaturatingTime, Sequences

CONSTANTS Principal,     \* node ids: the org root, delegates, nodes, hosts
          Ability,
          Tag,
          TagsOf         \* the fleet tags each host carries

ASSUME TagsAssumption == TagsOf \in [Principal -> SUBSET Tag]

(* Option<String>: no tag is the empty set, a tag its singleton. *)
OptionalTag == {{}} \union {{t} : t \in Tag}

(* ce_cap::Resource.  AllOf is the conjunction of some tags. *)
AnyHost == [kind |-> "any", of |-> {}]
HostsTagged(tag) == [kind |-> "tag", of |-> tag]
OneHost(h) == [kind |-> "node", of |-> {h}]
AllOf(tags) == [kind |-> "all", of |-> tags]

Resource == {AnyHost} \union {HostsTagged({t}) : t \in Tag}
            \union {OneHost(h) : h \in Principal} \union {AllOf(ts) : ts \in SUBSET Tag}

(* The hosts a resource names. *)
Covers(resource) == IF resource.kind = "node"
                    THEN resource.of \intersect Principal
                    ELSE {h \in Principal : resource.of \subseteq TagsOf[h]}

Capability == [issuer : Principal, audience : Principal, abilities : SUBSET Ability,
               resource : Resource, notAfter : Time, nonce : Time]

WorkingCapParams == [node : Principal, wantAbilities : SUBSET Ability,
                     tag : OptionalTag, ttl : Time, nonce : Time]

WorkingAbilities(held, want) == want \intersect held

ClampNotAfterBug(parentNotAfter, now, ttl) == SaturatingAdd(now, ttl)

(* An unbounded parent leaves the child its own ttl. *)
ClampNotAfter(parentNotAfter, now, ttl) ==
    LET want == SaturatingAdd(now, ttl) IN
    IF parentNotAfter = NoBound \/ want < parentNotAfter THEN want ELSE parentNotAfter

RefusesTagBug(parent, tag) == FALSE

RefusesTag(parent, tag) == parent.kind = "tag" /\ tag \notin {{}, parent.of}

WorkingResourceBug(parent, tag) ==          \* a tagless request forgets the parent's tag
    IF tag = {} THEN AnyHost ELSE HostsTagged(tag)

WorkingResource(parent, tag) ==
    IF parent.kind = "any" /\ tag # {} THEN HostsTagged(tag) ELSE parent

Parent(chain) == chain[Len(chain)]

(* The early returns of issue_working_cap. *)
CanIssue(chain, delegate, params) ==
    /\ Len(chain) > 0
    /\ Parent(chain).audience = delegate
    /\ WorkingAbilities(Parent(chain).abilities, params.wantAbilities) # {}
    /\ ~RefusesTag(Parent(chain).resource, params.tag)

WorkingCap(chain, delegate, params, now) ==
    [issuer    |-> delegate,
     audience  |-> params.node,
     abilities |-> WorkingAbilities(Parent(chain).abilities, params.wantAbilities),
     resource  |-> WorkingResource(Parent(chain).resource, params.tag),
     notAfter  |-> ClampNotAfter(Parent(chain).notAfter, now, params.ttl),
     nonce     |-> params.nonce]

IssueWorkingCap(chain, delegate, params, now) ==
    Append(chain, WorkingCap(chain, delegate, params, now))

-----------------------------------------------------------------------------
(* An expiry that ends no later than another one. *)
NoLaterThan(child, parent) == parent = NoBound \/ (child # NoBound /\ child <= parent)

(* One link grants nothing that the link above it does not. *)
Weakens(child, parent) == /\ child.abilities \subseteq parent.abilities
                          /\ Covers(child.resource) \subseteq Covers(parent.resource)
                          /\ NoLaterThan(child.notAfter, parent.notAfter)

(* ce_cap::authorize: a chain that roots at a key the host accepts, each link    *)
(* signed by the audience of the one above and weakening it, none expired or      *)
(* revoked, presented by its last audience for an ability and a host it names.    *)
Authorize(host, roots, now, presenter, ability, chain, revoked) ==
    /\ Len(chain) > 0
    /\ chain[1].issuer \in roots
    /\ \A i \in 1 .. Len(chain) :
          /\ chain[i].notAfter = NoBound \/ now <= chain[i].notAfter
          /\ <<chain[i].issuer, chain[i].nonce>> \notin revoked
          /\ i > 1 => /\ chain[i].issuer = chain[i - 1].audience
                      /\ Weakens(chain[i], chain[i - 1])
    /\ Parent(chain).audience = presenter
    /\ ability \in Parent(chain).abilities
    /\ host \in Covers(Parent(chain).resource)
=============================================================================
