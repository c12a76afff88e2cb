----------------------------- MODULE MCEnrollment -----------------------------
(* Small instances of Enrollment: an org root, a regional authority, the         *)
(* delegate, and two fleet nodes of which one carries the tag of the site.       *)
EXTENDS Enrollment

CONSTANTS root, region, delegate, na, nb, rad, card, infer, status, admin, m1, m2

Principals == {root, region, delegate, na, nb}

Tags == [p \in Principals |-> IF p = na THEN {rad} ELSE {}]

FirstBytes == [p \in Principals |-> IF p = nb THEN 1 ELSE 0]

(* Large enough for a link nonce to wrap around before the window has passed. *)
WideBytes == [p \in Principals |-> IF p = nb THEN 2 ELSE 0]

Link(from, to, abilities, resource, notAfter) ==
    [issuer |-> from, audience |-> to, abilities |-> abilities,
     resource |-> resource, notAfter |-> notAfter, nonce |-> 1]

(* An unbounded chain over any host. *)
BroadChain == <<Link(root, delegate, {infer, status}, [kind |-> "any", of |-> {}], 0)>>

(* A chain of two links, the second confined to the tagged hosts and to time 4. *)
TaggedChain ==
    <<Link(root, region, {infer, status}, [kind |-> "any", of |-> {}], 5),
      Link(region, delegate, {infer, status}, [kind |-> "tag", of |-> {rad}], 4)>>

(* A chain confined to the one node that lacks the tag of the site. *)
NodeChain == <<Link(root, delegate, {infer, status}, [kind |-> "node", of |-> {nb}], 0)>>

(* The tag of the site, another one, and none. *)
Policy(tag) == [abilities |-> {infer, admin}, tag |-> tag, workingTtl |-> 2]
SiteTag == {Policy({rad})}
NoTag == {Policy({})}
NoOrOtherTag == {Policy({}), Policy({card})}

(* Two nodes with the right secret, a wrong secret, an id that does not parse. *)
EnrollBodies == {[node |-> na, nonce |-> m1, secretOk |-> TRUE],
                 [node |-> nb, nonce |-> m1, secretOk |-> TRUE],
                 [node |-> nb, nonce |-> m2, secretOk |-> TRUE],
                 [node |-> nb, nonce |-> m1, secretOk |-> FALSE],
                 [node |-> Garbled, nonce |-> m1, secretOk |-> TRUE]}

(* Two nodes, each with the nonce that it was given. *)
TwoNodes == {[node |-> na, nonce |-> m1, secretOk |-> TRUE],
             [node |-> nb, nonce |-> m2, secretOk |-> TRUE]}

(* Bound and unbound tokens, one for nothing the delegate holds, one that does not parse. *)
TokenBodies == {[node |-> na, abilities |-> {status}, tag |-> {rad}, ttl |-> 1],
                [node |-> Unbound, abilities |-> {infer}, tag |-> {}, ttl |-> 5],
                [node |-> nb, abilities |-> {admin}, tag |-> {}, ttl |-> 2],
                [node |-> na, abilities |-> {infer}, tag |-> {card}, ttl |-> 1],
                [node |-> Garbled, abilities |-> {status}, tag |-> {}, ttl |-> 2]}

EpochToken == {[node |-> na, abilities |-> {status}, tag |-> {rad}, ttl |-> 0]}
NoBodies == {}
=============================================================================
