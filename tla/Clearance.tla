----------------------------- MODULE Clearance ------------------------------
(***************************************************************************)
(* What the servers between a client and the matching engine promise of an *)
(* order, without sessions, links, queues or routes: it reaches the engine *)
(* only after the client's Gateway accepted it, a direct order at most     *)
(* once, and an order for a broker at most once per approval that a broker *)
(* gave under its ORDERID.  Two orders may carry one ORDERID; a broker     *)
(* approves the ORDERID, and only if an order of that ORDERID names him,   *)
(* and only one of the orders that share it is let through.                *)
(***************************************************************************)
EXTENDS Naturals

CONSTANTS Orders, Ids, Users, NoId

VARIABLES
    needs,     \* of an order that was sent: the broker it names, or nobody
    id,        \* its ORDERID, NoId before it has one
    accepted,  \* the orders that were accepted
    cleared,   \* per ORDERID: approvals given
    delivered  \* per order: how often the engine got it

vars == <<needs, id, accepted, cleared, delivered>>

Init ==
    /\ needs = [o \in {} |-> {}]
    /\ id = [o \in Orders |-> NoId]
    /\ accepted = {}
    /\ cleared = [i \in Ids |-> 0]
    /\ delivered = [o \in Orders |-> 0]

Submit(o, need) ==
    /\ o \notin DOMAIN needs
    /\ needs' = [p \in DOMAIN needs \union {o} |-> IF p = o THEN need ELSE needs[p]]
    /\ UNCHANGED <<id, accepted, cleared, delivered>>

(* An order is numbered once, and before it is accepted.                   *)
Number(o, i) ==
    /\ o \in DOMAIN needs /\ id[o] = NoId
    /\ id' = [id EXCEPT ![o] = i]
    /\ UNCHANGED <<needs, accepted, cleared, delivered>>

Accept(o) ==
    /\ id[o] # NoId /\ o \notin accepted
    /\ accepted' = accepted \union {o}
    /\ UNCHANGED <<needs, id, cleared, delivered>>

Approve(u, i) ==
    /\ \E o \in accepted : id[o] = i /\ u \in needs[o]
    /\ cleared' = [cleared EXCEPT ![i] = @ + 1]
    /\ UNCHANGED <<needs, id, accepted, delivered>>

(* The other orders under its ORDERID that need an approval, too.          *)
Rivals(o) == {p \in DOMAIN needs \ {o} : id[p] = id[o] /\ needs[p] # {}}

Deliver(o) ==
    /\ o \in accepted
    /\ IF needs[o] = {}
       THEN delivered[o] = 0
       ELSE delivered[o] < cleared[id[o]] /\ \A p \in Rivals(o) : delivered[p] = 0
    /\ delivered' = [delivered EXCEPT ![o] = @ + 1]
    /\ UNCHANGED <<needs, id, accepted, cleared>>

Next ==
    \/ \E o \in Orders :
        \/ \E need \in {{}} \union {{u} : u \in Users} : Submit(o, need)
        \/ \E i \in Ids : Number(o, i)
        \/ Accept(o) \/ Deliver(o)
    \/ \E u \in Users, i \in Ids : Approve(u, i)

Spec == Init /\ [][Next]_vars
=============================================================================
