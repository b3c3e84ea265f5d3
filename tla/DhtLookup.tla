------------------------------ MODULE DhtLookup ------------------------------
(* SimulatedDHTNetwork (src/src/dht_simulation.py): one iterative lookup in a  *)
(* network that is changed under it by the chaos controls.  The lookup reads   *)
(* and never writes the network, so one of them stands for all.  It yields at  *)
(* one place, the sleep that simulates a hop: an action of the lookup runs     *)
(* from the end of one sleep to the beginning of the next.                     *)
(*                                                                             *)
(* A peer is the number its id hashes to.                                      *)
EXTENDS Integers, Sequences, FiniteSets, SequencesExt

CONSTANTS
    Network, Rebuilt,  \* ids of the network at start, and after a rebuild
    Newcomers,         \* ids that add_peer may draw
    Targets,           \* ids that are looked up
    Dist(_, _),        \* the distance of two ids, XOR
    K,                 \* _k, the size of a routing table
    Alpha,             \* 3 in the code: peers asked of a node, tried in a round
    MaxHops,           \* max_hops
    MaxChurn           \* bound: number of changes to the network

Ids == Network \cup Rebuilt \cup Newcomers
None == -1

ASSUME DhtAssumption ==
    /\ Ids \subseteq Nat /\ IsFiniteSet(Ids) /\ Targets \subseteq Nat
    /\ Network # {} /\ Rebuilt # {}
    /\ Network \cap (Rebuilt \cup Newcomers) = {} /\ Rebuilt \cap Newcomers = {}
    /\ {K, Alpha, MaxHops} \subseteq Nat \ {0} /\ MaxChurn \in Nat

\* No two ids are at the same distance of a third, as XOR has it.
ASSUME DistanceAssumption ==
    \A a, b \in Ids, t \in Ids \cup Targets :
        Dist(a, t) \in Nat /\ (Dist(a, t) = Dist(b, t) => a = b)

VARIABLES
    nodes,             \* _nodes: [online, table] of each peer present
    bootTable,         \* the routing table of _boot_node
    generation, churn, \* number of rebuilds; used up of MaxChurn
    qpc,               \* "idle", "asleep", or how the lookup ended
    target, known,     \* the argument; target_in_network
    born,              \* the generation the lookup began in
    at, table,         \* candidate_node, asleep on: its id and routing table
    pending,           \* rest of this round's candidates
    named,             \* next_candidates
    visited, path, hops

netVars == <<nodes, bootTable, generation, churn>>
queryVars == <<qpc, target, known, born, at, table, pending, named, visited, path, hops>>
vars == <<netVars, queryVars>>
-----------------------------------------------------------------------------
\* The k ids of S that are closest to t, closest first.
Closest(S, t, k) ==
    LET n == IF Cardinality(S) < k THEN Cardinality(S) ELSE k
    IN  [i \in 1 .. n |->
            CHOOSE p \in S : Cardinality({o \in S : Dist(o, t) <= Dist(p, t)}) = i]

\* _build_network: each peer knows its K nearest; up to half are offline, the
\* ratio of the worst scenario.
Tables(S) == [p \in S |-> Closest(S \ {p}, p, K)]
Build(S) ==
    \E off \in SUBSET S, boot \in S :
        /\ 2 * Cardinality(off) <= Cardinality(S)
        /\ nodes' = [p \in S |-> [online |-> p \notin off, table |-> Tables(S)[p]]]
        /\ bootTable' = Tables(S)[boot]

\* The same at start; which peers are offline then is left to TogglePeer.
Init ==
    /\ \E boot \in Network :
          /\ nodes = [p \in Network |-> [online |-> TRUE, table |-> Tables(Network)[p]]]
          /\ bootTable = Tables(Network)[boot]
    /\ generation = 0 /\ churn = 0
    /\ qpc = "idle" /\ target = None /\ known = FALSE /\ born = 0
    /\ at = None /\ table = <<>> /\ pending = <<>> /\ named = <<>>
    /\ visited = {} /\ path = <<>> /\ hops = 0
-----------------------------------------------------------------------------
Answers(p) == p \in DOMAIN nodes /\ nodes[p].online

\* The places in the candidates s at which the loop body gets as far as a
\* connection, given the peers visited before.
Live(s, seen) == {i \in DOMAIN s : s[i] \notin seen /\ Answers(s[i])}
FirstLive(s, seen) == CHOOSE i \in Live(s, seen) : \A j \in Live(s, seen) : i <= j

\* Mutant of Seen: a candidate is marked when it has not been contacted.
SeenIfSilent(s, i, seen) == seen \cup {s[j] : j \in 1 .. i - 1}

Seen(s, i, seen) == seen \cup {s[j] : j \in 1 .. i}

\* Connect to candidate i of s: a stream error ends the lookup, or it sleeps.
Contact(s, i, seen, names) ==
    /\ visited' = Seen(s, i, seen)
    /\ \/ /\ qpc' = "failed" /\ at' = None
          /\ table' = <<>> /\ pending' = <<>> /\ named' = <<>>
       \/ /\ qpc' = "asleep" /\ at' = s[i] /\ table' = nodes[s[i]].table
          /\ pending' = SubSeq(s, i + 1, Len(s)) /\ named' = names

End(outcome, seen) ==
    /\ qpc' = outcome /\ visited' = seen
    /\ at' = None /\ table' = <<>> /\ pending' = <<>> /\ named' = <<>>

\* The places of the names in the list that are not in D, and these names in order.
Others(list, D) == {i \in DOMAIN list : list[i] \notin D}
Without(list, D) ==
    [k \in 1 .. Cardinality(Others(list, D)) |->
        list[CHOOSE i \in Others(list, D) :
                Cardinality({j \in Others(list, D) : j <= i}) = k]]

\* Mutant of MayGoOn: the hop budget is not looked at.
MayGoOnForever(cands, h) == cands # <<>>

\* The condition of the while loop.
MayGoOn(cands, h) == cands # <<>> /\ h < MaxHops

\* candidates[:3]
FirstFew(cands) == SubSeq(cands, 1, IF Len(cands) < Alpha THEN Len(cands) ELSE Alpha)

\* The rest s of a round, then a new round with what the round named.  A round
\* in which no candidate answers names nobody, and the lookup is exhausted.
Proceed(s, seen, names, h) ==
    LET done == seen \cup Range(s)
        cands == Without(names, done)
        fresh == FirstFew(cands)
    IN  \/ Live(s, seen) # {} /\ Contact(s, FirstLive(s, seen), seen, names)
        \/ Live(s, seen) = {} /\ ~MayGoOn(cands, h) /\ End("exhausted", done)
        \/ /\ Live(s, seen) = {} /\ MayGoOn(cands, h)
           /\ \/ Live(fresh, done) # {}
                    /\ Contact(fresh, FirstLive(fresh, done), done, <<>>)
              \/ Live(fresh, done) = {} /\ End("exhausted", done \cup Range(fresh))

\* query up to its first sleep.
Query(t) ==
    /\ qpc = "idle"
    /\ target' = t
    /\ \E lucky \in BOOLEAN : known' = (lucky /\ t \in DOMAIN nodes)
    /\ born' = generation
    /\ Proceed(Closest(Range(bootTable), t, Alpha), {}, <<>>, 0)
    /\ UNCHANGED <<netVars, path, hops>>

Hit == at = target /\ known

\* The end of a sleep: the node, perhaps no longer part of the network, answers.
Hop ==
    /\ qpc = "asleep"
    /\ hops' = hops + 1 /\ path' = Append(path, at)
    /\ \/ /\ Hit
          /\ End("found", visited)
       \/ /\ ~Hit
          /\ Proceed(pending, visited,
                     named \o Closest(Range(table), target, Alpha), hops + 1)
    /\ UNCHANGED <<netVars, target, known, born>>

\* The query's time limit or its caller cancels the sleep.
Cancelled ==
    /\ qpc = "asleep" /\ End("cancelled", visited)
    /\ UNCHANGED <<netVars, target, known, born, path, hops>>
-----------------------------------------------------------------------------
Churn == churn < MaxChurn /\ churn' = churn + 1

TogglePeer(p) ==
    /\ Churn /\ p \in DOMAIN nodes
    /\ nodes' = [nodes EXCEPT ![p].online = ~@]
    /\ UNCHANGED <<bootTable, generation, queryVars>>

RemovePeer(p) ==
    /\ Churn /\ p \in DOMAIN nodes
    /\ nodes' = [o \in DOMAIN nodes \ {p} |-> nodes[o]]
    /\ UNCHANGED <<bootTable, generation, queryVars>>

\* Mutant of WithPeer: the newcomer enters the tables of the peers it knows.
WithPeerAnnounced(p) ==
    LET known2 == Closest(DOMAIN nodes, p, K)
    IN  [o \in DOMAIN nodes \cup {p} |->
            IF o = p THEN [online |-> TRUE, table |-> known2]
            ELSE IF o \in Range(known2) THEN [nodes[o] EXCEPT !.table = Append(@, p)]
            ELSE nodes[o]]

\* The newcomer knows its nearest peers; none of them hears of it.
WithPeer(p) ==
    [o \in DOMAIN nodes \cup {p} |->
        IF o = p THEN [online |-> TRUE, table |-> Closest(DOMAIN nodes, p, K)]
        ELSE nodes[o]]

AddPeer(p) ==
    /\ Churn /\ p \in Newcomers \ DOMAIN nodes
    /\ nodes' = WithPeer(p)
    /\ UNCHANGED <<bootTable, generation, queryVars>>

\* Mutant of SetScenario: the rebuild adds to the network there is.
SetScenarioMerging ==
    /\ Churn /\ generation = 0 /\ generation' = 1
    /\ nodes' = [o \in DOMAIN nodes \cup Rebuilt |->
                    IF o \in Rebuilt THEN [online |-> TRUE, table |-> Tables(Rebuilt)[o]]
                    ELSE nodes[o]]
    /\ UNCHANGED <<bootTable, queryVars>>

\* set_scenario: a new network, of new ids, under the lookups in flight.
SetScenario ==
    /\ Churn /\ generation = 0 /\ generation' = 1
    /\ Build(Rebuilt)
    /\ UNCHANGED queryVars
-----------------------------------------------------------------------------
Outcomes == {"found", "exhausted", "failed", "cancelled"}
Rest == qpc \in Outcomes /\ churn = MaxChurn /\ UNCHANGED vars

Next ==
    \/ \E t \in Targets : Query(t)
    \/ Hop \/ Cancelled
    \/ \E p \in Ids : TogglePeer(p) \/ RemovePeer(p) \/ AddPeer(p)
    \/ SetScenario
    \/ Rest

Spec == Init /\ [][Next]_vars
-----------------------------------------------------------------------------
DhtTypeOK ==
    /\ DOMAIN nodes \subseteq Ids
    /\ \A p \in DOMAIN nodes :
          nodes[p].online \in BOOLEAN /\ nodes[p].table \in Seq(Ids)
    /\ bootTable \in Seq(Ids) /\ generation \in 0 .. 1 /\ churn \in 0 .. MaxChurn
    /\ qpc \in {"idle", "asleep"} \cup Outcomes
    /\ target \in Targets \cup {None} /\ known \in BOOLEAN /\ born \in 0 .. 1
    /\ at \in Ids \cup {None} /\ (at # None <=> qpc = "asleep")
    /\ table \in Seq(Ids) /\ pending \in Seq(Ids) /\ Len(pending) < Alpha
    /\ named \in Seq(Ids) /\ visited \in SUBSET Ids /\ path \in Seq(Ids)
    /\ hops \in Nat

\* Churn cannot send a lookup in circles: it contacts no peer twice, and the path
\* it reports has one entry for each hop, none of them a peer it is still asking.
NoPeerTwice ==
    /\ IsInjective(path) /\ hops = Len(path)
    /\ Range(path) \subseteq visited
    /\ at \notin Range(path)

\* The budget: max_hops is checked between rounds, so a lookup may exceed it by
\* the rest of a round, and by no more.
BudgetHolds == hops <= MaxHops + Alpha - 1

\* No routing table but those of later newcomers names a peer that was added, so
\* no lookup ever contacts one: an added peer makes the network larger and the
\* searches no better, and a lookup for it cannot succeed.
AddedPeersStayUnknown ==
    /\ (Range(path) \cup visited) \cap Newcomers = {}
    /\ \A p \in DOMAIN nodes \ Newcomers : Range(nodes[p].table) \cap Newcomers = {}
    /\ target \in Newcomers => qpc # "found"

\* A rebuild replaces every peer: a lookup in flight finishes the hop it is on
\* and finds nobody else to ask, whatever it had heard of.
NobodyElseToAsk == qpc = "asleep" /\ born # generation => at' \in {at, None}
LookupsEndWithTheirNetwork == [][NobodyElseToAsk]_vars
=============================================================================
