----------------------------- MODULE Libp2pNode -----------------------------
(* The real node (src/src/libp2p_node.py) under its only caller, run_server of *)
(* src/main.py, in mode "real": start, the API requests and lookups that run   *)
(* inside the service nursery, and stop, with Ctrl-C at any point.  py-libp2p  *)
(* is external: each of its calls takes effect some time before it returns, or *)
(* raises, before or after that.  Ctrl-C is raised in the main task.           *)
EXTENDS Integers, FiniteSets

CONSTANTS
    Requests,    \* the tasks that may use the node at the same time
    Topics,
    Bootstraps   \* number of bootstrap peers

ASSUME NodeAssumption == Bootstraps \in Nat

VARIABLES
    main,        \* where run_server is, see Stages
    pubsub,      \* _pubsub is set: enable_pubsub
    started,     \* _started
    manager, host, dht,   \* the three resources: see Resource
    contacts,    \* bootstrap peers still to be called
    subs,        \* the keys of _subscriptions
    joined,      \* external: the topics the pubsub router takes part in
    call,        \* what each request waits for
    toLeave,     \* the topics left in the loop of stop
    twice,       \* history: topics with calls under way, two of which were alike
    blurred      \* history: topics with a failed call, or with unlike ones after that

resources == <<started, manager, host, dht, contacts>>
topicVars == <<subs, joined, twice, blurred>>
vars == <<main, pubsub, resources, topicVars, call, toLeave>>

\* "over": run_server returned from node.stop(); "dead": an exception left
\* node.start(), the wiring or node.stop() and took the process down with it.
Stages == {"host", "settle", "boot", "wire", "serve", "drain",
           "leave", "dht", "close", "over", "dead"}
\* "ended": of itself, as only the DHT service may; "failed": closing it raised.
Resource == {"none", "open", "cancelled", "closed", "ended", "failed"}
Shut == {"closed", "ended", "failed"}
Idle == [kind |-> "idle"]
Calls == [kind : {"subscribe", "unsubscribe"}, topic : Topics, applied : BOOLEAN]
Uses == [kind : {"use"}, asleep : BOOLEAN]

Init ==
    /\ main = "host"
    /\ pubsub \in BOOLEAN
    /\ started = FALSE
    /\ manager = "none" /\ host = "none" /\ dht = "none"
    /\ contacts = Bootstraps
    /\ subs = {} /\ joined = {} /\ twice = {} /\ blurred = {}
    /\ call = [r \in Requests |-> Idle]
    /\ toLeave = {}
-----------------------------------------------------------------------------
(* start(), awaited before anything else runs                                  *)

\* The resource manager is made, the host is awaited.
StartHost ==
    /\ main = "host" /\ main' = "settle"
    /\ manager' = "open" /\ host' = "open" /\ dht' = "open"
    /\ UNCHANGED <<pubsub, started, contacts, topicVars, call, toLeave>>

\* The DHT had its 0.1 s: pubsub is built, the node counts as started.
Settle ==
    /\ main = "settle" /\ main' = "boot"
    /\ started' = TRUE
    /\ UNCHANGED <<pubsub, manager, host, dht, contacts, topicVars, call, toLeave>>

\* A bootstrap peer is connected, or was not: an exception is logged.
Bootstrap ==
    /\ main = "boot" /\ contacts > 0
    /\ contacts' = contacts - 1
    /\ UNCHANGED <<main, pubsub, started, manager, host, dht, topicVars, call, toLeave>>

Booted ==
    /\ main = "boot" /\ contacts = 0
    /\ main' = "wire"
    /\ UNCHANGED <<pubsub, resources, topicVars, call, toLeave>>

\* The components are built around the node and the services started.
Serve ==
    /\ main = "wire" /\ main' = "serve"
    /\ UNCHANGED <<pubsub, resources, topicVars, call, toLeave>>

\* A port that is taken, a history that cannot be opened: start and the wiring
\* lie before the try statement, so stop does not run.
SetUpFails ==
    /\ main \in {"host", "settle", "wire"} /\ main' = "dead"
    /\ UNCHANGED <<pubsub, resources, topicVars, call, toLeave>>
-----------------------------------------------------------------------------
(* Requests, while the services run                                            *)

Of(kind, t) == {r \in Requests : call[r].kind = kind /\ call[r].topic = t}
InFlight(t) == Of("subscribe", t) \cup Of("unsubscribe", t)

Ask(r, kind, t) ==
    /\ main = "serve" /\ pubsub /\ call[r] = Idle
    /\ call' = [call EXCEPT ![r] = [kind |-> kind, topic |-> t, applied |-> FALSE]]
    /\ twice' = IF Of(kind, t) = {} THEN twice ELSE twice \cup {t}
    /\ blurred' = IF InFlight(t) = Of(kind, t) \/ t \notin twice THEN blurred
                  ELSE blurred \cup {t}

\* Mutant of Subscribe: the topic is entered before the router is asked.
SubscribeRecordsFirst(r, t) ==
    /\ t \notin subs
    /\ Ask(r, "subscribe", t)
    /\ subs' = subs \cup {t}
    /\ UNCHANGED <<main, pubsub, resources, joined, toLeave>>

\* POST /api/pubsub/subscribe up to its await.  A topic that is in the table, or
\* a node without pubsub, is answered at once and nothing changes.
Subscribe(r, t) ==
    /\ t \notin subs
    /\ Ask(r, "subscribe", t)
    /\ UNCHANGED <<main, pubsub, resources, subs, joined, toLeave>>

Unsubscribe(r, t) ==
    /\ t \in subs
    /\ Ask(r, "unsubscribe", t)
    /\ UNCHANGED <<main, pubsub, resources, subs, joined, toLeave>>

\* External: the call has its effect.
Applied(r) ==
    /\ call[r] \in Calls /\ ~call[r].applied
    /\ call' = [call EXCEPT ![r].applied = TRUE]
    /\ joined' = IF call[r].kind = "subscribe" THEN joined \cup {call[r].topic}
                                               ELSE joined \ {call[r].topic}
    /\ UNCHANGED <<main, pubsub, resources, subs, twice, blurred, toLeave>>

CallOver(r) ==
    /\ call' = [call EXCEPT ![r] = Idle]
    /\ twice' = IF InFlight(call[r].topic) = {r} THEN twice \ {call[r].topic} ELSE twice

\* The await is over: the table is written.  Deleting a topic that has gone
\* raises KeyError, which is caught.
Subscribed(r) ==
    /\ call[r] \in Calls /\ call[r].applied /\ call[r].kind = "subscribe"
    /\ subs' = subs \cup {call[r].topic}
    /\ CallOver(r)
    /\ UNCHANGED <<main, pubsub, resources, joined, blurred, toLeave>>

Unsubscribed(r) ==
    /\ call[r] \in Calls /\ call[r].applied /\ call[r].kind = "unsubscribe"
    /\ subs' = subs \ {call[r].topic}
    /\ CallOver(r)
    /\ UNCHANGED <<main, pubsub, resources, joined, blurred, toLeave>>

\* The call raises, or the service nursery cancels it: the table stays.
CallBreaks(r) ==
    /\ call[r] \in Calls
    /\ blurred' = blurred \cup {call[r].topic}
    /\ CallOver(r)
    /\ UNCHANGED <<main, pubsub, resources, subs, joined, toLeave>>

\* Requests that only use the node: they change nothing but counters.
Use(r, asleep) ==
    /\ main = "serve" /\ call[r] = Idle
    /\ call' = [call EXCEPT ![r] = [kind |-> "use", asleep |-> asleep]]
    /\ UNCHANGED <<main, pubsub, resources, topicVars, toLeave>>

\* put_value, get_value, provide, find_providers; connect and disconnect of a
\* peer; publish.  Each tests that what it uses is there, or fails at once.
DhtRequest(r) == started /\ Use(r, FALSE)
PeerRequest(r) == started /\ Use(r, FALSE)
Publish(r) == pubsub /\ Use(r, FALSE)

\* RealDHTNetwork.query, which sleeps first in every scenario but NORMAL.
Query(r) == \E asleep \in BOOLEAN : (asleep \/ started) /\ Use(r, asleep)

\* find_peer after the sleep: it raises when the node is not started.
FindPeer(r) ==
    /\ call[r] \in Uses /\ call[r].asleep
    /\ call' = [call EXCEPT ![r] = IF started THEN [@ EXCEPT !.asleep = FALSE] ELSE Idle]
    /\ UNCHANGED <<main, pubsub, resources, topicVars, toLeave>>

\* The answer comes; or the call raises, which makes a miss or a failure of it,
\* or is cancelled: by the nursery, or, a sleep included, by the query's time limit.
UseEnds(r) ==
    /\ call[r] \in Uses
    /\ call' = [call EXCEPT ![r] = Idle]
    /\ UNCHANGED <<main, pubsub, resources, topicVars, toLeave>>
-----------------------------------------------------------------------------
(* The end                                                                     *)

\* A service fails: the nursery cancels the others and waits for them.
ServiceFails ==
    /\ main = "serve" /\ main' = "drain"
    /\ UNCHANGED <<pubsub, resources, topicVars, call, toLeave>>

\* Ctrl-C, any number of times.  While services run it ends them as a failing one
\* does.  The wait for the requests and the wait for the DHT go on (stop drops the
\* second one's exception, whatever it is); anywhere else it goes through.
Interrupt ==
    /\ main \notin {"over", "dead"}
    /\ main' = CASE main \in {"serve", "drain"} -> "drain"
                 [] main = "dht" -> "dht"
                 [] OTHER -> "dead"
    /\ UNCHANGED <<pubsub, resources, topicVars, call, toLeave>>

\* Mutant of RequestsOver: the nursery does not wait for its tasks.
RequestsCancelled == TRUE

RequestsOver == \A r \in Requests : call[r] = Idle

\* stop() is called, with every task of the nursery at its end.
Stop ==
    /\ main = "drain" /\ RequestsOver
    /\ IF started THEN main' = "leave" /\ toLeave' = subs
                  ELSE main' = "over" /\ UNCHANGED toLeave
    /\ UNCHANGED <<pubsub, resources, topicVars, call>>

\* An exception for one topic is dropped: the loop goes on with the others.
LeaveTopic(t) ==
    /\ main = "leave" /\ t \in toLeave
    /\ toLeave' = toLeave \ {t}
    /\ \/ joined' = joined \ {t} /\ UNCHANGED blurred
       \/ joined' \in {joined, joined \ {t}} /\ blurred' = blurred \cup {t}  \* it raised
    /\ UNCHANGED <<main, pubsub, resources, subs, twice, call>>

\* Mutant of CancelDht: the background nursery is awaited, not cancelled.
CancelDhtNever ==
    /\ main = "leave" /\ toLeave = {}
    /\ main' = "dht" /\ subs' = {}
    /\ UNCHANGED <<pubsub, resources, joined, twice, blurred, call, toLeave>>

\* The table is cleared and the background nursery cancelled; then its end is awaited.
CancelDht ==
    /\ main = "leave" /\ toLeave = {}
    /\ main' = "dht"
    /\ subs' = {}
    /\ dht' = IF dht = "open" THEN "cancelled" ELSE dht
    /\ UNCHANGED <<pubsub, started, manager, host, contacts, joined, twice, blurred,
                   call, toLeave>>

\* External: the DHT service ends, of itself (an exception is dropped) or cancelled.
DhtEnds ==
    /\ dht \in {"open", "cancelled"} /\ main # "dead"
    /\ dht' = IF dht = "open" THEN "ended" ELSE "closed"
    /\ UNCHANGED <<main, pubsub, started, manager, host, contacts, topicVars, call, toLeave>>

DhtStopped ==
    /\ main = "dht" /\ dht \in Shut
    /\ main' = "close"
    /\ UNCHANGED <<pubsub, resources, topicVars, call, toLeave>>

\* The resource manager is closed last; when that raises, the node still counts as
\* started.
CloseManager ==
    \/ manager' = "closed" /\ started' = FALSE
    \/ manager' = "failed" /\ UNCHANGED started

\* Mutant of CloseHost: a host that raises ends stop.
CloseHostOrGiveUp ==
    /\ main = "close" /\ main' = "over"
    /\ \/ host' = "closed" /\ CloseManager
       \/ host' = "failed" /\ UNCHANGED <<manager, started>>
    /\ UNCHANGED <<pubsub, dht, contacts, topicVars, call, toLeave>>

\* The host's context is left, and an exception of it dropped.
CloseHost ==
    /\ main = "close" /\ main' = "over"
    /\ host' \in {"closed", "failed"} /\ CloseManager
    /\ UNCHANGED <<pubsub, dht, contacts, topicVars, call, toLeave>>
-----------------------------------------------------------------------------
Start == StartHost \/ Settle \/ Bootstrap \/ Booted \/ Serve \/ SetUpFails
PubsubRequest(r) ==
    \/ \E t \in Topics : Subscribe(r, t) \/ Unsubscribe(r, t)
    \/ Applied(r) \/ Subscribed(r) \/ Unsubscribed(r) \/ CallBreaks(r)
NodeRequest(r) ==
    \/ DhtRequest(r) \/ PeerRequest(r) \/ Publish(r) \/ Query(r)
    \/ FindPeer(r) \/ UseEnds(r)
Shutdown == Stop \/ (\E t \in Topics : LeaveTopic(t)) \/ CancelDht \/ DhtStopped \/ CloseHost

Terminated == main \in {"over", "dead"} /\ UNCHANGED vars

Next ==
    \/ Start \/ ServiceFails \/ Interrupt \/ Shutdown \/ DhtEnds
    \/ \E r \in Requests : PubsubRequest(r) \/ NodeRequest(r)
    \/ Terminated

NodeSpec == Init /\ [][Next]_vars

\* The event loop runs what can run.  Cancellation ends the requests, which start no
\* more, and the DHT service, since it is raised at each of their awaits; that the
\* router and the host answer stop is assumed of py-libp2p.  Nothing is assumed of
\* start: a bootstrap peer may never answer.
RequestEnds(r) == main = "drain" /\ (CallBreaks(r) \/ UseEnds(r))
NodeFairness ==
    /\ WF_vars(Shutdown)
    /\ WF_vars(dht = "cancelled" /\ DhtEnds)
    /\ WF_vars(\E r \in Requests : RequestEnds(r))
FairNodeSpec == NodeSpec /\ NodeFairness
-----------------------------------------------------------------------------
NodeTypeOK ==
    /\ main \in Stages
    /\ pubsub \in BOOLEAN /\ started \in BOOLEAN
    /\ {manager, host, dht} \subseteq Resource
    /\ contacts \in 0 .. Bootstraps
    /\ subs \subseteq Topics /\ joined \subseteq Topics
    /\ twice \subseteq Topics /\ blurred \subseteq Topics
    /\ toLeave \subseteq Topics
    /\ call \in [Requests -> {Idle} \cup Calls \cup Uses]

\* The table of topics (subscribed_topics of the snapshot) against the router,
\* for subscribe and unsubscribe, which test it, await, and then write it.  Two like
\* calls that both pass the test do no harm: once no call is on, table and router
\* agree again.  The table keeps a subscribe and an unsubscribe of one topic apart;
\* only behind two like calls can they be on at once, and only such a pair, or a call
\* that fails, can leave the two sides apart.
TopicsAgree ==
    main \in {"serve", "drain"} =>
    \A t \in Topics \ blurred :
        /\ Of("subscribe", t) = {} \/ Of("unsubscribe", t) = {}
        /\ InFlight(t) = {} => (t \in subs <=> t \in joined)

\* stop never runs under a request: it finds the node started, its resource manager
\* and its host open, and a DHT service that nobody stopped, though it may have ended
\* of itself.  And stop goes in the reverse order of start.
NodeOutlivesRequests ==
    /\ (\E r \in Requests : call[r] # Idle) =>
           started /\ manager = "open" /\ host = "open" /\ dht \in {"open", "ended"}
    /\ host \in Shut => dht \in Shut
    /\ manager \in Shut => host \in Shut

\* When stop has returned, it has closed each of the three resources, whichever of the
\* closings before raised, and although Ctrl-C was pressed again while it waited for
\* the DHT: what is not closed is what itself raised when it was to be closed.  The
\* table is empty, and every topic was left but those whose own calls went wrong.
NothingLeftOpen ==
    main = "over" =>
        /\ dht \in {"closed", "ended"} /\ {host, manager} \subseteq {"closed", "failed"}
        /\ started <=> manager = "failed"
        /\ subs = {} /\ joined \subseteq blurred

\* A service that fails, or Ctrl-C, ends the process: no request, no topic and no
\* background task of the node can keep stop from coming to its end.
ServiceEnds == main = "drain" ~> main \in {"over", "dead"}
=============================================================================
