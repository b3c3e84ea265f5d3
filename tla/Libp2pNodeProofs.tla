-------------------------- MODULE Libp2pNodeProofs --------------------------
(* Safety of the real node and the process around it, for any number of        *)
(* requests and topics.  Where run_server is decides which resources are open; *)
(* while services run, the calls under way decide how far the table of topics  *)
(* and the router may differ.  Both together carry over into stop.             *)
EXTENDS Libp2pNode, TLAPS

\* The stages from which stop may still be called, and those it has ended.
Before == {"host", "settle", "boot", "wire", "serve", "drain"}
Started == {"boot", "wire", "serve", "drain", "leave", "dht", "close"}

\* What is open at each stage.
StageInv ==
    /\ main = "host" => manager = "none" /\ host = "none"
    /\ main \in Started \cup {"settle"} => manager = "open" /\ host = "open"
    /\ main \in Started => started
    /\ main \in {"settle", "boot", "wire", "serve", "drain", "leave"} => dht \in {"open", "ended"}
    /\ main = "dht" => dht \in {"cancelled", "closed", "ended"}
    /\ main \in {"close", "over"} => dht \in {"closed", "ended"}
    /\ main = "over" => {host, manager} \subseteq {"closed", "failed"}
                       /\ (started <=> manager = "failed")
    /\ main = "dead" => host \notin Shut /\ manager \notin Shut
    /\ main \notin {"serve", "drain"} => RequestsOver

\* A call of subscribe or unsubscribe for topic t is under way.
At(r, t) == call[r] \in Calls /\ call[r].topic = t

\* The calls under way are of one kind, and lead table and router the same way; once
\* one has had its effect the router is there, and the table only follows the router.
\* Without a call, the two agree.  Unless two alike met, there is at most one call,
\* and the table is still the one it found.
Following(t) ==
    /\ \A r, s \in Requests : At(r, t) /\ At(s, t) => call[r].kind = call[s].kind
    /\ \A r \in Requests : At(r, t) /\ call[r].kind = "subscribe" =>
          (t \in subs => t \in joined) /\ (call[r].applied => t \in joined)
    /\ \A r \in Requests : At(r, t) /\ call[r].kind = "unsubscribe" =>
          (t \in joined => t \in subs) /\ (call[r].applied => t \notin joined)
    /\ (\A r \in Requests : ~At(r, t)) => (t \in subs <=> t \in joined)
    /\ t \in twice \/ \A r, s \in Requests : At(r, t) /\ At(s, t) => r = s
    /\ t \in twice \/ \A r \in Requests : At(r, t) =>
                                            (t \in subs <=> call[r].kind = "unsubscribe")

TopicInv ==
    /\ main \in Before => \A t \in Topics \ blurred : Following(t)
    /\ main \in {"host", "settle", "boot", "wire"} => subs = {} /\ joined = {}
    /\ main = "leave" => joined \subseteq blurred \cup toLeave
    /\ main \in {"dht", "close", "over"} => subs = {} /\ joined \subseteq blurred

NodeInv == NodeTypeOK /\ StageInv /\ TopicInv
-----------------------------------------------------------------------------
\* Setting the one field that changes gives the record with the others kept.
LEMMA CallRecord ==
    ASSUME NEW c \in Calls
    PROVE  [c EXCEPT !.applied = TRUE] = [kind |-> c.kind, topic |-> c.topic, applied |-> TRUE]
<1> DEFINE d == [c EXCEPT !.applied = TRUE]
<1>1. \A e \in Calls : e = [kind |-> e.kind, topic |-> e.topic, applied |-> e.applied]
  BY DEF Calls
<1>2. d \in Calls
  BY DEF Calls
<1>3. d.kind = c.kind /\ d.topic = c.topic /\ d.applied = TRUE
  BY DEF Calls
<1> HIDE DEF d
<1> QED
  <2>1. d = [kind |-> d.kind, topic |-> d.topic, applied |-> d.applied]
    BY <1>1, <1>2
  <2>2. d = [kind |-> c.kind, topic |-> c.topic, applied |-> TRUE]
    BY <1>3, <2>1, Zenon
  <2> QED
    BY <2>2 DEF d

LEMMA UseRecord ==
    ASSUME NEW u \in Uses
    PROVE  [u EXCEPT !.asleep = FALSE] = [kind |-> "use", asleep |-> FALSE]
<1> DEFINE d == [u EXCEPT !.asleep = FALSE]
<1>1. \A e \in Uses : e = [kind |-> e.kind, asleep |-> e.asleep] /\ e.kind = "use"
  BY DEF Uses
<1>2. d \in Uses
  BY DEF Uses
<1>3. d.asleep = FALSE
  BY DEF Uses
<1> HIDE DEF d
<1> QED
  <2>1. d = [kind |-> "use", asleep |-> d.asleep]
    BY <1>1, <1>2
  <2>2. d = [kind |-> "use", asleep |-> FALSE]
    BY <1>3, <2>1, Zenon
  <2> QED
    BY <2>2 DEF d

\* The three kinds of request records are told apart by their first field.
LEMMA RecordFacts ==
    /\ Idle \notin Calls /\ Idle \notin Uses /\ Calls \cap Uses = {}
    /\ \A c \in Calls : c.topic \in Topics /\ c.applied \in BOOLEAN
                        /\ c.kind \in {"subscribe", "unsubscribe"}
                        /\ [kind |-> c.kind, topic |-> c.topic, applied |-> TRUE] \in Calls
    /\ [kind |-> "use", asleep |-> FALSE] \in Uses
BY DEF Idle, Calls, Uses

\* The two steps that set a field, as steps that write a whole record.
LEMMA AppliedCall ==
    ASSUME NodeTypeOK, NEW r \in Requests, Applied(r)
    PROVE  /\ call[r] \in Calls
           /\ call' = [call EXCEPT ![r] = [kind |-> call[r].kind, topic |-> call[r].topic,
                                          applied |-> TRUE]]
BY CallRecord DEF Applied, NodeTypeOK

LEMMA FindPeerCall ==
    ASSUME NodeTypeOK, NEW r \in Requests, FindPeer(r)
    PROVE  /\ call[r] \in Uses
           /\ call' = [call EXCEPT ![r] = IF started THEN [kind |-> "use", asleep |-> FALSE]
                                                     ELSE Idle]
<1>1. call' = [call EXCEPT ![r] = IF started THEN [call[r] EXCEPT !.asleep = FALSE] ELSE Idle]
  BY DEF FindPeer, NodeTypeOK
<1>2. call[r] \in Uses
  BY DEF FindPeer
<1> QED
  BY <1>1, <1>2, UseRecord

\* What a request of either sort does to its record; the rest of the node stays.
Writes(r, S) ==
    /\ call' \in [Requests -> {Idle} \cup Calls \cup Uses]
    /\ call'[r] \in S
    /\ \A s \in Requests : s # r => call'[s] = call[s]

LEMMA PubsubFacts ==
    ASSUME NodeTypeOK, NEW r \in Requests, PubsubRequest(r)
    PROVE  /\ UNCHANGED <<main, pubsub, resources, toLeave>>
           /\ call[r] = Idle => main = "serve"
           /\ Writes(r, {Idle} \cup Calls)
           /\ subs' \subseteq Topics /\ joined' \subseteq Topics
           /\ twice' \subseteq Topics /\ blurred' \subseteq Topics
           /\ blurred \subseteq blurred'
<1>0. /\ call \in [Requests -> {Idle} \cup Calls \cup Uses]
      /\ subs \subseteq Topics /\ joined \subseteq Topics
      /\ twice \subseteq Topics /\ blurred \subseteq Topics
  BY DEF NodeTypeOK
<1>1. ASSUME NEW t \in Topics, NEW kind \in {"subscribe", "unsubscribe"}, Ask(r, kind, t)
      PROVE  /\ main = "serve" /\ Writes(r, {Idle} \cup Calls)
             /\ twice' \subseteq Topics
             /\ blurred' \subseteq Topics /\ blurred \subseteq blurred'
  <2>1. [kind |-> kind, topic |-> t, applied |-> FALSE] \in Calls
    BY DEF Calls
  <2> QED
    BY <1>0, <1>1, <2>1 DEF Ask, Writes
<1>2. ASSUME NEW t \in Topics, Subscribe(r, t) \/ Unsubscribe(r, t)
      PROVE  /\ UNCHANGED <<main, pubsub, resources, toLeave, subs, joined>>
             /\ \E kind \in {"subscribe", "unsubscribe"} : Ask(r, kind, t)
  BY <1>2 DEF Subscribe, Unsubscribe
<1>3. CASE Applied(r)
  <2>1. /\ call[r] \in Calls /\ call[r].topic \in Topics
        /\ [kind |-> call[r].kind, topic |-> call[r].topic, applied |-> TRUE] \in Calls
        /\ call' = [call EXCEPT ![r] = [kind |-> call[r].kind, topic |-> call[r].topic,
                                        applied |-> TRUE]]
    BY <1>3, AppliedCall, RecordFacts
  <2>2. /\ UNCHANGED <<main, pubsub, resources, subs, twice, blurred, toLeave>>
        /\ joined' \in {joined \cup {call[r].topic}, joined \ {call[r].topic}}
    BY <1>3 DEF Applied
  <2> QED
    BY <1>0, <2>1, <2>2, RecordFacts DEF Writes
<1>4. CASE Subscribed(r) \/ Unsubscribed(r) \/ CallBreaks(r)
  BY <1>0, <1>4, RecordFacts DEF Subscribed, Unsubscribed, CallBreaks, CallOver, Writes
<1>5. CASE \E t \in Topics : Subscribe(r, t) \/ Unsubscribe(r, t)
  BY <1>0, <1>1, <1>2, <1>5
<1> QED
  BY <1>3, <1>4, <1>5 DEF PubsubRequest

LEMMA NodeRequestFacts ==
    ASSUME NodeTypeOK, NEW r \in Requests, NodeRequest(r)
    PROVE  /\ UNCHANGED <<main, pubsub, resources, toLeave, topicVars>>
           /\ call[r] = Idle => main = "serve"
           /\ call[r] \notin Calls
           /\ Writes(r, {Idle} \cup Uses)
<1>0. call \in [Requests -> {Idle} \cup Calls \cup Uses]
  BY DEF NodeTypeOK
<1>1. ASSUME NEW asleep \in BOOLEAN, Use(r, asleep)
      PROVE  /\ UNCHANGED <<main, pubsub, resources, toLeave, topicVars>>
             /\ main = "serve" /\ call[r] = Idle
             /\ Writes(r, {Idle} \cup Uses)
  <2>1. [kind |-> "use", asleep |-> asleep] \in Uses
    BY DEF Uses
  <2> QED
    BY <1>0, <1>1, <2>1 DEF Use, Writes
<1>2. CASE FindPeer(r)
  <2>1. UNCHANGED <<main, pubsub, resources, toLeave, topicVars>>
    BY <1>2 DEF FindPeer
  <2> QED
    BY <1>0, <1>2, <2>1, FindPeerCall, RecordFacts DEF Writes
<1>3. CASE UseEnds(r)
  BY <1>0, <1>3, RecordFacts DEF UseEnds, Writes
<1>4. CASE \E asleep \in BOOLEAN : Use(r, asleep)
  BY <1>1, <1>4, RecordFacts
<1> QED
  BY <1>2, <1>3, <1>4 DEF NodeRequest, DhtRequest, PeerRequest, Publish, Query
-----------------------------------------------------------------------------
LEMMA InitNodeInv == Init => NodeInv
<1> SUFFICES ASSUME Init PROVE NodeInv
  OBVIOUS
<1>1. NodeTypeOK
  <2>1. /\ main \in Stages
        /\ pubsub \in BOOLEAN /\ started \in BOOLEAN
        /\ {manager, host, dht} \subseteq Resource
    BY DEF Init, Stages, Resource
  <2>2. contacts \in 0 .. Bootstraps
    BY NodeAssumption DEF Init
  <2>3. call \in [Requests -> {Idle} \cup Calls \cup Uses]
    BY DEF Init
  <2>4. UNION {subs, joined, twice, blurred, toLeave} \subseteq Topics
    BY DEF Init
  <2> QED
    BY <2>1, <2>2, <2>3, <2>4 DEF NodeTypeOK
<1>2. StageInv
  BY DEF Init, StageInv, Started, RequestsOver
<1>3. TopicInv
  BY RecordFacts DEF Init, TopicInv, Following, At
<1> QED
  BY <1>1, <1>2, <1>3 DEF NodeInv

LEMMA NodeTypes ==
    ASSUME NodeTypeOK, [Next]_vars
    PROVE  NodeTypeOK'
<1> USE NodeAssumption DEF NodeTypeOK, Stages, Resource, resources, topicVars
<1>1. CASE Start
  <2>1. CASE Bootstrap
    BY <2>1 DEF Bootstrap
  <2>2. CASE StartHost
    BY <2>2 DEF StartHost
  <2>3. CASE Settle
    BY <2>3 DEF Settle
  <2>4. CASE Booted \/ Serve \/ SetUpFails
    BY <2>4 DEF Booted, Serve, SetUpFails
  <2> QED
    BY <1>1, <2>1, <2>2, <2>3, <2>4 DEF Start
<1>2. CASE ServiceFails \/ Interrupt \/ DhtEnds
  BY <1>2 DEF ServiceFails, Interrupt, DhtEnds
<1>3. CASE Shutdown
  BY <1>3 DEF Shutdown, Stop, LeaveTopic, CancelDht, DhtStopped, CloseHost, CloseManager
<1>4. ASSUME NEW r \in Requests, PubsubRequest(r) \/ NodeRequest(r)
      PROVE  NodeTypeOK'
  BY <1>4, PubsubFacts, NodeRequestFacts DEF Writes
<1>5. CASE UNCHANGED vars
  BY <1>5 DEF vars
<1> QED
  BY <1>1, <1>2, <1>3, <1>4, <1>5 DEF Next, Terminated

LEMMA StageStep ==
    ASSUME NodeInv, [Next]_vars
    PROVE  StageInv'
<1> USE DEF NodeInv, StageInv, Started, resources, Shut
<1>1. CASE Start
  BY <1>1 DEF Start, StartHost, Settle, Bootstrap, Booted, Serve, SetUpFails, RequestsOver
<1>2. CASE ServiceFails \/ Interrupt \/ DhtEnds
  BY <1>2 DEF ServiceFails, Interrupt, DhtEnds, RequestsOver, NodeTypeOK, Stages
<1>3. CASE Shutdown
  BY <1>3 DEF Shutdown, Stop, LeaveTopic, CancelDht, DhtStopped, CloseHost, CloseManager,
            RequestsOver
<1>4. ASSUME NEW r \in Requests, PubsubRequest(r) \/ NodeRequest(r)
      PROVE  StageInv'
  <2>1. UNCHANGED <<main, resources>> /\ (call[r] = Idle => main = "serve")
    BY <1>4, PubsubFacts, NodeRequestFacts
  <2>2. main \in {"serve", "drain"}
    BY <2>1 DEF RequestsOver
  <2> QED
    BY <2>1, <2>2
<1>5. CASE UNCHANGED vars
  BY <1>5 DEF vars, RequestsOver
<1> QED
  BY <1>1, <1>2, <1>3, <1>4, <1>5 DEF Next, Terminated
-----------------------------------------------------------------------------
\* The calls of a topic, as sets and as a predicate of the request.
LEMMA CallsAt ==
    ASSUME NodeTypeOK, NEW t \in Topics
    PROVE  \A r \in Requests :
              /\ \A kind \in {"subscribe", "unsubscribe"} :
                    r \in Of(kind, t) <=> At(r, t) /\ call[r].kind = kind
              /\ r \in InFlight(t) <=> At(r, t)
<1>1. \A c \in {Idle} \cup Calls \cup Uses :
         c.kind \in {"subscribe", "unsubscribe"} <=> c \in Calls
  <2>1. Idle.kind = "idle"
    BY DEF Idle
  <2>2. \A u \in Uses : u.kind = "use"
    BY DEF Uses
  <2> QED
    BY <2>1, <2>2, RecordFacts
<1>2. call \in [Requests -> {Idle} \cup Calls \cup Uses]
  BY DEF NodeTypeOK
<1> QED
  BY <1>1, <1>2 DEF InFlight, Of, At

\* A request that has nothing to do with a topic leaves what it is following.
LEMMA OtherTopic ==
    ASSUME NodeTypeOK, NEW t \in Topics, Following(t), NEW r \in Requests,
           ~At(r, t), ~At(r, t)',
           \A s \in Requests : s # r => call'[s] = call[s],
           t \in subs' <=> t \in subs, t \in joined' <=> t \in joined,
           t \in twice' <=> t \in twice
    PROVE  Following(t)'
<1>1. \A s \in Requests : At(s, t)' <=> At(s, t)
  BY DEF At
<1>2. \A s \in Requests : At(s, t) => call'[s] = call[s]
  OBVIOUS
<1> QED
  BY <1>1, <1>2 DEF Following

\* A new call finds the table as it needs it.  Others under way are of the same kind:
\* the table says so while there is one of them, and afterwards one of another kind
\* blurs the topic.
LEMMA AskKeeps ==
    ASSUME NodeInv, NEW r \in Requests, NEW t \in Topics,
           Subscribe(r, t) \/ Unsubscribe(r, t)
    PROVE  TopicInv'
<1>1. /\ main = "serve" /\ main' = main /\ subs' = subs /\ joined' = joined
      /\ call[r] = Idle /\ call \in [Requests -> {Idle} \cup Calls \cup Uses]
      /\ blurred \subseteq blurred'
  BY DEF Subscribe, Unsubscribe, Ask, NodeInv, NodeTypeOK
<1>2. PICK kind \in {"subscribe", "unsubscribe"} :
         /\ t \in subs <=> kind = "unsubscribe"
         /\ call' = [call EXCEPT ![r] = [kind |-> kind, topic |-> t, applied |-> FALSE]]
         /\ twice' = IF Of(kind, t) = {} THEN twice ELSE twice \cup {t}
         /\ InFlight(t) = Of(kind, t) \/ t \notin twice \/ t \in blurred'
  BY DEF Subscribe, Unsubscribe, Ask
<1>3. \A u \in Topics \ blurred : Following(u)
  BY <1>1 DEF NodeInv, TopicInv, Before
<1>4. [kind |-> kind, topic |-> t, applied |-> FALSE] \in Calls
  BY DEF Calls
<1>5. ASSUME NEW u \in Topics \ blurred', u # t PROVE Following(u)'
  <2>1. ~At(r, u) /\ ~At(r, u)'
    BY <1>1, <1>2, <1>5, RecordFacts DEF At
  <2>2. u \in twice' <=> u \in twice
    BY <1>2, <1>5
  <2> QED
    BY <1>1, <1>2, <1>3, <1>5, <2>1, <2>2, OtherTopic DEF NodeInv
<1>6. ASSUME t \notin blurred' PROVE Following(t)'
  <2>1. Following(t)
    BY <1>1, <1>3, <1>6
  <2>2. ASSUME NEW s \in Requests, At(s, t) PROVE call[s].kind = kind
    <3>1. CASE t \in twice
      BY <1>2, <1>6, <2>2, <3>1, CallsAt DEF NodeInv
    <3>2. CASE t \notin twice
      BY <1>2, <2>1, <2>2, <3>2, RecordFacts DEF Following, At
    <3> QED
      BY <3>1, <3>2
  <2>3. /\ ~At(r, t) /\ At(r, t)'
        /\ call'[r].kind = kind /\ ~call'[r].applied
        /\ \A s \in Requests : s # r => call'[s] = call[s] /\ (At(s, t)' <=> At(s, t))
    BY <1>1, <1>2, <1>4, RecordFacts DEF At
  <2>4. CASE \E s \in Requests : At(s, t)
    <3>1. t \in twice'
      <4>1. PICK s \in Requests : At(s, t)
        BY <2>4
      <4>2. s \in Of(kind, t)
        BY <2>2, <4>1, CallsAt DEF NodeInv
      <4> QED
        BY <1>2, <4>2
    <3>2. kind = "subscribe" => (t \in subs => t \in joined)
      BY <1>2
    <3>3. kind = "unsubscribe" => (t \in joined => t \in subs)
      BY <1>2
    <3> QED
      BY <1>1, <2>1, <2>2, <2>3, <3>1, <3>2, <3>3 DEF Following
  <2>5. CASE \A s \in Requests : ~At(s, t)
    BY <1>1, <1>2, <2>1, <2>3, <2>5 DEF Following
  <2> QED
    BY <2>4, <2>5
<1> QED
  BY <1>1, <1>5, <1>6 DEF TopicInv, Before

\* What a call under way does to its own topic when it comes to its effect, returns
\* or fails.
Effect(r, t, kind) ==
    \/ t \in blurred' /\ call'[r] = Idle
    \/ /\ call'[r] \in Calls /\ call'[r].topic = t /\ call'[r].kind = kind
       /\ call'[r].applied /\ subs' = subs /\ twice' = twice
       /\ t \in joined' <=> kind = "subscribe"
    \/ /\ call'[r] = Idle /\ call[r].applied
       /\ joined' = joined /\ (t \in subs' <=> kind = "subscribe")
       /\ t \in twice /\ InFlight(t) # {r} => t \in twice'

LEMMA CallEffect ==
    ASSUME NodeInv, NEW r \in Requests, NEW t, NEW kind,
           call[r] \in Calls, t = call[r].topic, kind = call[r].kind,
           Applied(r) \/ Subscribed(r) \/ Unsubscribed(r) \/ CallBreaks(r)
    PROVE  /\ \A u \in Topics : u # t => /\ u \in subs' <=> u \in subs
                                         /\ u \in joined' <=> u \in joined
                                         /\ u \in twice' <=> u \in twice
           /\ Effect(r, t, kind)
<1>0. call \in [Requests -> {Idle} \cup Calls \cup Uses]
  BY DEF NodeInv, NodeTypeOK
<1>1. CASE Applied(r)
  <2>1. /\ call'[r] = [kind |-> kind, topic |-> t, applied |-> TRUE]
        /\ call'[r] \in Calls
    BY <1>0, <1>1, AppliedCall, RecordFacts DEF NodeInv
  <2>2. subs' = subs /\ twice' = twice
    BY <1>1 DEF Applied
  <2>3. joined' = IF kind = "subscribe" THEN joined \cup {t} ELSE joined \ {t}
    BY <1>1 DEF Applied
  <2>4. call'[r].kind = kind /\ call'[r].topic = t /\ call'[r].applied
    BY <2>1
  <2>5. /\ t \in joined' <=> kind = "subscribe"
        /\ \A u \in Topics : u # t => (u \in joined' <=> u \in joined)
    BY <2>3
  <2> QED
    BY <2>1, <2>2, <2>4, <2>5 DEF Effect
<1>2. CASE Subscribed(r) \/ Unsubscribed(r)
  <2>1. /\ call[r].applied /\ joined' = joined /\ call'[r] = Idle
        /\ subs' = IF kind = "subscribe" THEN subs \cup {t} ELSE subs \ {t}
        /\ twice' = IF InFlight(t) = {r} THEN twice \ {t} ELSE twice
    BY <1>0, <1>2 DEF Subscribed, Unsubscribed, CallOver
  <2> QED
    BY <2>1 DEF Effect
<1>3. CASE CallBreaks(r)
  BY <1>0, <1>3 DEF CallBreaks, CallOver, Effect
<1> QED
  BY <1>1, <1>2, <1>3

\* Whichever it is, what the topic is following stays.
LEMMA CallKeeps ==
    ASSUME NodeInv, NEW r \in Requests,
           Applied(r) \/ Subscribed(r) \/ Unsubscribed(r) \/ CallBreaks(r)
    PROVE  TopicInv'
<1>1. PICK t \in Topics, kind \in {"subscribe", "unsubscribe"} :
         call[r] \in Calls /\ t = call[r].topic /\ kind = call[r].kind
  BY RecordFacts DEF Applied, Subscribed, Unsubscribed, CallBreaks
<1>2. /\ main' = main /\ main \in {"serve", "drain"} /\ blurred \subseteq blurred'
      /\ \A s \in Requests : s # r => call'[s] = call[s]
  <2>1. call[r] # Idle
    BY <1>1, RecordFacts
  <2> QED
    BY <2>1, PubsubFacts DEF NodeInv, StageInv, RequestsOver, PubsubRequest, Writes
<1>3. \A u \in Topics \ blurred : Following(u)
  BY <1>2 DEF NodeInv, TopicInv, Before
<1>4. /\ \A u \in Topics : u # t => /\ u \in subs' <=> u \in subs
                                    /\ u \in joined' <=> u \in joined
                                    /\ u \in twice' <=> u \in twice
      /\ Effect(r, t, kind)
  BY <1>1, CallEffect
<1>5. ASSUME NEW u \in Topics \ blurred', u # t PROVE Following(u)'
  <2>1. ~At(r, u) /\ ~At(r, u)'
    BY <1>1, <1>4, <1>5, RecordFacts DEF At, Effect
  <2> QED
    BY <1>2, <1>3, <1>4, <1>5, <2>1, OtherTopic DEF NodeInv
<1>6. ASSUME t \notin blurred' PROVE Following(t)'
  <2>1. Following(t) /\ At(r, t)
    BY <1>1, <1>2, <1>3, <1>6 DEF At
  <2>2. \A s \in Requests : s # r => call'[s] = call[s] /\ (At(s, t)' <=> At(s, t))
    BY <1>2 DEF At
  <2>3. \A s \in Requests : At(s, t) => call[s].kind = kind
    BY <1>1, <2>1 DEF Following
  <2>4. CASE /\ call'[r] \in Calls /\ call'[r].topic = t /\ call'[r].kind = kind
             /\ call'[r].applied /\ subs' = subs /\ twice' = twice
             /\ t \in joined' <=> kind = "subscribe"
    <3>1. \A s \in Requests : At(s, t)' <=> At(s, t)
      BY <2>1, <2>2, <2>4 DEF At
    <3>2. \A s \in Requests : At(s, t) => call'[s].kind = kind
      BY <2>2, <2>3, <2>4
    <3>3. /\ kind = "subscribe" => t \in joined'
          /\ kind = "unsubscribe" => t \notin joined'
      BY <2>4
    <3>4. t \in twice' \/ \A s, q \in Requests : At(s, t)' /\ At(q, t)' => s = q
      BY <2>1, <2>4, <3>1 DEF Following
    <3>5. t \in twice' \/ \A s \in Requests : At(s, t)' =>
                                    (t \in subs' <=> call'[s].kind = "unsubscribe")
      BY <1>1, <2>1, <2>3, <2>4, <3>1, <3>2 DEF Following
    <3>6. ~\A s \in Requests : ~At(s, t)'
      BY <2>1, <3>1
    <3> QED
      BY <3>1, <3>2, <3>3, <3>4, <3>5, <3>6 DEF Following
  <2>5. CASE /\ call'[r] = Idle /\ call[r].applied
             /\ joined' = joined /\ (t \in subs' <=> kind = "subscribe")
             /\ t \in twice /\ InFlight(t) # {r} => t \in twice'
    <3>1. \A s \in Requests : At(s, t)' <=> At(s, t) /\ s # r
      BY <2>2, <2>5, RecordFacts DEF At
    <3>2. t \in joined <=> kind = "subscribe"
      BY <1>1, <2>1, <2>5 DEF Following
    <3>3. \A s \in Requests : At(s, t)' => call'[s] = call[s] /\ call[s].kind = kind
      BY <2>2, <2>3, <3>1
    <3>4. t \in twice' \/ \A s \in Requests : ~At(s, t)'
      <4>1. ASSUME NEW s \in Requests, At(s, t)' PROVE t \in twice'
        <5>1. s \in InFlight(t) /\ s # r /\ At(s, t)
          BY <3>1, <4>1, CallsAt DEF NodeInv
        <5>2. t \in twice
          BY <2>1, <5>1 DEF Following
        <5> QED
          BY <2>5, <5>1, <5>2
      <4> QED
        BY <4>1
    <3> QED
      BY <2>1, <2>5, <3>1, <3>2, <3>3, <3>4 DEF Following
  <2> QED
    BY <1>4, <1>6, <2>4, <2>5 DEF Effect
<1> QED
  BY <1>2, <1>5, <1>6 DEF TopicInv, Before

LEMMA TopicStep ==
    ASSUME NodeInv, [Next]_vars
    PROVE  TopicInv'
<1>same. ASSUME UNCHANGED <<call, topicVars>>
         PROVE  \A t \in Topics : Following(t) => Following(t)'
  BY <1>same DEF Following, At, topicVars
<1>1. CASE Start
  <2>1. UNCHANGED <<call, topicVars>>
    BY <1>1 DEF Start, StartHost, Settle, Bootstrap, Booted, Serve, SetUpFails
  <2> QED
    BY <1>1, <2>1, <1>same
       DEF Start, StartHost, Settle, Bootstrap, Booted, Serve, SetUpFails,
           NodeInv, TopicInv, topicVars, Before
<1>2. CASE ServiceFails \/ Interrupt \/ DhtEnds
  <2>1. UNCHANGED <<call, topicVars, toLeave>>
    BY <1>2 DEF ServiceFails, Interrupt, DhtEnds
  <2> QED
    BY <1>2, <2>1, <1>same
       DEF ServiceFails, Interrupt, DhtEnds, NodeInv, TopicInv, topicVars, Before
<1>3. CASE Stop
  <2>1. /\ main = "drain" /\ RequestsOver /\ started
        /\ UNCHANGED topicVars /\ main' = "leave" /\ toLeave' = subs
    BY <1>3 DEF Stop, NodeInv, StageInv, Started
  <2>2. \A t \in Topics \ blurred : t \in subs <=> t \in joined
    BY <2>1, RecordFacts DEF NodeInv, TopicInv, Before, Following, RequestsOver, At
  <2>3. joined \subseteq Topics
    BY DEF NodeInv, NodeTypeOK
  <2> QED
    BY <2>1, <2>2, <2>3 DEF TopicInv, topicVars, Before
<1>4. ASSUME NEW t \in Topics, LeaveTopic(t) PROVE TopicInv'
  BY <1>4 DEF LeaveTopic, NodeInv, TopicInv, Before
<1>5. CASE CancelDht \/ DhtStopped \/ CloseHost
  BY <1>5 DEF CancelDht, DhtStopped, CloseHost, NodeInv, TopicInv, Before, topicVars
<1>6. ASSUME NEW r \in Requests, PubsubRequest(r) PROVE TopicInv'
  BY <1>6, AskKeeps, CallKeeps DEF PubsubRequest
<1>7. ASSUME NEW r \in Requests, NodeRequest(r) PROVE TopicInv'
  <2>1. /\ UNCHANGED <<main, toLeave, topicVars>> /\ call[r] \notin Calls
        /\ call'[r] \notin Calls /\ \A s \in Requests : s # r => call'[s] = call[s]
    BY <1>7, NodeRequestFacts, RecordFacts DEF NodeInv, Writes
  <2>2. \A t \in Topics : Following(t) => Following(t)'
    BY <2>1, OtherTopic DEF At, topicVars, NodeInv
  <2> QED
    BY <2>1, <2>2 DEF NodeInv, TopicInv, topicVars
<1>8. CASE UNCHANGED vars
  BY <1>8, <1>same DEF vars, topicVars, NodeInv, TopicInv
<1> QED
  BY <1>1, <1>2, <1>3, <1>4, <1>5, <1>6, <1>7, <1>8 DEF Next, Terminated, Shutdown
-----------------------------------------------------------------------------
LEMMA NodeSpecInv == NodeSpec => []NodeInv
<1>1. NodeInv /\ [Next]_vars => NodeInv'
  BY NodeTypes, StageStep, TopicStep DEF NodeInv
<1> QED
  BY <1>1, InitNodeInv, PTL DEF NodeSpec

\* Whatever a request uses was not stopped under it: the host and the resource manager
\* are open, and the DHT service is open unless it ended of itself.  And stop closes in
\* the reverse order of start: the nursery that run_server leaves before stop.
THEOREM RequestsOutlived == NodeSpec => []NodeOutlivesRequests
<1>1. NodeInv => NodeOutlivesRequests
  BY DEF NodeInv, NodeTypeOK, Stages, Resource, StageInv, Started, Shut, RequestsOver,
         NodeOutlivesRequests
<1> QED
  BY <1>1, NodeSpecInv, PTL

\* When stop has returned, it has closed each of the three resources whichever of the
\* other closings raised, and left every topic but those whose own calls went wrong.
THEOREM StopLeavesNothing == NodeSpec => []NothingLeftOpen
<1>1. NodeInv => NothingLeftOpen
  BY DEF NodeInv, StageInv, TopicInv, NothingLeftOpen
<1> QED
  BY <1>1, NodeSpecInv, PTL

\* subscribe and unsubscribe test the table, await the router and then write the
\* table: also when two like calls pass the test together, the two come to agree;
\* only a call that fails, or unlike ones behind two like ones, can part them.
THEOREM TableFollowsRouter == NodeSpec => []TopicsAgree
<1>1. NodeInv => TopicsAgree
  <2> SUFFICES ASSUME NodeInv, main \in {"serve", "drain"}, NEW t \in Topics \ blurred
               PROVE  /\ Of("subscribe", t) = {} \/ Of("unsubscribe", t) = {}
                      /\ InFlight(t) = {} => (t \in subs <=> t \in joined)
    BY DEF TopicsAgree
  <2>1. Following(t)
    BY DEF NodeInv, TopicInv, Before
  <2>2. InFlight(t) \subseteq Requests
    BY DEF InFlight, Of
  <2>3. Of("subscribe", t) = {} \/ Of("unsubscribe", t) = {}
    <3>1. ASSUME NEW r \in Of("subscribe", t), NEW s \in Of("unsubscribe", t) PROVE FALSE
      <4>1. r \in Requests /\ s \in Requests
        BY DEF Of
      <4>2. /\ At(r, t) /\ call[r].kind = "subscribe"
            /\ At(s, t) /\ call[s].kind = "unsubscribe"
        BY <4>1, CallsAt DEF NodeInv
      <4> QED
        BY <2>1, <4>1, <4>2 DEF Following
    <3> QED
      BY <3>1
  <2>4. InFlight(t) = {} => (t \in subs <=> t \in joined)
    <3>1. InFlight(t) = {} => \A r \in Requests : ~At(r, t)
      BY <2>2, CallsAt DEF NodeInv
    <3> QED
      BY <2>1, <3>1 DEF Following
  <2> QED
    BY <2>3, <2>4
<1> QED
  BY <1>1, NodeSpecInv, PTL
=============================================================================
