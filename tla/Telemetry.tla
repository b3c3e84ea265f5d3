------------------------------ MODULE Telemetry ------------------------------
(* How a snapshot reaches the dashboards: metrics_broadcaster (workers.py) and *)
(* the coordinator's on_snapshot callback (main.py) offer snapshots to a       *)
(* bounded channel; _ws_broadcaster (main.py) sends each to all the WebSocket  *)
(* clients in turn; websocket_endpoint (api/app.py) greets a client with a     *)
(* snapshot of its own and keeps the roster.  All are tasks of one event loop: *)
(* an action is what one of them does between two checkpoints.                 *)
(*                                                                             *)
(* Snapshots are numbered in the order in which they are taken.                *)
EXTENDS Integers, Sequences, FiniteSets, SequencesExt

CONSTANTS
    Clients,      \* one element per WebSocket connection
    ChanSize,     \* max_buffer_size of the channel
    MaxSnapshots, \* bound: number of snapshots taken
    MaxPosts,     \* bound: number of requests to /api/loadgen
    MaxUnstored   \* bound: number of appends to the history that raise

ASSUME TelemetryAssumption ==
    /\ IsFiniteSet(Clients) /\ ChanSize \in Nat \ {0}
    /\ MaxSnapshots \in Nat /\ MaxPosts \in Nat /\ MaxUnstored \in Nat

VARIABLES
    settings,         \* load_gen_state, as the number of requests that changed it
    taken,            \* each snapshot: its kind, and the settings of that moment
    chan,             \* the channel's buffer, oldest first
    bpc,              \* _ws_broadcaster: "idle" (awaits the channel), "got", "send"
    cur, round, pos,  \* its snapshot, its copy of the roster, its place in that
    dead,             \* its list of clients whose send raised
    roster,           \* connected_ws
    cpc,              \* websocket_endpoint of each client
    gone,             \* clients whose connection is lost
    greet, got,       \* number of a client's greeting; broadcasts that reached it
    shown,            \* the settings in the last frame handed to a client's socket
    stored, unstored  \* ticks the history stored; ticks whose append raised

casterVars == <<chan, bpc, cur, round, pos, dead>>
clientVars == <<roster, cpc, gone, greet>>
vars == <<settings, taken, casterVars, clientVars, got, shown, stored, unstored>>

Present == {c \in Clients : cpc[c] \in {"greeting", "open"}}

Init ==
    /\ settings = 0 /\ shown = [c \in Clients |-> 0]
    /\ taken = <<>> /\ chan = <<>>
    /\ bpc = "idle" /\ cur = 0 /\ round = <<>> /\ pos = 0 /\ dead = {}
    /\ roster = <<>> /\ cpc = [c \in Clients |-> "new"] /\ gone = {}
    /\ greet = [c \in Clients |-> 0] /\ got = [c \in Clients |-> <<>>]
    /\ stored = {} /\ unstored = {}
\* The list without the clients of D, in their order: connected_ws.remove(ws) for
\* each of D that is on it.
Without(list, D) ==
    LET kept == {i \in DOMAIN list : list[i] \notin D}
        Upto(i) == Cardinality({j \in kept : j <= i})
    IN  [k \in 1 .. Cardinality(kept) |-> list[CHOOSE i \in kept : Upto(i) = k]]
-----------------------------------------------------------------------------
\* The next snapshot: its number, and the step that takes it.
Fresh == Len(taken) + 1
Take(kind) ==
    /\ Len(taken) < MaxSnapshots
    /\ taken' = Append(taken, [kind |-> kind, settings |-> settings])

Room == Len(chan) < ChanSize

\* send_nowait: straight to the waiting broadcaster, else into the buffer; when
\* that is full, WouldBlock is swallowed and the snapshot is lost.
Offer(s) ==
    /\ \/ /\ bpc = "idle"
          /\ bpc' = "got" /\ cur' = s /\ UNCHANGED chan
       \/ /\ bpc # "idle" /\ Room
          /\ chan' = Append(chan, s) /\ UNCHANGED <<bpc, cur>>
       \/ /\ bpc # "idle" /\ ~Room
          /\ UNCHANGED <<bpc, cur, chan>>
    /\ UNCHANGED <<round, pos, dead>>

\* Mutant of Remember: a tick that was not sent is not stored either.
RememberIfSent(s) ==
    IF bpc = "idle" \/ Room
    THEN stored' = stored \cup {s} /\ UNCHANGED unstored
    ELSE UNCHANGED <<stored, unstored>>

\* history.append, which may raise; the exception is swallowed.
Remember(s) ==
    \/ stored' = stored \cup {s} /\ UNCHANGED unstored
    \/ /\ Cardinality(unstored) < MaxUnstored
       /\ unstored' = unstored \cup {s} /\ UNCHANGED stored

\* One turn of metrics_broadcaster, and one call of on_snapshot.
Tick ==
    /\ Take("tick") /\ Offer(Fresh) /\ Remember(Fresh)
    /\ UNCHANGED <<settings, clientVars, got, shown>>

Emit ==
    /\ Take("emit") /\ Offer(Fresh)
    /\ UNCHANGED <<settings, clientVars, got, shown, stored, unstored>>

\* POST /api/loadgen, as far as a snapshot shows it.
ControlLoadgen ==
    /\ settings < MaxPosts
    /\ settings' = settings + 1
    /\ UNCHANGED <<taken, casterVars, clientVars, got, shown, stored, unstored>>
-----------------------------------------------------------------------------
\* Mutant of SettingsOf: the snapshot holds a copy of the dict.
SettingsAsTaken(s) == taken[s].settings

\* A snapshot holds the dict itself, and becomes text when a send of it starts.
SettingsOf(s) == settings

\* json.dumps and the call of send_text: the frame is on its way.
HandTo(c) == shown' = [shown EXCEPT ![c] = SettingsOf(cur)]

\* The broadcaster resumes with a snapshot and copies the roster.  The end of a
\* round runs on into the next receive.
NextOf == IF chan = <<>> THEN 0 ELSE Head(chan)

\* Mutant of Receive: the newest snapshot overtakes the older ones.
ReceiveNewest ==
    /\ bpc' = IF chan = <<>> THEN "idle" ELSE "got"
    /\ cur' = IF chan = <<>> THEN 0 ELSE Last(chan)
    /\ chan' = IF chan = <<>> THEN chan ELSE Front(chan)
    /\ round' = <<>> /\ pos' = 0 /\ dead' = {}

Receive ==
    /\ bpc' = IF chan = <<>> THEN "idle" ELSE "got"
    /\ cur' = NextOf
    /\ chan' = IF chan = <<>> THEN chan ELSE Tail(chan)
    /\ round' = <<>> /\ pos' = 0 /\ dead' = {}

StartRound ==
    /\ bpc = "got"
    /\ \/ roster = <<>> /\ Receive /\ UNCHANGED shown
       \/ /\ roster # <<>>
          /\ bpc' = "send" /\ round' = roster /\ pos' = 1
          /\ HandTo(roster[1])
          /\ UNCHANGED <<chan, cur, dead>>
    /\ UNCHANGED <<settings, taken, clientVars, got, stored, unstored>>

\* Mutant of GoOn: the first send that raises ends the round.
GoOnUnlessItFailed(failed) ==
    \/ /\ pos < Len(round) /\ failed = dead
       /\ pos' = pos + 1 /\ HandTo(round[pos + 1])
       /\ UNCHANGED <<bpc, cur, chan, round, dead, roster>>
    \/ /\ pos >= Len(round) \/ failed # dead
       /\ roster' = Without(roster, failed)
       /\ Receive /\ UNCHANGED shown

\* After a send: on to the next client, or the dead are struck off the roster,
\* unless their endpoint did that already, and the round is over.
GoOn(failed) ==
    \/ /\ pos < Len(round)
       /\ pos' = pos + 1 /\ dead' = failed /\ HandTo(round[pos + 1])
       /\ UNCHANGED <<bpc, cur, chan, round, roster>>
    \/ /\ pos >= Len(round)
       /\ roster' = Without(roster, failed)
       /\ Receive /\ UNCHANGED shown

\* send_text returns; a lost connection may go unnoticed.
Sent ==
    /\ bpc = "send" /\ pos \in DOMAIN round
    /\ LET c == round[pos]
       IN  /\ c \in Present
           /\ got' = IF c \in gone THEN got ELSE [got EXCEPT ![c] = Append(@, cur)]
    /\ GoOn(dead)
    /\ UNCHANGED <<settings, taken, cpc, gone, greet, stored, unstored>>

\* Mutant of SendFails: the send is tried again.
SendFailsRetried ==
    /\ bpc = "send" /\ pos \in DOMAIN round
    /\ round[pos] \in gone \/ round[pos] \notin Present
    /\ UNCHANGED vars

\* send_text raises: the connection is lost, or its endpoint has left.
SendFails ==
    /\ bpc = "send" /\ pos \in DOMAIN round
    /\ LET c == round[pos]
       IN  (c \in gone \/ c \notin Present) /\ GoOn(dead \cup {c})
    /\ UNCHANGED <<settings, taken, cpc, gone, greet, got, stored, unstored>>
-----------------------------------------------------------------------------
\* websocket_endpoint: once accepted, the client is on the roster, and a greeting
\* with the state of this moment is on its way.
Join(c) ==
    /\ cpc[c] = "new"
    /\ cpc' = [cpc EXCEPT ![c] = "greeting"]
    /\ roster' = Append(roster, c)
    /\ Take("greet") /\ greet' = [greet EXCEPT ![c] = Fresh]
    /\ shown' = [shown EXCEPT ![c] = settings]
    /\ UNCHANGED <<settings, casterVars, gone, got, stored, unstored>>

Greeted(c) ==
    /\ cpc[c] = "greeting"
    /\ cpc' = [cpc EXCEPT ![c] = "open"]
    /\ UNCHANGED <<settings, taken, casterVars, roster, gone, greet, got, shown, stored, unstored>>

Disconnect(c) ==
    /\ c \in Present \ gone
    /\ gone' = gone \cup {c}
    /\ UNCHANGED <<settings, taken, casterVars, roster, cpc, greet, got, shown, stored, unstored>>

\* Mutant of Leave: only a client that was greeted is struck off.
LeaveIfGreeted(c) ==
    /\ cpc[c] = "open" \/ (cpc[c] = "greeting" /\ c \in gone)
    /\ cpc' = [cpc EXCEPT ![c] = "closed"]
    /\ roster' = IF cpc[c] = "open" THEN Without(roster, {c}) ELSE roster
    /\ UNCHANGED <<settings, taken, casterVars, gone, greet, got, shown, stored, unstored>>

\* The greeting raises, or the receive loop ends: the connection is lost, or the
\* client sent what is not JSON.
Leave(c) ==
    /\ cpc[c] = "open" \/ (cpc[c] = "greeting" /\ c \in gone)
    /\ cpc' = [cpc EXCEPT ![c] = "closed"]
    /\ roster' = Without(roster, {c})
    /\ UNCHANGED <<settings, taken, casterVars, gone, greet, got, shown, stored, unstored>>
-----------------------------------------------------------------------------
\* No more snapshots, and the broadcaster waits: the bound is reached.
Rest == Len(taken) = MaxSnapshots /\ bpc = "idle" /\ UNCHANGED vars

Next ==
    \/ Tick \/ Emit \/ ControlLoadgen
    \/ StartRound \/ Sent \/ SendFails
    \/ \E c \in Clients : Join(c) \/ Greeted(c) \/ Disconnect(c) \/ Leave(c)
    \/ Rest

Spec == Init /\ [][Next]_vars

\* The broadcaster runs when it can, and a send to a client that has gone raises in
\* the end.  Nothing is assumed of a client that is there: it may never read its
\* socket, and the code sets no limit to a send.
FairSpec == Spec /\ WF_vars(StartRound) /\ WF_vars(SendFails)
-----------------------------------------------------------------------------
Numbers == 0 .. MaxSnapshots

TelemetryTypeOK ==
    /\ settings \in 0 .. MaxPosts /\ shown \in [Clients -> 0 .. MaxPosts]
    /\ taken \in Seq([kind : {"tick", "emit", "greet"}, settings : 0 .. MaxPosts])
    /\ Len(taken) \in Numbers
    /\ chan \in Seq(Numbers \ {0}) /\ Len(chan) <= ChanSize
    /\ bpc \in {"idle", "got", "send"} /\ cur \in Numbers
    /\ round \in Seq(Clients) /\ pos \in 0 .. Len(round)
    /\ roster \in Seq(Clients)
    /\ dead \in SUBSET Clients /\ gone \in SUBSET Clients
    /\ cpc \in [Clients -> {"new", "greeting", "open", "closed"}]
    /\ greet \in [Clients -> Numbers] /\ got \in [Clients -> Seq(Numbers)]
    /\ stored \in SUBSET Numbers /\ unstored \in SUBSET Numbers

\* The roster, which two tasks edit across their awaits, is right at all times:
\* nobody is on it twice, whoever has left is not, and whoever is present and
\* still connected is.
RosterIsRight ==
    /\ IsInjective(roster)
    /\ Range(roster) \subseteq Present
    /\ Present \ gone \subseteq Range(roster)

\* No dashboard sees broadcasts out of order or twice.  A client is greeted with
\* the state of the moment, then gets what was queued before: that backlog is at
\* most what the channel holds and the snapshot in hand.
FramesInOrder ==
    \A c \in Clients :
        /\ \A i, j \in DOMAIN got[c] : i < j => got[c][i] < got[c][j]
        /\ Cardinality({i \in DOMAIN got[c] : got[c][i] < greet[c]}) <= ChanSize + 1

\* A round leaves nobody out: who was on the roster when it began and is still
\* there, connected, when it ends has got the snapshot, whoever else left during
\* the round.
RoundEnds == bpc = "send" /\ (bpc' # "send" \/ cur' # cur)
NobodyLeftOut ==
    RoundEnds => \A c \in Range(round) \cap Range(roster') :
                    c \in gone \/ cur \in Range(got'[c])
NobodySkipped == [][NobodyLeftOut]_vars

\* The load generator's switch never flips back on a dashboard: a snapshot that
\* was queued before a change of the settings, and is sent after it or after a
\* greeting that shows it, does not show the old ones.
ShownGrows == \A c \in Clients : shown'[c] >= shown[c]
SettingsNeverGoBack == [][ShownGrows]_vars

\* The charts lose no tick to a slow dashboard: a tick the channel had no room
\* for is in the history, unless the history itself failed.
HistoryMissesNoTick ==
    {i \in DOMAIN taken : taken[i].kind = "tick"} = stored \cup unstored

\* The broadcaster comes back to its receive again and again, unless it stays for ever
\* in one send, to a client that is connected and at its endpoint: the one thing in the
\* broadcast that has no time limit.  A lost connection, an endpoint that has ended, a
\* roster that changes under the round, a full channel do not hold it up.
Stalled == bpc = "send" /\ round[pos] \in Present \ gone
OnlySilentClientStalls == []<>(bpc = "idle") \/ <>[]Stalled
=============================================================================
