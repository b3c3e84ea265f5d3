--------------------------- MODULE AdmissionControl ---------------------------
(* What a caller of DHTQueryCoordinator relies on (src/src/coordinator.py,     *)
(* the module and class docstrings), without queues, layers or timeouts: a     *)
(* pool of `size` slots that can be resized while it is in use.  Nobody is     *)
(* admitted above the size, whoever is admitted stays so until it finishes,    *)
(* and a client that finishes was admitted or had given up.                    *)
EXTENDS Naturals, FiniteSets

CONSTANTS Clients, Sizes, InitSize

VARIABLES phase, size
vars == <<phase, size>>

Phases == {"new", "queued", "admitted", "leaving", "finished"}
In(p) == {c \in Clients : phase[c] = p}

Init == phase = [c \in Clients |-> "new"] /\ size = InitSize

\* The clients of S are let in, as far as the size allows.
Fits(S, n) == S = {} \/ Cardinality(In("admitted") \cup S) <= n
Admitting(S) == [c \in Clients |-> IF c \in S THEN "admitted" ELSE phase[c]]

\* A new client joins the queue, or a slot, or gives up before it starts.
Arrive(c) ==
    /\ phase[c] = "new"
    /\ \E p \in {"queued", "leaving", "admitted"} :
          /\ p = "admitted" => Fits({c}, size)
          /\ phase' = [phase EXCEPT ![c] = p]
    /\ UNCHANGED size

\* A queued client gets a slot without any other leaving.
Admit(c) ==
    /\ phase[c] = "queued" /\ Fits({c}, size)
    /\ phase' = Admitting({c})
    /\ UNCHANGED size

\* A queued client gives up.
GiveUp(c) ==
    /\ phase[c] = "queued"
    /\ phase' = [phase EXCEPT ![c] = "leaving"]
    /\ UNCHANGED size

\* A client finishes; its slot, if it has one, may go to a queued client.
Finish(c) ==
    /\ phase[c] \in {"admitted", "leaving"}
    /\ \E S \in SUBSET In("queued") :
          /\ S = {} \/ Cardinality((In("admitted") \ {c}) \cup S) <= size
          /\ phase' = [Admitting(S) EXCEPT ![c] = "finished"]
    /\ UNCHANGED size

\* The pool is resized; new slots may go to queued clients at once.
Resize(n) ==
    /\ size' = n
    /\ \E S \in SUBSET In("queued") : Fits(S, n) /\ phase' = Admitting(S)

Next ==
    \/ \E c \in Clients : Arrive(c) \/ Admit(c) \/ GiveUp(c) \/ Finish(c)
    \/ \E n \in Sizes : Resize(n)

Spec == Init /\ [][Next]_vars
=============================================================================
