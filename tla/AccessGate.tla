----------------------------- MODULE AccessGate -----------------------------
(***************************************************************************)
(* What the observation ledger promises its readers, without chains, heads *)
(* or ids: per Release, the last event of the provider that was validated, *)
(* whether the provider's last answer was a valid one, and whether normal  *)
(* access is open.                                                         *)
(***************************************************************************)
EXTENDS Naturals

CONSTANTS Releases, Events, None

VARIABLES provider,   \* last validated provider event, None before the first
          confirmed,  \* Releases whose last provider answer was a valid one
          open        \* Releases that new runs may use

gateVars == <<provider, confirmed, open>>

GateInit ==
    /\ provider = [r \in Releases |-> None]
    /\ confirmed = {}
    /\ open = {}

(* The provider's story only goes forward, one event at a time, until withdrawal. *)
Continues(p, e) ==
    \/ p = None /\ e.seq = 1
    \/ p = e
    \/ /\ p # None /\ p.status # "withdrawn"
       /\ e.seq = p.seq + 1 /\ e.prev = p.hash

Observe(r, e) ==
    /\ Continues(provider[r], e)
    /\ provider' = [provider EXCEPT ![r] = e]
    /\ confirmed' = confirmed \cup {r}
    /\ open' = open \ {r}

LoseTouch(r) ==
    /\ confirmed' = confirmed \ {r}
    /\ open' = open \ {r}
    /\ UNCHANGED provider

Admit(r) ==
    /\ r \in confirmed /\ provider[r] # None /\ provider[r].status = "published"
    /\ open' = open \cup {r}
    /\ UNCHANGED <<provider, confirmed>>

Refuse(r) ==
    /\ open' = open \ {r}
    /\ UNCHANGED <<provider, confirmed>>

GateNext == \E r \in Releases :
    \/ \E e \in Events : Observe(r, e)
    \/ LoseTouch(r) \/ Admit(r) \/ Refuse(r)

GateSpec == GateInit /\ [][GateNext]_gateVars
=============================================================================
