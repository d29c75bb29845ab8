---------------------------- MODULE SharedFetch ----------------------------
(***************************************************************************)
(* What fetch coalescing promises its callers, with no entries, channels   *)
(* or goroutines: for each slot (one SDK client and one "user:tenant" key) *)
(* there is at most one round at a time, a round runs one fetch, and every *)
(* call that enters while the round is current gets that fetch's result.   *)
(*                                                                         *)
(* A round stays current for a while after its result is announced: a call *)
(* that enters then gets the announced result at once, however old it is.  *)
(* That window is part of the promise because the code has it: the result  *)
(* is published before the slot is cleared (permission_client.go:152-156). *)
(***************************************************************************)
CONSTANTS Calls,    \* invocations of getOrStart
          Slots,    \* one per client and per key string
          Results,  \* what one fetch can return, errors included
          None      \* "no result"

VARIABLES members,  \* members[s]: calls waiting for the round of slot s
          running,  \* running[s]: slot s has a current round
          verdict,  \* verdict[s]: the current round's announced result
          due,      \* due[c]: the result call c is going to return
          got       \* got[c]: the result call c has returned

vars == <<members, running, verdict, due, got>>

TypeOK ==
    /\ members \in [Slots -> SUBSET Calls]
    /\ running \in [Slots -> BOOLEAN]
    /\ verdict \in [Slots -> Results \cup {None}]
    /\ due \in [Calls -> Results \cup {None}]
    /\ got \in [Calls -> Results \cup {None}]

Init ==
    /\ members = [s \in Slots |-> {}]
    /\ running = [s \in Slots |-> FALSE]
    /\ verdict = [s \in Slots |-> None]
    /\ due = [c \in Calls |-> None]
    /\ got = [c \in Calls |-> None]

Entered(c) == due[c] # None \/ \E s \in Slots : c \in members[s]

\* A call opens a round, or joins the one that is fetching.
Wait(c, s) ==
    /\ ~Entered(c)
    /\ verdict[s] = None
    /\ members' = [members EXCEPT ![s] = @ \cup {c}]
    /\ running' = [running EXCEPT ![s] = TRUE]
    /\ UNCHANGED <<verdict, due, got>>

\* A call that arrives after the announcement shares the announced result.
Share(c, s) ==
    /\ ~Entered(c)
    /\ verdict[s] # None
    /\ due' = [due EXCEPT ![c] = verdict[s]]
    /\ UNCHANGED <<members, running, verdict, got>>

\* The round's only result reaches every member at once.
Announce(s, r) ==
    /\ running[s] /\ verdict[s] = None
    /\ verdict' = [verdict EXCEPT ![s] = r]
    /\ due' = [c \in Calls |-> IF c \in members[s] THEN r ELSE due[c]]
    /\ members' = [members EXCEPT ![s] = {}]
    /\ UNCHANGED <<running, got>>

\* Only an announced round ends.
Retire(s) ==
    /\ verdict[s] # None
    /\ running' = [running EXCEPT ![s] = FALSE]
    /\ verdict' = [verdict EXCEPT ![s] = None]
    /\ UNCHANGED <<members, due, got>>

Deliver(c) ==
    /\ due[c] # None
    /\ got[c] = None
    /\ got' = [got EXCEPT ![c] = due[c]]
    /\ UNCHANGED <<members, running, verdict, due>>

Next ==
    \/ \E c \in Calls, s \in Slots : Wait(c, s) \/ Share(c, s)
    \/ \E s \in Slots, r \in Results : Announce(s, r)
    \/ \E s \in Slots : Retire(s)
    \/ \E c \in Calls : Deliver(c)

Spec == Init /\ [][Next]_vars
=============================================================================
