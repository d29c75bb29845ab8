--------------------------- MODULE InFlightProofs ---------------------------
(***************************************************************************)
(* Theorems about InFlight, for any sets of calls, slots and results.      *)
(*                                                                         *)
(* The safety properties follow from IInv, which is inductive: the map and *)
(* the live entries determine each other (MapHoldsLiveEntries), a call     *)
(* waits on an entry of its own key (CallRecordsConsistent), and a result  *)
(* that was returned is the stored one (ReturnedFromClosed).               *)
(***************************************************************************)
EXTENDS InFlight, TLAPS

\* The strengthening holds before the first call.
LEMMA InitEstablishesIInv == Init => IInv
  BY NoneIsNoValue
  DEF Init, IInv, TypeOK, MapHoldsLiveEntries, CallRecordsConsistent,
      ReturnedFromClosed, Live, DoneClosed, Stages

\* Every step of a caller or of a fetching goroutine keeps the strengthening.
LEMMA StepKeepsIInv == IInv /\ [Next]_vars => IInv'
<1> USE NoneIsNoValue
<1> SUFFICES ASSUME IInv, [Next]_vars PROVE IInv'
    OBVIOUS
<1> USE DEF IInv
<1>1. ASSUME NEW c \in Calls, NEW s \in Slots, Join(c, s)
      PROVE  IInv'
  <2>1. TypeOK'
    BY <1>1 DEF TypeOK, Join
  <2>2. MapHoldsLiveEntries'
    BY <1>1 DEF TypeOK, Join, MapHoldsLiveEntries, CallRecordsConsistent, Live
  <2>3. CallRecordsConsistent'
    <3>1. waiter[s] \in Calls /\ slot[waiter[s]] = s /\ Live(waiter[s])
      BY <1>1 DEF TypeOK, Join, MapHoldsLiveEntries
    <3>2. waiter[s] # c /\ joined[waiter[s]] = waiter[s]
      BY <3>1, <1>1 DEF CallRecordsConsistent, Live, Join
    <3> QED
      BY <1>1, <3>1, <3>2 DEF TypeOK, Join, CallRecordsConsistent, Live
  <2>4. ReturnedFromClosed'
    BY <1>1 DEF TypeOK, Join, ReturnedFromClosed, CallRecordsConsistent, DoneClosed
  <2> QED BY <2>1, <2>2, <2>3, <2>4
<1>2. ASSUME NEW c \in Calls, NEW s \in Slots, Start(c, s)
      PROVE  IInv'
  <2>0. stage[c] = "none" /\ got[c] = None /\ res[c] = None
    BY <1>2 DEF Start, CallRecordsConsistent, TypeOK
  <2>1. TypeOK'
    BY <1>2 DEF TypeOK, Start, Stages
  <2>2. MapHoldsLiveEntries'
    BY <1>2, <2>0 DEF TypeOK, Start, MapHoldsLiveEntries, Live
  <2>3. CallRecordsConsistent'
    BY <1>2, <2>0 DEF TypeOK, Start, CallRecordsConsistent
  <2>4. ReturnedFromClosed'
    BY <1>2, <2>0
    DEF TypeOK, Start, ReturnedFromClosed, CallRecordsConsistent, DoneClosed
  <2> QED BY <2>1, <2>2, <2>3, <2>4
<1>3. ASSUME NEW c \in Calls, NEW r \in Results, FetchReturns(c, r)
      PROVE  IInv'
  <2>1. TypeOK'
    BY <1>3 DEF TypeOK, FetchReturns, Stages
  <2>2. MapHoldsLiveEntries'
    BY <1>3 DEF TypeOK, FetchReturns, MapHoldsLiveEntries, Live
  <2>3. CallRecordsConsistent'
    BY <1>3 DEF TypeOK, FetchReturns, CallRecordsConsistent
  <2>4. ReturnedFromClosed'
    BY <1>3 DEF TypeOK, FetchReturns, ReturnedFromClosed, CallRecordsConsistent,
                DoneClosed
  <2> QED BY <2>1, <2>2, <2>3, <2>4
<1>4. ASSUME NEW c \in Calls, CloseDone(c)
      PROVE  IInv'
  <2>1. TypeOK'
    BY <1>4 DEF TypeOK, CloseDone, Stages
  <2>2. MapHoldsLiveEntries'
    BY <1>4 DEF TypeOK, CloseDone, MapHoldsLiveEntries, Live
  <2>3. CallRecordsConsistent'
    BY <1>4 DEF TypeOK, CloseDone, CallRecordsConsistent
  <2>4. ReturnedFromClosed'
    BY <1>4 DEF TypeOK, CloseDone, ReturnedFromClosed, CallRecordsConsistent,
                DoneClosed
  <2> QED BY <2>1, <2>2, <2>3, <2>4
<1>5. ASSUME NEW c \in Calls, Remove(c)
      PROVE  IInv'
  <2>0. waiter[slot[c]] = c /\ slot[c] \in Slots
    BY <1>5 DEF Remove, MapHoldsLiveEntries, CallRecordsConsistent, Live, TypeOK
  <2>1. TypeOK'
    BY <1>5 DEF TypeOK, Remove, Stages
  <2>2. MapHoldsLiveEntries'
    BY <1>5, <2>0 DEF TypeOK, Remove, MapHoldsLiveEntries, Live
  <2>3. CallRecordsConsistent'
    BY <1>5 DEF TypeOK, Remove, CallRecordsConsistent
  <2>4. ReturnedFromClosed'
    BY <1>5 DEF TypeOK, Remove, ReturnedFromClosed, CallRecordsConsistent,
                DoneClosed
  <2> QED BY <2>1, <2>2, <2>3, <2>4
<1>6. ASSUME NEW c \in Calls, Receive(c)
      PROVE  IInv'
  <2>1. TypeOK'
    BY <1>6 DEF TypeOK, Receive
  <2>2. MapHoldsLiveEntries'
    BY <1>6 DEF Receive, MapHoldsLiveEntries, Live
  <2>3. CallRecordsConsistent'
    BY <1>6 DEF TypeOK, Receive, CallRecordsConsistent
  <2>4. ReturnedFromClosed'
    BY <1>6 DEF TypeOK, Receive, ReturnedFromClosed, DoneClosed
  <2> QED BY <2>1, <2>2, <2>3, <2>4
<1>7. CASE UNCHANGED vars
  BY <1>7 DEF vars, TypeOK, MapHoldsLiveEntries, CallRecordsConsistent,
              ReturnedFromClosed, Live, DoneClosed
<1> QED
  BY <1>1, <1>2, <1>3, <1>4, <1>5, <1>6, <1>7 DEF Next

\* The coalescing group always satisfies the strengthening.
THEOREM InvariantHolds == Spec => []IInv
  BY InitEstablishesIInv, StepKeepsIInv, PTL DEF Spec

\* The group's variables keep their types.
THEOREM TypeCorrect == Spec => []TypeOK
<1>1. IInv => TypeOK
  BY DEF IInv
<1> QED BY <1>1, InvariantHolds, PTL

\* One client never runs two fetches for one key at a time: the lookup, the
\* registration and the later delete are different critical sections, but an
\* entry leaves the map only through its own goroutine (lines 141-157).
THEOREM OneFetchAtATime == Spec => []OneFlightPerSlot
<1>1. IInv => OneFlightPerSlot
  BY DEF IInv, MapHoldsLiveEntries, OneFlightPerSlot
<1> QED BY <1>1, InvariantHolds, PTL

\* The delete by key at line 155 removes the entry of the goroutine that runs
\* it, never one that another call registered in between.
THEOREM DeletesOwnEntry == Spec => []MapHoldsLiveEntries
<1>1. IInv => MapHoldsLiveEntries
  BY DEF IInv
<1> QED BY <1>1, InvariantHolds, PTL

\* No caller receives the permissions of another user or tenant, whatever the
\* order in which fetches and callers of different keys interleave.
THEOREM ResultsAreForOwnKey == Spec => []OwnKeyResult
<1>1. IInv => OwnKeyResult
  BY DEF IInv, CallRecordsConsistent, ReturnedFromClosed, OwnKeyResult
<1> QED BY <1>1, InvariantHolds, PTL
-----------------------------------------------------------------------------
(***************************************************************************)
(* InFlight implements SharedFetch: entering is Wait or Share, closing the *)
(* channel is Announce, deleting the entry is Retire, returning is Deliver *)
(* and the fetch itself is invisible.                                      *)
(***************************************************************************)

\* No call, no round.
LEMMA InitImplementsInit == Init => Abstract!Init
<1> USE NoneIsNoValue
<1> SUFFICES ASSUME Init PROVE Abstract!Init
    OBVIOUS
<1>1. RoundMembers = [s \in Slots |-> {}]
  BY DEF Init, RoundMembers, Blocked
<1>2. RoundRunning = [s \in Slots |-> FALSE]
  BY DEF Init, RoundRunning
<1>3. RoundVerdict = [s \in Slots |-> None]
  BY DEF Init, RoundVerdict
<1>4. ResultDue = [c \in Calls |-> None]
  BY DEF Init, ResultDue
<1> QED BY <1>1, <1>2, <1>3, <1>4 DEF Abstract!Init, Init

\* Under the inductive invariant a step of InFlight is a step of SharedFetch.
LEMMA StepImplementsStep ==
    IInv /\ [Next]_vars => [Abstract!Next]_(Abstract!vars)
<1> USE NoneIsNoValue
<1> SUFFICES ASSUME IInv, [Next]_vars PROVE [Abstract!Next]_(Abstract!vars)
    OBVIOUS
<1> USE DEF IInv
<1>1. ASSUME NEW c \in Calls, NEW s \in Slots, Join(c, s)
      PROVE  Abstract!Wait(c, s) \/ Abstract!Share(c, s)
  <2> DEFINE e == waiter[s]
  <2>1. e \in Calls /\ slot[e] = s /\ Live(e) /\ e # c
    BY <1>1 DEF TypeOK, Join, MapHoldsLiveEntries, CallRecordsConsistent, Live
  <2>2. ~Abstract!Entered(c)
    BY <1>1 DEF Join, Abstract!Entered, ResultDue, RoundMembers, Blocked
  <2>3. RoundRunning' = RoundRunning /\ RoundVerdict' = RoundVerdict
    BY <1>1 DEF Join, RoundRunning, RoundVerdict
  <2>4. CASE stage[e] = "closed"
    <3>1. RoundVerdict[s] = res[e] /\ res[e] # None
      BY <2>4, <2>1 DEF RoundVerdict, CallRecordsConsistent, TypeOK
    <3>2. ResultDue' = [ResultDue EXCEPT ![c] = RoundVerdict[s]]
      BY <1>1, <2>1, <2>4, <3>1
      DEF Join, ResultDue, DoneClosed, TypeOK, CallRecordsConsistent
    <3>3. RoundMembers' = RoundMembers
      BY <1>1, <2>1, <2>4 DEF Join, RoundMembers, Blocked, DoneClosed, TypeOK
    <3> QED BY <1>1, <2>2, <2>3, <3>1, <3>2, <3>3 DEF Abstract!Share, Join
  <2>5. CASE stage[e] # "closed"
    <3>1. RoundVerdict[s] = None /\ RoundRunning[s] = TRUE
      BY <2>5, <2>1, <1>1 DEF RoundVerdict, RoundRunning, Join
    <3>2. ~DoneClosed(e)
      BY <2>5, <2>1 DEF Live, DoneClosed
    <3>3. RoundMembers' = [RoundMembers EXCEPT ![s] = @ \cup {c}]
      <4>1. \A d \in Calls : Blocked(d)' <=> Blocked(d) \/ d = c
        BY <1>1, <2>1, <3>2 DEF Join, Blocked, DoneClosed, TypeOK
      <4>2. slot' = [slot EXCEPT ![c] = s] /\ ~Blocked(c)
        BY <1>1 DEF Join, Blocked
      <4>3. \A t \in Slots : RoundMembers'[t] =
                IF t = s THEN RoundMembers[t] \cup {c} ELSE RoundMembers[t]
        BY <4>1, <4>2 DEF RoundMembers, TypeOK
      <4> QED BY <4>3 DEF RoundMembers
    <3>4. RoundRunning = [RoundRunning EXCEPT ![s] = TRUE]
      BY <3>1 DEF RoundRunning
    <3>5. ResultDue' = ResultDue
      BY <1>1, <2>1, <3>2 DEF Join, ResultDue, DoneClosed, TypeOK
    <3> QED
      BY <1>1, <2>2, <2>3, <3>1, <3>3, <3>4, <3>5 DEF Abstract!Wait, Join
  <2> QED BY <2>4, <2>5
<1>2. ASSUME NEW c \in Calls, NEW s \in Slots, Start(c, s)
      PROVE  Abstract!Wait(c, s)
  <2>0. stage[c] = "none" /\ got[c] = None /\ res[c] = None
    BY <1>2 DEF Start, CallRecordsConsistent, TypeOK
  <2>1. ~Abstract!Entered(c)
    BY <1>2 DEF Start, Abstract!Entered, ResultDue, RoundMembers, Blocked
  <2>2. RoundVerdict[s] = None
    BY <1>2 DEF Start, RoundVerdict
  <2>3. RoundVerdict' = RoundVerdict
    BY <1>2, <2>0 DEF Start, RoundVerdict, TypeOK
  <2>4. RoundRunning' = [RoundRunning EXCEPT ![s] = TRUE]
    BY <1>2 DEF Start, RoundRunning, TypeOK
  <2>5. \A d \in Calls \ {c} : joined[d] # None => joined[d] # c
    BY <2>0 DEF CallRecordsConsistent
  <2>6. RoundMembers' = [RoundMembers EXCEPT ![s] = @ \cup {c}]
    <3>1. \A d \in Calls : Blocked(d)' <=> Blocked(d) \/ d = c
      BY <1>2, <2>0, <2>5 DEF Start, Blocked, DoneClosed, TypeOK
    <3>2. slot' = [slot EXCEPT ![c] = s] /\ ~Blocked(c)
      BY <1>2 DEF Start, Blocked
    <3>3. \A t \in Slots : RoundMembers'[t] =
              IF t = s THEN RoundMembers[t] \cup {c} ELSE RoundMembers[t]
      BY <3>1, <3>2 DEF RoundMembers, TypeOK
    <3> QED BY <3>3 DEF RoundMembers
  <2>7. ResultDue' = ResultDue
    BY <1>2, <2>0, <2>5 DEF Start, ResultDue, DoneClosed, TypeOK
  <2> QED
    BY <1>2, <2>1, <2>2, <2>3, <2>4, <2>6, <2>7 DEF Abstract!Wait, Start
<1>3. ASSUME NEW c \in Calls, NEW r \in Results, FetchReturns(c, r)
      PROVE  UNCHANGED Abstract!vars
  <2>1. RoundMembers' = RoundMembers /\ RoundRunning' = RoundRunning
    BY <1>3
    DEF FetchReturns, RoundMembers, RoundRunning, Blocked, DoneClosed, TypeOK
  <2>2. RoundVerdict' = RoundVerdict
    BY <1>3 DEF FetchReturns, RoundVerdict, TypeOK
  <2>3. ResultDue' = ResultDue
    BY <1>3 DEF FetchReturns, ResultDue, DoneClosed, TypeOK
  <2> QED BY <1>3, <2>1, <2>2, <2>3 DEF FetchReturns, Abstract!vars
<1>4. ASSUME NEW c \in Calls, CloseDone(c)
      PROVE  \E s \in Slots, r \in Results : Abstract!Announce(s, r)
  <2> DEFINE s == slot[c]
             r == res[c]
  <2>1. s \in Slots /\ waiter[s] = c /\ r \in Results /\ joined[c] = c
    BY <1>4
    DEF CloseDone, MapHoldsLiveEntries, CallRecordsConsistent, Live, TypeOK
  <2>2. RoundRunning[s] /\ RoundVerdict[s] = None
    BY <1>4, <2>1 DEF CloseDone, RoundRunning, RoundVerdict
  <2>3. RoundRunning' = RoundRunning
    BY <1>4 DEF CloseDone, RoundRunning
  <2>4. \A t \in Slots : waiter[t] = c => t = s
    BY <2>1 DEF MapHoldsLiveEntries
  <2>5. RoundVerdict' = [RoundVerdict EXCEPT ![s] = r]
    BY <1>4, <2>1, <2>4 DEF CloseDone, RoundVerdict, TypeOK
  <2>6. \A d \in Calls : d \in RoundMembers[s] <=> joined[d] = c
    <3> TAKE d \in Calls
    <3>1. ASSUME joined[d] = c PROVE d \in RoundMembers[s]
      BY <3>1, <1>4, <2>1
      DEF CloseDone, RoundMembers, Blocked, DoneClosed, CallRecordsConsistent
    <3>2. ASSUME d \in RoundMembers[s] PROVE joined[d] = c
      <4>1. joined[d] \in Calls /\ ~DoneClosed(joined[d]) /\ slot[joined[d]] = s
            /\ stage[joined[d]] # "none"
        BY <3>2, <2>1 DEF RoundMembers, Blocked, CallRecordsConsistent, TypeOK
      <4>2. Live(joined[d])
        BY <4>1 DEF Live, DoneClosed, TypeOK, Stages
      <4> QED BY <4>1, <4>2, <2>1 DEF MapHoldsLiveEntries
    <3> QED BY <3>1, <3>2
  <2>7. RoundMembers' = [RoundMembers EXCEPT ![s] = {}]
    <3>1. \A d \in Calls : Blocked(d)' <=> Blocked(d) /\ joined[d] # c
      BY <1>4, <2>1 DEF CloseDone, Blocked, DoneClosed, TypeOK
    <3>2. \A d \in Calls : joined[d] = c => slot[d] = s
      BY <2>1, <2>6 DEF RoundMembers
    <3>3. \A d \in Calls : Blocked(d)' => slot[d] # s
      BY <3>1, <2>1, <2>6 DEF RoundMembers
    <3> QED BY <3>1, <3>2, <3>3, <1>4 DEF CloseDone, RoundMembers
  <2>8. ResultDue' = [d \in Calls |->
            IF d \in RoundMembers[s] THEN r ELSE ResultDue[d]]
    BY <1>4, <2>1, <2>6 DEF CloseDone, ResultDue, DoneClosed, TypeOK
  <2>9. Abstract!Announce(s, r)
    BY <1>4, <2>2, <2>3, <2>5, <2>7, <2>8 DEF Abstract!Announce, CloseDone
  <2> QED BY <2>1, <2>9
<1>5. ASSUME NEW c \in Calls, Remove(c)
      PROVE  \E s \in Slots : Abstract!Retire(s)
  <2> DEFINE s == slot[c]
  <2>1. s \in Slots /\ waiter[s] = c /\ res[c] # None
    BY <1>5 DEF Remove, MapHoldsLiveEntries, CallRecordsConsistent, Live, TypeOK
  <2>2. RoundVerdict[s] # None
    BY <1>5, <2>1 DEF Remove, RoundVerdict
  <2>3. RoundRunning' = [RoundRunning EXCEPT ![s] = FALSE]
    BY <1>5, <2>1 DEF Remove, RoundRunning, TypeOK
  <2>4. \A t \in Slots : waiter[t] = c => t = s
    BY <2>1 DEF MapHoldsLiveEntries
  <2>5. RoundVerdict' = [RoundVerdict EXCEPT ![s] = None]
    BY <1>5, <2>1, <2>4 DEF Remove, RoundVerdict, TypeOK
  <2>6. RoundMembers' = RoundMembers /\ ResultDue' = ResultDue
    BY <1>5 DEF Remove, RoundMembers, ResultDue, Blocked, DoneClosed, TypeOK
  <2>7. Abstract!Retire(s)
    BY <1>5, <2>2, <2>3, <2>5, <2>6 DEF Abstract!Retire, Remove
  <2> QED BY <2>1, <2>7
<1>6. ASSUME NEW c \in Calls, Receive(c)
      PROVE  Abstract!Deliver(c)
  <2>1. ResultDue[c] # None /\ ResultDue[c] = res[joined[c]]
    BY <1>6 DEF Receive, ResultDue, CallRecordsConsistent, DoneClosed, TypeOK
  <2>2. RoundMembers' = RoundMembers /\ RoundRunning' = RoundRunning
        /\ RoundVerdict' = RoundVerdict /\ ResultDue' = ResultDue
    BY <1>6 DEF Receive, RoundMembers, RoundRunning, RoundVerdict, ResultDue,
                Blocked, DoneClosed
  <2> QED BY <1>6, <2>1, <2>2 DEF Abstract!Deliver, Receive
<1>7. CASE UNCHANGED vars
  BY <1>7 DEF vars, Abstract!vars, RoundMembers, RoundRunning, RoundVerdict,
              ResultDue, Blocked, DoneClosed
<1> QED
  BY <1>1, <1>2, <1>3, <1>4, <1>5, <1>6, <1>7 DEF Next, Abstract!Next

\* getOrStart keeps the promise of SharedFetch for any number of callers and
\* keys: one fetch per round, its result to every member, nothing from a round
\* that has ended.
THEOREM Refinement == Spec => RefinesSharedFetch
  BY InitImplementsInit, StepImplementsStep, InvariantHolds, PTL
  DEF Spec, RefinesSharedFetch, Abstract!Spec
=============================================================================
