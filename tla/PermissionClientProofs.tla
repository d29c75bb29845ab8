----------------------- MODULE PermissionClientProofs -----------------------
(***************************************************************************)
(* Theorems about PermissionClient, for any number of calls, processes,    *)
(* users, tenants and mutations, any timeouts and any disturbances.        *)
(*                                                                         *)
(* The argument is the inductive invariant IInv. Its heart is              *)
(* CacheConsistent: an entry can only be filled by a slow fetch while the  *)
(* key is absent, and an absent entry of a settled key means that Helios   *)
(* never changed the key, so that no fetch can be old. What the coalescing *)
(* groups contribute, that a call waits on a fetch of its own key, is the  *)
(* invariant of InFlight, whose proof is reused through an INSTANCE.       *)
(***************************************************************************)
EXTENDS PermissionClient, TLAPS

Groups == INSTANCE InFlightProofs WITH
    Slots <- Clients \X Keys, Results <- Snapshots \cup {Error}

-----------------------------------------------------------------------------
(***************************************************************************)
(* Data.                                                                   *)
(***************************************************************************)
\* Slots, resolutions and the sentinels are told apart.
LEMMA DataFacts ==
    /\ MaxRev \in Nat
    /\ \A s \in Clients \X Keys : KeyOf(s) \in Keys /\ s # None
    /\ \A v \in Snapshots : v.of \in Keys /\ v.rev \in 0..MaxRev
    /\ \A k \in Keys, n \in 0..MaxRev : [of |-> k, rev |-> n] \in Snapshots
    /\ None \notin Snapshots /\ Error \notin Snapshots /\ ByContract \notin Snapshots
    /\ None # Error /\ None # ByContract /\ Error # ByContract
    /\ None \notin Calls
<1>1. None \notin Snapshots /\ Error \notin Snapshots /\ ByContract \notin Snapshots
  BY ConstantsDiffer DEF Snapshots, Keys
<1>2. \A s \in Clients \X Keys : KeyOf(s) \in Keys
  BY DEF KeyOf
<1>3. \A s \in Clients \X Keys : s # None
  BY ConstantsDiffer DEF Keys
<1>4. /\ \A v \in Snapshots : v.of \in Keys /\ v.rev \in 0..MaxRev
      /\ \A k \in Keys, n \in 0..MaxRev : [of |-> k, rev |-> n] \in Snapshots
  BY DEF Snapshots
<1> QED BY <1>1, <1>2, <1>3, <1>4, ConstantsDiffer

-----------------------------------------------------------------------------
(***************************************************************************)
(* The coalescing groups.                                                  *)
(***************************************************************************)
\* The invariant of InFlight, read in this module and in its proof module.
LEMMA SameInvariant == Groups!IInv <=> Flight!IInv
<1>1. Groups!TypeOK <=> Flight!TypeOK
  BY DEF Groups!TypeOK, Flight!TypeOK, Groups!Stages, Flight!Stages
<1>2. Groups!MapHoldsLiveEntries <=> Flight!MapHoldsLiveEntries
  BY DEF Groups!MapHoldsLiveEntries, Flight!MapHoldsLiveEntries,
         Groups!Live, Flight!Live
<1>3. Groups!CallRecordsConsistent <=> Flight!CallRecordsConsistent
  BY DEF Groups!CallRecordsConsistent, Flight!CallRecordsConsistent
<1>4. Groups!ReturnedFromClosed <=> Flight!ReturnedFromClosed
  BY DEF Groups!ReturnedFromClosed, Flight!ReturnedFromClosed,
         Groups!DoneClosed, Flight!DoneClosed
<1> QED BY <1>1, <1>2, <1>3, <1>4 DEF Groups!IInv, Flight!IInv

\* The steps of InFlight, read likewise.
LEMMA SameSteps == [Groups!Next]_(Groups!vars) <=> [Flight!Next]_(Flight!vars)
  BY DEF Groups!Next, Flight!Next, Groups!vars, Flight!vars,
         Groups!Join, Groups!Start, Groups!FetchReturns, Groups!CloseDone,
         Groups!Remove, Groups!Receive, Groups!DoneClosed,
         Flight!Join, Flight!Start, Flight!FetchReturns, Flight!CloseDone,
         Flight!Remove, Flight!Receive, Flight!DoneClosed

\* A step of the groups keeps their invariant (InFlightProofs).
LEMMA GroupsKeepInvariant ==
    Flight!IInv /\ [Flight!Next]_(Flight!vars) => Flight!IInv'
<1>1. Groups!NoneIsNoValue
  BY ConstantsDiffer DEF Groups!NoneIsNoValue, Keys, Snapshots
<1>2. Groups!IInv /\ [Groups!Next]_(Groups!vars) => Groups!IInv'
  BY <1>1, Groups!StepKeepsIInv
<1>3. Groups!IInv' <=> Flight!IInv'
  BY SameInvariant, PTL
<1> QED BY <1>2, <1>3, SameInvariant, SameSteps

\* What a call of the read path does to the groups is a step of theirs.
LEMMA StepsOfGroups ==
    ASSUME TypeOK, CallsInOrder, FetchesWithinWindow, [Next]_vars
    PROVE  [Flight!Next]_(Flight!vars)
<1> USE DEF vars, flightVars, clientVars, heliosVars, Flight!vars
<1>1. ASSUME NEW c \in Calls, EnterFlight(c)
      PROVE  Flight!Next
  BY <1>1 DEF EnterFlight, Flight!Next, CallsInOrder
<1>2. ASSUME NEW c \in Calls, Return(c) \/ CloseDone(c) \/ Remove(c)
      PROVE  Flight!Next
  BY <1>2 DEF Return, CloseDone, Remove, Flight!Next
<1>3. ASSUME NEW c \in Calls, FetchAndPopulate(c)
      PROVE  Flight!Next
  BY <1>3 DEF FetchAndPopulate, Flight!Next, TypeOK
<1>4. ASSUME NEW c \in Calls, FetchFails(c)
      PROVE  Flight!Next
  BY <1>4 DEF FetchFails, Flight!Next
<1>5. ASSUME NEW c \in Calls,
             ShortCircuit(c) \/ (\E s \in Clients \X Keys : Begin(c, s))
                \/ CacheHit(c) \/ CacheMiss(c) \/ CacheGetFails(c)
                \/ CancelContext(c) \/ HeliosAnswers(c)
      PROVE  UNCHANGED Flight!vars
  BY <1>5 DEF ShortCircuit, Begin, CacheHit, CacheMiss, CacheGetFails,
              CancelContext, HeliosAnswers
<1>6. ASSUME NEW k \in Keys, SharedCache(k)
      PROVE  UNCHANGED Flight!vars
  BY <1>6 DEF SharedCache, ChangeRole, RemoveMember, Mutate, WriteThrough,
              Invalidate, CommandFails, Expire
<1>7. ASSUME NEW t \in Tenants, InvalidateTenant(t)
      PROVE  UNCHANGED Flight!vars
  BY <1>7 DEF InvalidateTenant
<1> QED
  BY <1>1, <1>2, <1>3, <1>4, <1>5, <1>6, <1>7
  DEF Next, Call, Fetch, HeliosFails, TimesOut, LeaderCancelled

-----------------------------------------------------------------------------
(***************************************************************************)
(* The inductive invariant.                                                *)
(***************************************************************************)
\* It holds before the first call.
LEMMA InitEstablishesIInv == Init => IInv
<1> SUFFICES ASSUME Init PROVE IInv
    OBVIOUS
<1> USE DataFacts DEF Init, Cache!Init, Flight!Init
<1>1. Flight!IInv
  BY DEF Flight!IInv, Flight!TypeOK, Flight!MapHoldsLiveEntries,
         Flight!CallRecordsConsistent, Flight!ReturnedFromClosed,
         Flight!Live, Flight!DoneClosed, Flight!Stages
<1>2. TypeOK
  BY <1>1 DEF TypeOK, Cache!TypeOK, Flight!IInv
<1>3. CallsInOrder /\ FetchesWithinWindow
  BY DEF CallsInOrder, FetchesWithinWindow
<1>4. CacheConsistent /\ LookupFindsFloor /\ RepliesWithinWindow
  BY DEF CacheConsistent, LookupFindsFloor, RepliesWithinWindow, Settled
<1> QED BY <1>1, <1>2, <1>3, <1>4 DEF IInv
\* Types: the groups' part comes with their invariant.
LEMMA TypesKept ==
    ASSUME IInv, [Next]_vars, Flight!IInv'
    PROVE  TypeOK'
<1> USE DataFacts DEF IInv, TypeOK, Cache!TypeOK, flightVars, clientVars, heliosVars
<1>1. Flight!TypeOK'
  BY DEF Flight!IInv
<1>2. ASSUME NEW c \in Calls, ShortCircuit(c) PROVE TypeOK'
  BY <1>1, <1>2 DEF ShortCircuit
<1>3. ASSUME NEW c \in Calls, NEW s \in Clients \X Keys, Begin(c, s) PROVE TypeOK'
  BY <1>1, <1>3 DEF Begin, Cache!Hit
<1>4. ASSUME NEW c \in Calls, CacheHit(c) PROVE TypeOK'
  <2>1. store[KeyOf(req[c])] \in Snapshots
    BY <1>4 DEF CacheHit, Cache!Hit, CallsInOrder
  <2> QED BY <1>1, <1>4, <2>1 DEF CacheHit
<1>5. ASSUME NEW c \in Calls, CacheMiss(c) \/ CacheGetFails(c) PROVE TypeOK'
  BY <1>1, <1>5 DEF CacheMiss, CacheGetFails
<1>6. ASSUME NEW c \in Calls, EnterFlight(c) PROVE TypeOK'
  <2>1. req[c] \in Clients \X Keys
    BY <1>6 DEF EnterFlight, CallsInOrder
  <2>2. floor' \in [Calls -> 0..MaxRev]
    BY <1>6, <2>1 DEF EnterFlight, Flight!Join, Flight!TypeOK, Flight!IInv
  <2> QED BY <1>1, <1>6, <2>2 DEF EnterFlight
<1>7. ASSUME NEW c \in Calls, Return(c) PROVE TypeOK'
  BY <1>1, <1>7 DEF Return, Flight!Receive, Flight!IInv, Flight!TypeOK
<1>8. ASSUME NEW c \in Calls, CancelContext(c) PROVE TypeOK'
  BY <1>1, <1>8 DEF CancelContext
<1>9. ASSUME NEW c \in Calls, HeliosAnswers(c) PROVE TypeOK'
  <2>1. KeyOf(slot[c]) \in Keys
    BY <1>9 DEF HeliosAnswers, Flight!IInv, Flight!CallRecordsConsistent
  <2> QED BY <1>1, <1>9, <2>1 DEF HeliosAnswers
<1>10. ASSUME NEW c \in Calls, FetchAndPopulate(c) PROVE TypeOK'
  <2>1. store' \in [Keys -> Snapshots \cup {None}]
    BY <1>10 DEF FetchAndPopulate, Cache!SetNX
  <2> QED BY <1>1, <1>10, <2>1 DEF FetchAndPopulate
<1>11. ASSUME NEW c \in Calls, FetchFails(c) \/ CloseDone(c) \/ Remove(c) PROVE TypeOK'
  BY <1>1, <1>11 DEF FetchFails, CloseDone, Remove
<1>12. ASSUME NEW k \in Keys, ChangeRole(k) \/ RemoveMember(k) PROVE TypeOK'
  BY <1>1, <1>12 DEF ChangeRole, RemoveMember, Mutate
<1>13. ASSUME NEW k \in Keys, WriteThrough(k) PROVE TypeOK'
  BY <1>1, <1>13 DEF WriteThrough, Cache!WriteThrough, Settle
<1>14. ASSUME NEW K, Lapse(K)
       PROVE  lapsed' \in [Keys -> BOOLEAN] /\ floor' \in [Calls -> 0..MaxRev]
  BY <1>14 DEF Lapse
<1>15. ASSUME NEW K, Cache!Drop(K) PROVE store' \in [Keys -> Snapshots \cup {None}]
  BY <1>15 DEF Cache!Drop
<1>16. ASSUME NEW k \in Keys, Invalidate(k) PROVE TypeOK'
  BY <1>1, <1>14, <1>15, <1>16 DEF Invalidate, Settle
<1>17. ASSUME NEW k \in Keys, CommandFails(k) PROVE TypeOK'
  <2>1. store' \in [Keys -> Snapshots \cup {None}]
    BY <1>15, <1>17 DEF CommandFails, Cache!WriteThrough
  <2> QED BY <1>1, <1>14, <1>17, <2>1 DEF CommandFails, Settle
<1>18. ASSUME NEW k \in Keys, Expire(k) PROVE TypeOK'
  BY <1>1, <1>14, <1>15, <1>18 DEF Expire
<1>19. ASSUME NEW t \in Tenants, InvalidateTenant(t) PROVE TypeOK'
  BY <1>1, <1>14, <1>15, <1>19 DEF InvalidateTenant
<1>20. CASE UNCHANGED vars
  BY <1>1, <1>20 DEF vars
<1> QED
  BY <1>2, <1>3, <1>4, <1>5, <1>6, <1>7, <1>8, <1>9, <1>10, <1>11, <1>12, <1>13,
     <1>16, <1>17, <1>18, <1>19, <1>20
  DEF Next, Call, Fetch, SharedCache, HeliosFails, TimesOut, LeaderCancelled

\* Only a caller's own steps and drops touch the records of CallsInOrder, and a
\* drop touches no call that is in a group.
LEMMA OrderKept ==
    ASSUME IInv, [Next]_vars
    PROVE  CallsInOrder'
<1> USE DataFacts DEF IInv, TypeOK, CallsInOrder, flightVars, clientVars, heliosVars
<1>1. Flight!TypeOK /\ Flight!CallRecordsConsistent /\ Flight!MapHoldsLiveEntries
  BY DEF Flight!IInv
<1> USE <1>1 DEF Flight!TypeOK
<1>2. ASSUME NEW c \in Calls,
             ShortCircuit(c) \/ CacheHit(c) \/ CacheMiss(c) \/ CancelContext(c)
      PROVE  CallsInOrder'
  BY <1>2 DEF ShortCircuit, CacheHit, CacheMiss, CancelContext
\* A call that is not in a group yet is nobody's leader.
<1>3. ASSUME NEW c \in Calls, joined[c] = None
      PROVE  \A d \in Calls : joined[d] # c
  BY <1>3 DEF Flight!CallRecordsConsistent
<1>4. ASSUME NEW c \in Calls, NEW s \in Clients \X Keys, Begin(c, s)
      PROVE  CallsInOrder'
  BY <1>3, <1>4 DEF Begin
<1>5. ASSUME NEW c \in Calls, CacheGetFails(c)
      PROVE  CallsInOrder'
  BY <1>3, <1>5 DEF CacheGetFails
<1>6. ASSUME NEW c \in Calls, EnterFlight(c)
      PROVE  CallsInOrder'
  <2>1. joined[c] = None /\ req[c] \in Clients \X Keys /\ reply[c] = None
    BY <1>6 DEF EnterFlight
  <2>2. CASE Flight!Join(c, req[c]) /\ floor' = [floor EXCEPT ![c] = floor[waiter[req[c]]]]
    <3>1. waiter[req[c]] # c
      <4> DEFINE e == waiter[req[c]]
      <4>1. e \in Calls /\ Flight!Live(e)
        BY <2>1, <2>2 DEF Flight!Join, Flight!MapHoldsLiveEntries
      <4>2. joined[e] = e
        BY <4>1 DEF Flight!Live, Flight!CallRecordsConsistent
      <4> QED BY <2>1, <4>1, <4>2
    <3> QED BY <1>3, <1>6, <2>1, <2>2, <3>1 DEF EnterFlight, Flight!Join
  <2>3. CASE Flight!Start(c, req[c]) /\ floor' = [floor EXCEPT ![c] = db[KeyOf(req[c])]]
    BY <1>3, <1>6, <2>1, <2>3 DEF EnterFlight, Flight!Start
  <2> QED BY <1>6, <2>2, <2>3 DEF EnterFlight
<1>7. ASSUME NEW c \in Calls, Return(c)
      PROVE  CallsInOrder'
  BY <1>7 DEF Return, Flight!Receive
<1>8. ASSUME NEW c \in Calls,
             HeliosAnswers(c) \/ FetchAndPopulate(c) \/ FetchFails(c)
                \/ CloseDone(c) \/ Remove(c)
      PROVE  CallsInOrder'
  BY <1>8 DEF HeliosAnswers, FetchAndPopulate, FetchFails, CloseDone, Remove,
              Flight!FetchReturns, Flight!CloseDone, Flight!Remove
<1>9. ASSUME NEW k \in Keys, ChangeRole(k) \/ RemoveMember(k) \/ WriteThrough(k)
      PROVE  CallsInOrder'
  BY <1>9 DEF ChangeRole, RemoveMember, Mutate, WriteThrough
<1>10. ASSUME NEW K, Lapse(K), UNCHANGED <<pc, req, reply, joined, slot>>
       PROVE  CallsInOrder'
  <2>1. \A d \in Calls : joined[d] # None => floor'[d] = floor[d]
    BY <1>10 DEF Lapse
  <2>2. \A d \in Calls : joined[d] # None =>
            joined[d] \in Calls /\ joined[joined[d]] # None
    BY DEF Flight!CallRecordsConsistent
  <2> QED BY <1>10, <2>1, <2>2
<1>11. ASSUME NEW k \in Keys, Invalidate(k) \/ CommandFails(k) \/ Expire(k)
       PROVE  CallsInOrder'
  BY <1>10, <1>11 DEF Invalidate, CommandFails, Expire
<1>12. ASSUME NEW t \in Tenants, InvalidateTenant(t)
       PROVE  CallsInOrder'
  BY <1>10, <1>12 DEF InvalidateTenant
<1>13. CASE UNCHANGED vars
  BY <1>13 DEF vars
<1> QED
  BY <1>2, <1>4, <1>5, <1>6, <1>7, <1>8, <1>9, <1>11, <1>12, <1>13
  DEF Next, Call, Fetch, SharedCache, HeliosFails, TimesOut, LeaderCancelled

\* Helios's revision only grows, so what was within the window stays there.
LEMMA RevisionsGrow ==
    ASSUME TypeOK, [Next]_vars
    PROVE  \A k \in Keys : db'[k] \in Nat /\ db[k] <= db'[k]
<1> USE DataFacts DEF TypeOK, flightVars, clientVars, heliosVars
<1>1. ASSUME NEW c \in Calls, Call(c) \/ Fetch(c) PROVE UNCHANGED db
  BY <1>1 DEF Call, Fetch, ShortCircuit, Begin, CacheHit, CacheMiss, CacheGetFails,
              EnterFlight, Return, CancelContext, HeliosAnswers, FetchAndPopulate,
              HeliosFails, TimesOut, LeaderCancelled, FetchFails, CloseDone, Remove
<1>2. ASSUME NEW k \in Keys, SharedCache(k)
      PROVE  \A j \in Keys : db'[j] \in Nat /\ db[j] <= db'[j]
  BY <1>2 DEF SharedCache, ChangeRole, RemoveMember, Mutate, WriteThrough,
              Invalidate, CommandFails, Expire
<1>3. ASSUME NEW t \in Tenants, InvalidateTenant(t) PROVE UNCHANGED db
  BY <1>3 DEF InvalidateTenant
<1>4. CASE UNCHANGED vars
  BY <1>4 DEF vars
<1> QED BY <1>1, <1>2, <1>3, <1>4 DEF Next

\* Entries are filled by an answer of their own key or by a write-through, and
\* an answer can only fill an absent one.
LEMMA CacheConsistencyKept ==
    ASSUME IInv, [Next]_vars
    PROVE  CacheConsistent'
<1> USE DataFacts DEF IInv, TypeOK, Cache!TypeOK, CacheConsistent, Settled, Within,
                      Cache!Hit, flightVars, clientVars, heliosVars
<1>1. ASSUME NEW c \in Calls, Call(c) PROVE CacheConsistent'
  BY <1>1 DEF Call, ShortCircuit, Begin, CacheHit, CacheMiss, CacheGetFails,
              EnterFlight, Return, CancelContext
<1>2. ASSUME NEW c \in Calls, FetchAndPopulate(c) PROVE CacheConsistent'
  <2> DEFINE k == KeyOf(slot[c])
  <2>1. k \in Keys /\ answer[c] \in Snapshots /\ answer[c].of = k
        /\ 0 <= answer[c].rev /\ answer[c].rev <= db[k]
    BY <1>2 DEF FetchAndPopulate, FetchesWithinWindow, Flight!IInv,
                Flight!CallRecordsConsistent
  <2>2. UNCHANGED <<db, owed, lapsed>>
    BY <1>2 DEF FetchAndPopulate
  <2>3. CASE UNCHANGED store
    BY <2>2, <2>3
  <2>4. CASE Cache!SetNX(k, answer[c])
    BY <2>1, <2>2, <2>4 DEF Cache!SetNX
  <2> QED BY <1>2, <2>3, <2>4 DEF FetchAndPopulate
<1>3. ASSUME NEW c \in Calls,
             HeliosAnswers(c) \/ FetchFails(c) \/ CloseDone(c) \/ Remove(c)
      PROVE  CacheConsistent'
  BY <1>3 DEF HeliosAnswers, FetchFails, CloseDone, Remove
<1>4. ASSUME NEW k \in Keys, ChangeRole(k) \/ RemoveMember(k)
      PROVE  CacheConsistent'
  BY <1>4 DEF ChangeRole, RemoveMember, Mutate
<1>5. ASSUME NEW k \in Keys, WriteThrough(k) PROVE CacheConsistent'
  BY <1>5 DEF WriteThrough, Cache!WriteThrough, Settle
\* A dropped key is not settled, and the other keys keep their entries.
<1>6. ASSUME NEW K, Cache!Drop(K), Lapse(K), UNCHANGED db,
             \A j \in Keys \ K : owed'[j] = owed[j]
      PROVE  CacheConsistent'
  <2>1. \A j \in Keys : store'[j] = IF j \in K THEN None ELSE store[j]
    BY <1>6 DEF Cache!Drop
  <2>2. \A j \in Keys : lapsed'[j] = (lapsed[j] \/ j \in K)
    BY <1>6 DEF Lapse
  <2> TAKE j \in Keys
  <2>3. CASE j \in K
    BY <2>1, <2>2, <2>3
  <2>4. CASE j \notin K
    BY <1>6, <2>1, <2>2, <2>4
  <2> QED BY <2>3, <2>4
<1>7. ASSUME NEW k \in Keys, Invalidate(k) PROVE CacheConsistent'
  BY <1>6, <1>7 DEF Invalidate, Settle
<1>8. ASSUME NEW k \in Keys, CommandFails(k) PROVE CacheConsistent'
  <2>1. UNCHANGED db /\ Lapse({k}) /\ \A j \in Keys \ {k} : owed'[j] = owed[j]
    BY <1>8 DEF CommandFails, Settle
  <2>2. \A j \in Keys : lapsed'[j] = (lapsed[j] \/ j = k)
    BY <2>1 DEF Lapse
  <2>3. CASE UNCHANGED store
    BY <2>1, <2>2, <2>3
  <2>4. CASE Cache!WriteThrough(k, [of |-> k, rev |-> db[k]])
    BY <2>1, <2>2, <2>4 DEF Cache!WriteThrough
  <2>5. CASE Cache!Drop({k})
    BY <1>6, <2>1, <2>5
  <2> QED BY <1>8, <2>3, <2>4, <2>5 DEF CommandFails
<1>9. ASSUME NEW k \in Keys, Expire(k) PROVE CacheConsistent'
  BY <1>6, <1>9 DEF Expire
<1>10. ASSUME NEW t \in Tenants, InvalidateTenant(t) PROVE CacheConsistent'
  BY <1>6, <1>10 DEF InvalidateTenant
<1>11. CASE UNCHANGED vars
  BY <1>11 DEF vars
<1> QED
  BY <1>1, <1>2, <1>3, <1>4, <1>5, <1>7, <1>8, <1>9, <1>10, <1>11
  DEF Next, Fetch, SharedCache, HeliosFails, TimesOut, LeaderCancelled

\* An entry that is present before and after a step does not get older.
LEMMA StoreMovesForward ==
    ASSUME IInv, [Next]_vars
    PROVE  \A k \in Keys : store[k] # None /\ store'[k] # None =>
               store[k].rev <= store'[k].rev
<1> USE DataFacts DEF IInv, TypeOK, Cache!TypeOK, Cache!Hit,
                      flightVars, clientVars, heliosVars
<1> DEFINE Forward == \A k \in Keys : store[k] # None /\ store'[k] # None =>
                          store[k].rev <= store'[k].rev
<1>1. ASSUME UNCHANGED store PROVE Forward
  BY <1>1
<1>2. ASSUME NEW K, Cache!Drop(K) PROVE Forward
  BY <1>2 DEF Cache!Drop
<1>3. ASSUME NEW k \in Keys, Cache!WriteThrough(k, [of |-> k, rev |-> db[k]])
      PROVE  Forward
  BY <1>3 DEF Cache!WriteThrough, CacheConsistent, Within
<1>4. ASSUME NEW c \in Calls, FetchAndPopulate(c) PROVE Forward
  BY <1>1, <1>4 DEF FetchAndPopulate, Cache!SetNX
<1>5. ASSUME NEW c \in Calls,
             \/ Call(c) \/ HeliosAnswers(c) \/ FetchFails(c)
             \/ CloseDone(c) \/ Remove(c)
      PROVE  UNCHANGED store
  BY <1>5 DEF Call, ShortCircuit, Begin, CacheHit, CacheMiss, CacheGetFails,
              EnterFlight, Return, CancelContext, HeliosAnswers, FetchFails,
              CloseDone, Remove
<1>6. ASSUME NEW k \in Keys, SharedCache(k) PROVE Forward
  BY <1>1, <1>2, <1>3, <1>6
  DEF SharedCache, ChangeRole, RemoveMember, Mutate, WriteThrough, Invalidate,
      CommandFails, Expire
<1>7. ASSUME NEW t \in Tenants, InvalidateTenant(t) PROVE Forward
  BY <1>2, <1>7 DEF InvalidateTenant
<1>8. CASE UNCHANGED vars
  BY <1>1, <1>8 DEF vars
<1>9. ASSUME NEW c \in Calls, Call(c) PROVE Forward
  BY <1>1, <1>5, <1>9
<1>10. ASSUME NEW c \in Calls, Fetch(c) PROVE Forward
  <2>1. \/ FetchAndPopulate(c) \/ HeliosAnswers(c) \/ FetchFails(c)
        \/ CloseDone(c) \/ Remove(c)
    BY <1>10 DEF Fetch, HeliosFails, TimesOut, LeaderCancelled
  <2> QED BY <1>1, <1>4, <1>5, <2>1
<1> QED BY <1>6, <1>7, <1>8, <1>9, <1>10 DEF Next

\* Only a drop can take away what a call is about to find, and it resets the
\* call's floor.
LEMMA LookupKept ==
    ASSUME IInv, [Next]_vars
    PROVE  LookupFindsFloor'
<1> USE DataFacts DEF IInv, TypeOK, Cache!TypeOK, LookupFindsFloor, Cache!Hit,
                      flightVars, clientVars, heliosVars
<1>1. ASSUME NEW c \in Calls, NEW s \in Clients \X Keys, Begin(c, s)
      PROVE  LookupFindsFloor'
  BY <1>1 DEF Begin
<1>2. ASSUME NEW c \in Calls,
             \/ ShortCircuit(c) \/ CacheHit(c) \/ CacheMiss(c) \/ CacheGetFails(c)
             \/ EnterFlight(c) \/ Return(c) \/ CancelContext(c)
      PROVE  LookupFindsFloor'
  BY <1>2 DEF ShortCircuit, CacheHit, CacheMiss, CacheGetFails, EnterFlight,
              Return, CancelContext
<1>3. ASSUME NEW c \in Calls, FetchAndPopulate(c) PROVE LookupFindsFloor'
  <2>1. \A k \in Keys : store[k] # None => store'[k] = store[k]
    BY <1>3 DEF FetchAndPopulate, Cache!SetNX
  <2>2. UNCHANGED <<pc, req, floor>>
    BY <1>3 DEF FetchAndPopulate
  <2>3. \A d \in Calls : pc[d] = "lookup" => KeyOf(req[d]) \in Keys
    BY DEF CallsInOrder
  <2> QED BY <2>1, <2>2, <2>3
<1>4. ASSUME NEW c \in Calls,
             HeliosAnswers(c) \/ FetchFails(c) \/ CloseDone(c) \/ Remove(c)
      PROVE  LookupFindsFloor'
  BY <1>4 DEF HeliosAnswers, FetchFails, CloseDone, Remove
<1>5. ASSUME NEW k \in Keys, ChangeRole(k) \/ RemoveMember(k)
      PROVE  LookupFindsFloor'
  BY <1>5 DEF ChangeRole, RemoveMember, Mutate
\* A write-through writes Helios's revision, the greatest.
<1>6. ASSUME NEW k \in Keys, Cache!WriteThrough(k, [of |-> k, rev |-> db[k]]),
             UNCHANGED <<pc, req>>,
             \A c \in Calls : floor'[c] = floor[c] \/ floor'[c] = 0
      PROVE  LookupFindsFloor'
  <2>1. \A j \in Keys : store[j] # None =>
            store'[j] # None /\ store[j].rev <= store'[j].rev
    BY <1>6 DEF Cache!WriteThrough, CacheConsistent, Within
  <2>2. \A d \in Calls : pc[d] = "lookup" => KeyOf(req[d]) \in Keys
    BY DEF CallsInOrder
  <2>3. store' \in [Keys -> Snapshots \cup {None}]
    BY <1>6 DEF Cache!WriteThrough
  <2> QED BY <1>6, <2>1, <2>2, <2>3
<1>7. ASSUME NEW K, Cache!Drop(K), Lapse(K), UNCHANGED <<pc, req>>
      PROVE  LookupFindsFloor'
  <2>1. \A d \in Calls : pc[d] = "lookup" => KeyOf(req[d]) \in Keys
    BY DEF CallsInOrder
  <2> QED BY <1>7, <2>1 DEF Cache!Drop, Lapse
<1>8. ASSUME NEW k \in Keys, WriteThrough(k) PROVE LookupFindsFloor'
  BY <1>6, <1>8 DEF WriteThrough
<1>9. ASSUME NEW k \in Keys, Invalidate(k) \/ Expire(k) PROVE LookupFindsFloor'
  BY <1>7, <1>9 DEF Invalidate, Expire
<1>10. ASSUME NEW k \in Keys, CommandFails(k) PROVE LookupFindsFloor'
  <2>1. UNCHANGED <<pc, req>> /\ Lapse({k})
        /\ \A c \in Calls : floor'[c] = floor[c] \/ floor'[c] = 0
    BY <1>10 DEF CommandFails, Lapse
  <2>2. CASE UNCHANGED store
    BY <2>1, <2>2
  <2> QED BY <1>6, <1>7, <1>10, <2>1, <2>2 DEF CommandFails
<1>11. ASSUME NEW t \in Tenants, InvalidateTenant(t) PROVE LookupFindsFloor'
  BY <1>7, <1>11 DEF InvalidateTenant
<1>12. CASE UNCHANGED vars
  BY <1>12 DEF vars
<1> QED
  BY <1>1, <1>2, <1>3, <1>4, <1>5, <1>8, <1>9, <1>10, <1>11, <1>12
  DEF Next, Call, Fetch, SharedCache, HeliosFails, TimesOut, LeaderCancelled

\* A fetch reads Helios after it started, and nothing that is not a call's own
\* step moves the floor of a call that has an entry.
LEMMA FetchWindowsKept ==
    ASSUME IInv, [Next]_vars
    PROVE  FetchesWithinWindow'
<1> USE DataFacts DEF IInv, TypeOK, FetchesWithinWindow, Within,
                      flightVars, clientVars, heliosVars
<1>1. Flight!TypeOK /\ Flight!CallRecordsConsistent
  BY DEF Flight!IInv
<1> USE <1>1 DEF Flight!TypeOK
\* Only a call that called getOrStart has an entry, an answer or a result.
<1>2. ASSUME NEW c \in Calls, joined[c] = None
      PROVE  answer[c] = None /\ res[c] = None /\ stage[c] = "none"
  BY <1>2 DEF Flight!CallRecordsConsistent
<1>3. ASSUME NEW c \in Calls,
             \/ ShortCircuit(c) \/ CacheHit(c) \/ CacheMiss(c) \/ CancelContext(c)
             \/ CloseDone(c) \/ Remove(c)
      PROVE  FetchesWithinWindow'
  BY <1>3 DEF ShortCircuit, CacheHit, CacheMiss, CancelContext, CloseDone, Remove,
              Flight!CloseDone, Flight!Remove
<1>4. ASSUME NEW c \in Calls, NEW s \in Clients \X Keys, Begin(c, s)
      PROVE  FetchesWithinWindow'
  BY <1>2, <1>4 DEF Begin, CallsInOrder
<1>5. ASSUME NEW c \in Calls, CacheGetFails(c)
      PROVE  FetchesWithinWindow'
  BY <1>2, <1>5 DEF CacheGetFails, CallsInOrder
<1>6. ASSUME NEW c \in Calls, EnterFlight(c)
      PROVE  FetchesWithinWindow'
  <2>1. /\ answer[c] = None /\ res[c] = None /\ stage[c] = "none"
        /\ req[c] \in Clients \X Keys
        /\ \A d \in Calls \ {c} : floor'[d] = floor[d]
        /\ UNCHANGED <<answer, res, db>>
    BY <1>2, <1>6 DEF EnterFlight, CallsInOrder, Flight!Join, Flight!Start
  <2>2. \A d \in Calls \ {c} : slot'[d] = slot[d] /\ stage'[d] = stage[d]
    BY <1>6 DEF EnterFlight, Flight!Join, Flight!Start
  <2>3. stage'[c] # "none" =>
            slot'[c] = req[c] /\ floor'[c] = db[KeyOf(req[c])]
    BY <1>6, <2>1 DEF EnterFlight, Flight!Join, Flight!Start
  <2>4. db[KeyOf(req[c])] \in Nat
    BY <2>1
  <2> QED BY <2>1, <2>2, <2>3, <2>4
<1>7. ASSUME NEW c \in Calls, Return(c)
      PROVE  FetchesWithinWindow'
  BY <1>7 DEF Return, Flight!Receive
<1>8. ASSUME NEW c \in Calls, HeliosAnswers(c)
      PROVE  FetchesWithinWindow'
  BY <1>8 DEF HeliosAnswers, Flight!CallRecordsConsistent
<1>9. ASSUME NEW c \in Calls, FetchAndPopulate(c) \/ FetchFails(c)
      PROVE  FetchesWithinWindow'
  BY <1>9 DEF FetchAndPopulate, FetchFails, Flight!FetchReturns
<1>10. ASSUME UNCHANGED <<stage, slot, res, answer>>,
              \A c \in Calls : stage[c] # "none" => floor'[c] = floor[c],
              \A k \in Keys : db'[k] \in Nat /\ db[k] <= db'[k]
       PROVE  FetchesWithinWindow'
  BY <1>10 DEF Flight!CallRecordsConsistent
<1>11. ASSUME NEW K, Lapse(K)
       PROVE  \A c \in Calls : stage[c] # "none" => floor'[c] = floor[c]
  BY <1>2, <1>11 DEF Lapse, CallsInOrder
<1>12. ASSUME NEW k \in Keys, SharedCache(k)
       PROVE  FetchesWithinWindow'
  BY <1>10, <1>11, <1>12, RevisionsGrow
  DEF SharedCache, ChangeRole, RemoveMember, Mutate, WriteThrough, Invalidate,
      CommandFails, Expire
<1>13. ASSUME NEW t \in Tenants, InvalidateTenant(t)
       PROVE  FetchesWithinWindow'
  BY <1>10, <1>11, <1>13, RevisionsGrow DEF InvalidateTenant
<1>14. CASE UNCHANGED vars
  BY <1>14 DEF vars
<1> QED
  BY <1>3, <1>4, <1>5, <1>6, <1>7, <1>8, <1>9, <1>12, <1>13, <1>14
  DEF Next, Call, Fetch, HeliosFails, TimesOut, LeaderCancelled

\* A reply is the entry found in the cache or the result of a fetch of the
\* call's key, and it is fixed from then on.
LEMMA ReplyWindowsKept ==
    ASSUME IInv, [Next]_vars
    PROVE  RepliesWithinWindow'
<1> USE DataFacts DEF IInv, TypeOK, RepliesWithinWindow, Within,
                      flightVars, clientVars, heliosVars
<1>1. ASSUME NEW c \in Calls, CacheHit(c) PROVE RepliesWithinWindow'
  BY <1>1 DEF CacheHit, CallsInOrder, CacheConsistent, LookupFindsFloor, Cache!Hit,
              Cache!TypeOK
<1>2. ASSUME NEW c \in Calls, Return(c) PROVE RepliesWithinWindow'
  BY <1>2 DEF Return, Flight!Receive, CallsInOrder, FetchesWithinWindow,
              Flight!IInv, Flight!TypeOK, Flight!CallRecordsConsistent
\* Every other step leaves the calls that have returned alone.
<1>3. ASSUME UNCHANGED reply,
             \A c \in Calls : reply[c] \in Snapshots =>
                 req'[c] = req[c] /\ floor'[c] = floor[c],
             \A k \in Keys : db'[k] \in Nat /\ db[k] <= db'[k]
      PROVE  RepliesWithinWindow'
  BY <1>3
<1>4. \A c \in Calls : reply[c] \in Snapshots => pc[c] = "returned"
  BY DEF CallsInOrder
<1>5. ASSUME NEW c \in Calls,
             \/ CacheMiss(c) \/ CacheGetFails(c) \/ CancelContext(c) \/ EnterFlight(c)
             \/ \E s \in Clients \X Keys : Begin(c, s)
      PROVE  RepliesWithinWindow'
  BY <1>3, <1>4, <1>5 DEF CacheMiss, CacheGetFails, CancelContext, EnterFlight, Begin
<1>6. ASSUME NEW c \in Calls, ShortCircuit(c) PROVE RepliesWithinWindow'
  BY <1>6 DEF ShortCircuit
<1>7. ASSUME NEW c \in Calls,
             \/ HeliosAnswers(c) \/ FetchAndPopulate(c) \/ FetchFails(c)
             \/ CloseDone(c) \/ Remove(c)
      PROVE  RepliesWithinWindow'
  BY <1>3, <1>7 DEF HeliosAnswers, FetchAndPopulate, FetchFails, CloseDone, Remove
<1>8. ASSUME NEW K, Lapse(K)
      PROVE  \A c \in Calls : reply[c] \in Snapshots => floor'[c] = floor[c]
  BY <1>4, <1>8 DEF Lapse
<1>9. ASSUME NEW k \in Keys, SharedCache(k) PROVE RepliesWithinWindow'
  BY <1>3, <1>8, <1>9, RevisionsGrow
  DEF SharedCache, ChangeRole, RemoveMember, Mutate, WriteThrough, Invalidate,
      CommandFails, Expire
<1>10. ASSUME NEW t \in Tenants, InvalidateTenant(t) PROVE RepliesWithinWindow'
  BY <1>3, <1>8, <1>10 DEF InvalidateTenant
<1>11. CASE UNCHANGED vars
  BY <1>11 DEF vars
<1> QED
  BY <1>1, <1>2, <1>5, <1>6, <1>7, <1>9, <1>10, <1>11
  DEF Next, Call, Fetch, HeliosFails, TimesOut, LeaderCancelled

\* Every step of a call, a fetch, Helios or Redis keeps the invariant.
LEMMA StepKeepsIInv == IInv /\ [Next]_vars => IInv'
<1> SUFFICES ASSUME IInv, [Next]_vars PROVE IInv'
    OBVIOUS
<1>1. Flight!IInv'
  BY StepsOfGroups, GroupsKeepInvariant DEF IInv
<1>2. TypeOK'
  BY <1>1, TypesKept
<1> QED
  BY <1>1, <1>2, OrderKept, FetchWindowsKept, CacheConsistencyKept, LookupKept,
     ReplyWindowsKept DEF IInv

-----------------------------------------------------------------------------
(***************************************************************************)
(* The properties.                                                         *)
(***************************************************************************)
\* The system always satisfies the inductive invariant.
THEOREM InvariantHolds == Spec => []IInv
  BY InitEstablishesIInv, StepKeepsIInv, PTL DEF Spec

\* The variables keep their types.
THEOREM TypeCorrect == Spec => []TypeOK
<1>1. IInv => TypeOK
  BY DEF IInv
<1> QED BY <1>1, InvariantHolds, PTL

\* Write-through keeps the shared cache exact: with Helios's commands done and
\* no drop or failure since the last write-through, an entry is Helios's current
\* resolution, however many slow fetches raced with the change.
THEOREM WriteThroughKeepsCacheExact == Spec => []SettledEntryIsCurrent
<1>1. IInv => SettledEntryIsCurrent
  BY DEF IInv, CacheConsistent, SettledEntryIsCurrent
<1> QED BY <1>1, InvariantHolds, PTL

\* No call returns the permissions of another user or tenant, through the cache,
\* its own fetch or a shared one.
THEOREM NoCrossTalk == Spec => []AnswersOwnKey
<1>1. IInv => AnswersOwnKey
  BY DEF IInv, CacheConsistent, RepliesWithinWindow, Within, AnswersOwnKey
<1> QED BY <1>1, InvariantHolds, PTL

\* What a call returns is no older than what was cached when it began, or than
\* the start of the fetch it shares.
THEOREM BoundedStaleness == Spec => []AnswersWithinWindow
<1>1. IInv => AnswersWithinWindow
  BY DEF IInv, RepliesWithinWindow, Within, AnswersWithinWindow
<1> QED BY <1>1, InvariantHolds, PTL

\* An entry that stays in the cache never goes back to an older resolution.
THEOREM MonotonicCache == Spec => CacheNeverGoesBack
<1>1. IInv /\ [Next]_vars =>
          [\A k \in Keys : store[k] # None /\ store'[k] # None =>
               store'[k].rev >= store[k].rev]_vars
  <2> SUFFICES ASSUME IInv, [Next]_vars
               PROVE  \A k \in Keys : store[k] # None /\ store'[k] # None =>
                          store'[k].rev >= store[k].rev
    OBVIOUS
  <2> TAKE k \in Keys
  <2> HAVE store[k] # None /\ store'[k] # None
  <2>1. IInv'
    BY StepKeepsIInv
  <2>2. store[k].rev \in Nat /\ store'[k].rev \in Nat
    BY <2>1, DataFacts DEF IInv, TypeOK, Cache!TypeOK
  <2> QED BY <2>2, StoreMovesForward
<1> QED BY <1>1, InvariantHolds, PTL DEF Spec, CacheNeverGoesBack

\* The composed system implements InFlight in each client.
THEOREM CoalescingKept == Spec => Coalesces
<1>1. Init => Flight!Init
  BY DEF Init
<1>2. IInv /\ [Next]_vars => [Flight!Next]_(Flight!vars)
  BY StepsOfGroups DEF IInv
<1> QED BY <1>1, <1>2, InvariantHolds, PTL DEF Spec, Coalesces, Flight!Spec
=============================================================================
