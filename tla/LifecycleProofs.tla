--------------------------- MODULE LifecycleProofs ---------------------------
(***************************************************************************)
(* Theorems about Lifecycle, for any number of instances, Close calls and  *)
(* timeouts.                                                               *)
(*                                                                         *)
(* IdempotentClose is not inductive: it says nothing of calls that have not*)
(* returned yet. RacersOverlapCloser is what the racy flag still gives: a  *)
(* call that is about to close the client a second time read the flag      *)
(* before the first call's write was visible to it, so the two overlap.    *)
(***************************************************************************)
EXTENDS Lifecycle, TLAPS

\* Before the first Create.
LEMMA InitEstablishesIInv == Init => IInv
<1> SUFFICES ASSUME Init PROVE IInv
    OBVIOUS
<1>1. TypeOK
  BY DEF Init, TypeOK
<1>2. CreateConsistent /\ NoOrphan /\ TimeoutKept
  BY ConstantsDiffer DEF Init, CreateConsistent, NoOrphan, TimeoutKept
<1>3. CloseConsistent
  BY DEF Init, CloseConsistent
<1>4. OverlapRecorded /\ RacersOverlapCloser /\ IdempotentClose
  BY DEF Init, OverlapRecorded, Running, RacersOverlapCloser, IdempotentClose
<1> QED BY <1>1, <1>2, <1>3, <1>4 DEF IInv

\* Steps that touch no Close call, and of instances only those that are not
\* ready yet and have no Close call, keep what is said of Close.
LEMMA CreateStepKeepsClose ==
    ASSUME IInv, UNCHANGED closeVars,
           NEW i \in Instances, phase[i] \in {"new", "pinging"},
           \A j \in Instances \ {i} :
               phase'[j] = phase[j] /\ opts'[j] = opts[j] /\ conn'[j] = conn[j],
           phase'[i] = "ready" /\ opts'[i].redis = "url" => conn'[i] = "open"
    PROVE  CloseConsistent' /\ OverlapRecorded' /\ RacersOverlapCloser' /\ IdempotentClose'
<1> USE DEF closeVars
<1>0. \A c \in Closers : target[c] # i
  BY ConstantsDiffer DEF IInv, TypeOK, CloseConsistent
<1>1. /\ \A c \in Closers : target[c] # i
      /\ ~closed[i]
      /\ \A j \in Instances : Closes(j)' = Closes(j)
  BY <1>0 DEF IInv, TypeOK, CloseConsistent, Closes
<1>2. CloseConsistent'
  BY <1>1 DEF IInv, TypeOK, CloseConsistent, Closes
<1>3. OverlapRecorded' /\ IdempotentClose'
  BY DEF IInv, OverlapRecorded, IdempotentClose, Running
<1>4. RacersOverlapCloser'
  BY <1>1 DEF IInv, TypeOK, RacersOverlapCloser
<1> QED BY <1>2, <1>3, <1>4

\* Validation and the building of the Redis client.
LEMMA CreateKeepsIInv ==
    ASSUME IInv, NEW i \in Instances, NEW o \in Options, Create(i, o)
    PROVE  IInv'
<1>1. TypeOK'
  BY ConstantsDiffer DEF IInv, TypeOK, Create, createVars, closeVars
<1>2. CreateConsistent' /\ NoOrphan' /\ TimeoutKept'
  BY ConstantsDiffer
  DEF IInv, TypeOK, CreateConsistent, NoOrphan, TimeoutKept, FetchTimeout, Create,
      Accepted, closeVars
<1>3. CloseConsistent' /\ OverlapRecorded' /\ RacersOverlapCloser' /\ IdempotentClose'
  BY CreateStepKeepsClose, ConstantsDiffer DEF IInv, TypeOK, Create
<1> QED BY <1>1, <1>2, <1>3 DEF IInv

\* The client that Create built is closed again, an injected one is not.
LEMMA PingFailsKeepsIInv ==
    ASSUME IInv, NEW i \in Instances, PingFails(i)
    PROVE  IInv'
<1>1. TypeOK'
  BY ConstantsDiffer DEF IInv, TypeOK, PingFails, OwnsRedis, ConnOf, closeVars
<1>2. i # Injected /\ opts[i] \in Options
  BY ConstantsDiffer DEF IInv, CreateConsistent, PingFails
<1>3. CreateConsistent' /\ NoOrphan' /\ TimeoutKept'
  BY <1>2, ConstantsDiffer
  DEF IInv, TypeOK, CreateConsistent, NoOrphan, TimeoutKept, FetchTimeout, PingFails,
      OwnsRedis, ConnOf, closeVars
<1>4. CloseConsistent' /\ OverlapRecorded' /\ RacersOverlapCloser' /\ IdempotentClose'
  BY <1>2, CreateStepKeepsClose DEF IInv, TypeOK, PingFails, OwnsRedis, ConnOf
<1> QED BY <1>1, <1>3, <1>4 DEF IInv

\* A timeout written into a shared http.Client is never zero.
LEMMA PingSucceedsKeepsIInv ==
    ASSUME IInv, NEW i \in Instances, PingSucceeds(i)
    PROVE  IInv'
<1>1. opts[i] \in Options
  BY DEF IInv, CreateConsistent, PingSucceeds
<1>2. timeout' \in Timeouts /\ (timeout > 0 => timeout' > 0)
  BY <1>1, ConstantsDiffer DEF IInv, TypeOK, PingSucceeds, OverrideTimeout, Options
<1>3. TypeOK'
  BY <1>2 DEF IInv, TypeOK, PingSucceeds, closeVars
<1>4. CreateConsistent' /\ NoOrphan'
  BY <1>1, ConstantsDiffer
  DEF IInv, TypeOK, CreateConsistent, NoOrphan, PingSucceeds, closeVars
<1>5. TimeoutKept'
  <2> SUFFICES ASSUME NEW j \in Instances, phase'[j] = "ready",
                      opts[j].http = "own" \/ opts[j].fetchTimeout > 0
               PROVE  FetchTimeout(j)'
                        > 0
      BY DEF TimeoutKept, PingSucceeds
  <2>1. CASE j = i
    BY <1>1, <2>1, ConstantsDiffer
    DEF PingSucceeds, FetchTimeout, OverrideTimeout, Options
  <2>2. CASE j # i
    BY <1>2, <2>2 DEF IInv, TypeOK, TimeoutKept, PingSucceeds, FetchTimeout
  <2> QED BY <2>1, <2>2
<1>6. CloseConsistent' /\ OverlapRecorded' /\ RacersOverlapCloser' /\ IdempotentClose'
  BY CreateStepKeepsClose, ConstantsDiffer
  DEF IInv, TypeOK, CreateConsistent, PingSucceeds, ConnOf
<1> QED BY <1>3, <1>4, <1>5, <1>6 DEF IInv

\* Closing the injected client is no business of any instance's.
LEMMA ServiceClosesKeepsIInv ==
    ASSUME IInv, ServiceClosesRedis
    PROVE  IInv'
<1>1. TypeOK' /\ CreateConsistent' /\ NoOrphan' /\ TimeoutKept'
  BY ConstantsDiffer
  DEF IInv, TypeOK, CreateConsistent, NoOrphan, TimeoutKept, FetchTimeout,
      ServiceClosesRedis, createVars, closeVars
<1>2. /\ \A i \in Instances : conn'[i] = conn[i]
      /\ \A i \in Instances : Closes(i)' = Closes(i)
  BY ConstantsDiffer DEF IInv, TypeOK, ServiceClosesRedis, closeVars, Closes
<1>3. CloseConsistent' /\ OverlapRecorded' /\ RacersOverlapCloser' /\ IdempotentClose'
  BY <1>2
  DEF IInv, CloseConsistent, OverlapRecorded, RacersOverlapCloser, IdempotentClose,
      Running, ServiceClosesRedis, createVars, closeVars
<1> QED BY <1>1, <1>3 DEF IInv

\* A new call records the calls it overlaps.
LEMMA CallCloseKeepsIInv ==
    ASSUME IInv, NEW c \in Closers, NEW i \in Instances, CallClose(c, i)
    PROVE  IInv'
<1> DEFINE running == {e \in Closers : Running(e) /\ target[e] = i}
<1>1. /\ overlap \subseteq overlap'
      /\ \A d \in running : <<c, d>> \in overlap' /\ <<d, c>> \in overlap'
      /\ overlap' \in SUBSET (Closers \X Closers)
  BY DEF IInv, TypeOK, CallClose
<1>2. TypeOK'
  BY <1>1 DEF IInv, TypeOK, CallClose, createVars
<1>3. CreateConsistent' /\ NoOrphan' /\ TimeoutKept'
  BY DEF IInv, CreateConsistent, NoOrphan, TimeoutKept, FetchTimeout, CallClose, createVars
<1>4. CloseConsistent'
  <2>1. \A d \in Closers \ {c} : pc'[d] = pc[d] /\ target'[d] = target[d]
    BY DEF IInv, TypeOK, CallClose
  <2>2. pc'[c] = "called" /\ target'[c] = i /\ pc[c] = "idle" /\ phase[i] = "ready"
    BY DEF IInv, TypeOK, CallClose
  <2> QED
    BY <2>1, <2>2, ConstantsDiffer
    DEF IInv, CloseConsistent, CallClose, createVars, Closes
<1>5. OverlapRecorded'
  BY <1>1 DEF IInv, TypeOK, OverlapRecorded, Running, CallClose
<1>6. RacersOverlapCloser'
  BY <1>1 DEF IInv, TypeOK, RacersOverlapCloser, CallClose, createVars, Closes
<1>7. IdempotentClose'
  <2> SUFFICES ASSUME NEW b \in Closers, result[b] = "ErrClosed"
               PROVE  \E d \in Closers \ {b} :
                          target'[d] = target'[b] /\ <<b, d>> \in overlap'
      BY DEF IdempotentClose, CallClose
  <2>1. pc[b] = "returned" /\ target[b] # None /\ pc[c] = "idle" /\ target[c] = None
    BY DEF IInv, CloseConsistent, CallClose
  <2>2. PICK d \in Closers \ {b} : target[d] = target[b] /\ <<b, d>> \in overlap
    BY DEF IInv, IdempotentClose
  <2>3. d # c /\ b # c
    BY <2>1, <2>2
  <2> QED BY <1>1, <2>2, <2>3 DEF IInv, TypeOK, CallClose
<1> QED BY <1>2, <1>3, <1>4, <1>5, <1>6, <1>7 DEF IInv

\* A call that returns nil without closing anything.
LEMMA AlreadyClosedKeepsIInv ==
    ASSUME IInv, NEW c \in Closers, AlreadyClosed(c)
    PROVE  IInv'
<1>1. TypeOK'
  BY DEF IInv, TypeOK, AlreadyClosed, createVars
<1>2. CreateConsistent' /\ NoOrphan' /\ TimeoutKept'
  BY DEF IInv, CreateConsistent, NoOrphan, TimeoutKept, FetchTimeout, AlreadyClosed, createVars
<1>3. CloseConsistent'
  BY DEF IInv, TypeOK, CloseConsistent, AlreadyClosed, createVars, Closes
<1>4. OverlapRecorded' /\ IdempotentClose'
  <2>1. OverlapRecorded'
    BY DEF IInv, TypeOK, OverlapRecorded, Running, AlreadyClosed
  <2>2. \A d \in Closers : result'[d] = "ErrClosed" => result[d] = "ErrClosed"
    BY DEF IInv, TypeOK, AlreadyClosed
  <2> QED BY <2>1, <2>2 DEF IInv, IdempotentClose, AlreadyClosed
<1>5. RacersOverlapCloser'
  BY DEF IInv, TypeOK, RacersOverlapCloser, AlreadyClosed, createVars, Closes
<1> QED BY <1>1, <1>2, <1>3, <1>4, <1>5 DEF IInv

\* A call that goes on to close has overlapped every call that wrote the flag.
LEMMA NotYetClosedKeepsIInv ==
    ASSUME IInv, NEW c \in Closers, NotYetClosed(c)
    PROVE  IInv'
<1>1. TypeOK'
  BY DEF IInv, TypeOK, NotYetClosed, createVars
<1>2. CreateConsistent' /\ NoOrphan' /\ TimeoutKept'
  BY DEF IInv, CreateConsistent, NoOrphan, TimeoutKept, FetchTimeout, NotYetClosed, createVars
<1>3. CloseConsistent'
  BY DEF IInv, TypeOK, CloseConsistent, NotYetClosed, createVars, Closes
<1>4. OverlapRecorded' /\ IdempotentClose'
  <2>1. OverlapRecorded'
    BY DEF IInv, TypeOK, OverlapRecorded, Running, NotYetClosed
  <2>2. \A d \in Closers : result'[d] = "ErrClosed" => result[d] = "ErrClosed"
    BY DEF IInv, TypeOK, NotYetClosed
  <2> QED BY <2>1, <2>2 DEF IInv, IdempotentClose, NotYetClosed
<1>5. RacersOverlapCloser'
  <2>1. \A d \in Writers(c) : <<c, d>> \in overlap
    BY DEF IInv, CloseConsistent, NotYetClosed, Writers
  <2> QED BY <2>1
      DEF IInv, TypeOK, RacersOverlapCloser, NotYetClosed, createVars, Closes, Writers
<1> QED BY <1>1, <1>2, <1>3, <1>4, <1>5 DEF IInv

\* closed = true, by a call that still has the client to close if it is owned.
LEMMA MarkClosedKeepsIInv ==
    ASSUME IInv, NEW c \in Closers, MarkClosed(c)
    PROVE  IInv'
<1> DEFINE i == target[c]
<1>1. i \in Instances /\ phase[i] = "ready"
  BY DEF IInv, CloseConsistent, MarkClosed
<1>2. TypeOK'
  BY DEF IInv, TypeOK, MarkClosed, createVars
<1>3. CreateConsistent' /\ NoOrphan' /\ TimeoutKept'
  BY DEF IInv, TypeOK, CreateConsistent, NoOrphan, TimeoutKept, FetchTimeout,
         MarkClosed, createVars
<1>4. CloseConsistent'
  BY <1>1 DEF IInv, TypeOK, CloseConsistent, MarkClosed, createVars, Closes, OwnsRedis
<1>5. OverlapRecorded' /\ IdempotentClose'
  <2>1. OverlapRecorded'
    BY DEF IInv, TypeOK, OverlapRecorded, Running, MarkClosed
  <2>2. \A d \in Closers : result'[d] = "ErrClosed" => result[d] = "ErrClosed"
    BY DEF IInv, TypeOK, MarkClosed
  <2> QED BY <2>1, <2>2 DEF IInv, IdempotentClose, MarkClosed
<1>6. RacersOverlapCloser'
  BY DEF IInv, TypeOK, RacersOverlapCloser, MarkClosed, createVars, Closes
<1> QED BY <1>2, <1>3, <1>4, <1>5, <1>6 DEF IInv

\* The first call closes the client, a racing second one gets ErrClosed.
LEMMA CloseRedisKeepsIInv ==
    ASSUME IInv, NEW c \in Closers, CloseRedis(c)
    PROVE  IInv'
<1> DEFINE i == target[c]
<1>1. /\ i \in Instances /\ phase[i] = "ready" /\ opts[i].redis = "url"
      /\ ConnOf(i) = i /\ i # Injected /\ closed[i]
  BY ConstantsDiffer DEF IInv, CloseConsistent, CloseRedis, ConnOf
<1>2. /\ pc' = [pc EXCEPT ![c] = "returned"]
      /\ conn' = [conn EXCEPT ![i] = "closed"]
      /\ pc[c] = "closing"
  BY <1>1 DEF CloseRedis
<1>3. TypeOK'
  BY <1>1, <1>2 DEF IInv, TypeOK, CloseRedis, createVars
<1>4. CreateConsistent' /\ NoOrphan' /\ TimeoutKept'
  BY <1>1, <1>2
  DEF IInv, TypeOK, CreateConsistent, NoOrphan, TimeoutKept, FetchTimeout, CloseRedis, createVars
<1>5. CloseConsistent'
  BY <1>1, <1>2 DEF IInv, TypeOK, CloseConsistent, CloseRedis, createVars, Closes
<1>6. OverlapRecorded'
  BY <1>2 DEF IInv, TypeOK, OverlapRecorded, Running, CloseRedis
<1>7. \A d \in Closes(i) : pc'[d] \in {"marking", "closing"} => <<d, c>> \in overlap
  BY <1>2 DEF IInv, TypeOK, OverlapRecorded, Running, Closes
<1>8. RacersOverlapCloser'
  BY <1>1, <1>2, <1>7 DEF IInv, TypeOK, RacersOverlapCloser, CloseRedis, createVars, Closes
<1>9. IdempotentClose'
  <2>1. CASE conn[i] = "open"
    BY <1>1, <2>1 DEF IInv, TypeOK, IdempotentClose, CloseRedis
  <2>2. CASE conn[i] # "open"
    <3>1. PICK d \in Closes(i) : pc[d] = "returned" /\ <<c, d>> \in overlap
      BY <1>1, <1>2, <2>2 DEF IInv, CreateConsistent, RacersOverlapCloser, Closes
    <3> QED BY <1>2, <3>1 DEF IInv, TypeOK, IdempotentClose, CloseRedis, Closes
  <2> QED BY <2>1, <2>2
<1> QED BY <1>3, <1>4, <1>5, <1>6, <1>8, <1>9 DEF IInv

\* Every step keeps the invariant.
LEMMA StepKeepsIInv == IInv /\ [Next]_vars => IInv'
<1> SUFFICES ASSUME IInv, [Next]_vars PROVE IInv'
    OBVIOUS
<1>1. CASE UNCHANGED vars
  <2> USE <1>1 DEF vars, createVars, closeVars
  <2>1. TypeOK' /\ CreateConsistent' /\ NoOrphan' /\ TimeoutKept'
    BY DEF IInv, TypeOK, CreateConsistent, NoOrphan, TimeoutKept, FetchTimeout
  <2>2. CloseConsistent' /\ RacersOverlapCloser'
    BY DEF IInv, CloseConsistent, Closes, RacersOverlapCloser
  <2>3. OverlapRecorded' /\ IdempotentClose'
    BY DEF IInv, OverlapRecorded, Running, IdempotentClose
  <2> QED BY <2>1, <2>2, <2>3 DEF IInv
<1>2. ASSUME NEW i \in Instances,
             (\E o \in Options : Create(i, o)) \/ PingSucceeds(i)
                 \/ PingFails(i) \/ PingTimesOut(i)
      PROVE  IInv'
  BY <1>2, CreateKeepsIInv, PingSucceedsKeepsIInv, PingFailsKeepsIInv DEF PingTimesOut
<1>3. ASSUME NEW c \in Closers,
             (\E i \in Instances : CallClose(c, i)) \/ AlreadyClosed(c)
                 \/ NotYetClosed(c) \/ MarkClosed(c) \/ CloseRedis(c)
      PROVE  IInv'
  BY <1>3, CallCloseKeepsIInv, AlreadyClosedKeepsIInv, NotYetClosedKeepsIInv,
     MarkClosedKeepsIInv, CloseRedisKeepsIInv
<1> QED BY <1>1, <1>2, <1>3, ServiceClosesKeepsIInv DEF Next

\* The strengthening always holds.
THEOREM InvariantHolds == Spec => []IInv
  BY InitEstablishesIInv, StepKeepsIInv, PTL DEF Spec

\* The variables keep their types.
THEOREM TypeCorrect == Spec => []TypeOK
<1>1. IInv => TypeOK
  BY DEF IInv
<1> QED BY <1>1, InvariantHolds, PTL

\* A Create that fails has closed the Redis client it built.
THEOREM FailedCreateLeavesNothing == Spec => []NoOrphan
<1>1. IInv => NoOrphan
  BY DEF IInv
<1> QED BY <1>1, InvariantHolds, PTL

\* No other instance's life takes away the Redis client of one in use.
THEOREM ClientOutlivesOthers == Spec => []UsableUntilClosed
<1>1. IInv => UsableUntilClosed
  <2> SUFFICES ASSUME IInv, NEW i \in Instances, phase[i] = "ready", Closes(i) = {},
                      ~(opts[i].redis = "injected" /\ released)
               PROVE  conn[ConnOf(i)] = "open"
      BY DEF UsableUntilClosed
  <2>1. ~closed[i]
    BY DEF IInv, CloseConsistent
  <2>2. Accepted(opts[i])
    BY DEF IInv, CreateConsistent
  <2> QED BY <2>1, <2>2 DEF IInv, CreateConsistent, ConnOf, Accepted
<1> QED BY <1>1, InvariantHolds, PTL

\* When the racing Close calls have all returned, the owned client is closed.
THEOREM CloseIsComplete == Spec => []ClosedWhenAllReturned
<1>1. IInv => ClosedWhenAllReturned
  BY DEF IInv, CloseConsistent, ClosedWhenAllReturned, Closes
<1> QED BY <1>1, InvariantHolds, PTL

\* Close fails on a closed client only for calls that overlapped.
THEOREM CloseIsIdempotent == Spec => []IdempotentClose
<1>1. IInv => IdempotentClose
  BY DEF IInv
<1> QED BY <1>1, InvariantHolds, PTL

\* A timeout that an instance was promised is never taken away by another.
THEOREM TimeoutSurvivesSharing == Spec => []TimeoutKept
<1>1. IInv => TimeoutKept
  BY DEF IInv
<1> QED BY <1>1, InvariantHolds, PTL
=============================================================================
