------------------------------- MODULE Lifecycle -------------------------------
(***************************************************************************)
(* Create and Close (factory.go): several SDK instances of one process,    *)
(* each with its own Redis client or one the service injects into all of   *)
(* them, its own http.Client or a shared one, and any number of goroutines *)
(* that call Close on them.                                                *)
(*                                                                         *)
(* Outside the repository: a closed go-redis client stays closed, a second *)
(* Close of it returns ErrClosed, and a ping of it fails.                  *)
(***************************************************************************)
EXTENDS Naturals

CONSTANTS Instances,  \* calls of Create
          Closers,    \* calls of some Result.Close
          Timeouts,   \* values of FetchTimeout and of an http.Client's Timeout
          Injected,   \* the Redis client that the service built
          None

ASSUME ConstantsDiffer ==
    /\ Timeouts \subseteq Nat
    /\ Injected \notin Instances /\ None \notin Instances

\* CreateOptions. "complete": HeliosBaseURL and SignatureSharedSecret are set.
Options == [complete : BOOLEAN, redis : {"none", "badURL", "url", "injected"},
            http : {"own", "injected"}, fetchTimeout : Timeouts]

VARIABLES
    phase,     \* phase[i]: progress of Create call i
    opts,      \* opts[i]: its argument
    conn,      \* conn[r]: a Redis client, named by the Create that built it
    released,  \* the service closed the Redis client it injects
    timeout,   \* Timeout of the http.Client the service injects
    closed,    \* closed[i]: the variable captured by instance i's Close
    pc,        \* pc[c]: progress of Close call c
    target,    \* target[c]: the instance it closes
    result,    \* result[c]: the error it returned
    overlap    \* pairs of Close calls of one instance that ran concurrently

createVars == <<phase, opts, timeout>>
closeVars == <<closed, pc, target, result, overlap>>
vars == <<createVars, conn, released, closeVars>>

TypeOK ==
    /\ phase \in [Instances -> {"new", "pinging", "ready", "failed"}]
    /\ opts \in [Instances -> Options \cup {None}]
    /\ conn \in [Instances \cup {Injected} -> {"none", "open", "closed"}]
    /\ released \in BOOLEAN
    /\ timeout \in Timeouts
    /\ closed \in [Instances -> BOOLEAN]
    /\ pc \in [Closers -> {"idle", "called", "marking", "closing", "returned"}]
    /\ target \in [Closers -> Instances \cup {None}]
    /\ result \in [Closers -> {"none", "nil", "ErrClosed"}]
    /\ overlap \in SUBSET (Closers \X Closers)

Init ==
    /\ phase = [i \in Instances |-> "new"]
    /\ opts = [i \in Instances |-> None]
    /\ conn = [r \in Instances \cup {Injected} |->
                  IF r = Injected THEN "open" ELSE "none"]
    /\ released = FALSE
    /\ timeout \in Timeouts
    /\ closed = [i \in Instances |-> FALSE]
    /\ pc = [c \in Closers |-> "idle"]
    /\ target = [c \in Closers |-> None]
    /\ result = [c \in Closers |-> "none"]
    /\ overlap = {}
-----------------------------------------------------------------------------
(***************************************************************************)
(* Create.                                                                 *)
(***************************************************************************)
ConnOf(i) == IF opts[i].redis = "url" THEN i ELSE Injected

\* Mutants: whatever client the instance uses is closed; the test is inverted.
OwnsAnyRedis(i) == TRUE
OwnsInjected(i) == opts[i].redis # "url"

\* ownsRedis: Create built the client.
OwnsRedis(i) == opts[i].redis = "url"

\* The required options are set and the URL, if it is used, parses.
Accepted(o) == o.complete /\ o.redis \in {"url", "injected"}

\* Validation, and the Redis client built or taken over.
Create(i, o) ==
    /\ phase[i] = "new"
    /\ opts' = [opts EXCEPT ![i] = o]
    /\ phase' = [phase EXCEPT ![i] = IF Accepted(o) THEN "pinging" ELSE "failed"]
    /\ conn' = IF Accepted(o) /\ o.redis = "url"
               THEN [conn EXCEPT ![i] = "open"] ELSE conn
    /\ UNCHANGED <<released, timeout, closeVars>>

\* Mutant: a failed ping leaves the client that Create built.
PingFailsKeepingClient(i) ==
    /\ phase[i] = "pinging"
    /\ phase' = [phase EXCEPT ![i] = "failed"]
    /\ UNCHANGED <<opts, timeout, conn, released, closeVars>>

\* The ping fails: Create closes the client if it built it.
PingFails(i) ==
    /\ phase[i] = "pinging"
    /\ phase' = [phase EXCEPT ![i] = "failed"]
    /\ conn' = IF OwnsRedis(i) THEN [conn EXCEPT ![ConnOf(i)] = "closed"] ELSE conn
    /\ UNCHANGED <<opts, timeout, released, closeVars>>

\* Mutant: the ping runs under context.Background().
NoPingTimeout == 0

\* The ping's context, in seconds.
PingTimeout == 2

PingTimesOut(i) == PingTimeout > 0 /\ PingFails(i)

\* Mutants: FetchTimeout is copied whether or not it is set; the 2s default is
\* written into an injected client too.
CopyTimeout(old, fetchTimeout) == fetchTimeout
DefaultTimeout(old, fetchTimeout) == IF fetchTimeout > 0 THEN fetchTimeout ELSE 2

\* NewHeliosClient writes a FetchTimeout that is set into the injected client.
OverrideTimeout(old, fetchTimeout) ==
    IF fetchTimeout > 0 THEN fetchTimeout ELSE old

\* The ping answered: wire the cache, the HeliosClient and the PermissionClient.
PingSucceeds(i) ==
    /\ phase[i] = "pinging"
    /\ conn[ConnOf(i)] = "open"
    /\ phase' = [phase EXCEPT ![i] = "ready"]
    /\ timeout' = IF opts[i].http = "injected"
                  THEN OverrideTimeout(timeout, opts[i].fetchTimeout) ELSE timeout
    /\ UNCHANGED <<opts, conn, released, closeVars>>

\* What bounds a fetch of instance i: its own client's Timeout, 2s unless
\* FetchTimeout is set, or the injected client's, whoever wrote it last.
FetchTimeout(i) ==
    IF opts[i].http = "injected" THEN timeout
    ELSE IF opts[i].fetchTimeout > 0 THEN opts[i].fetchTimeout ELSE 2

\* The owner of the injected client closes it.
ServiceClosesRedis ==
    /\ ~released
    /\ released' = TRUE
    /\ conn' = [conn EXCEPT ![Injected] = "closed"]
    /\ UNCHANGED <<createVars, closeVars>>
-----------------------------------------------------------------------------
(***************************************************************************)
(* Close, a closure over "closed" without a lock. A read that races with   *)
(* the write of another call may see either value; a read after a call     *)
(* that returned before this one began sees the write.                     *)
(***************************************************************************)
Running(c) == pc[c] \in {"called", "marking", "closing"}

CallClose(c, i) ==
    /\ pc[c] = "idle" /\ phase[i] = "ready"
    /\ pc' = [pc EXCEPT ![c] = "called"]
    /\ target' = [target EXCEPT ![c] = i]
    /\ overlap' = overlap \cup
           UNION {{<<c, d>>, <<d, c>>} : d \in {e \in Closers :
                                                    Running(e) /\ target[e] = i}}
    /\ UNCHANGED <<createVars, conn, released, closed, result>>

\* The calls of the same instance that have written closed = TRUE.
Writers(c) == {d \in Closers : target[d] = target[c]
                                 /\ pc[d] \in {"closing", "returned"}}

\* if closed { return nil }
AlreadyClosed(c) ==
    /\ pc[c] = "called" /\ closed[target[c]]
    /\ pc' = [pc EXCEPT ![c] = "returned"]
    /\ result' = [result EXCEPT ![c] = "nil"]
    /\ UNCHANGED <<createVars, conn, released, closed, target, overlap>>

\* closed reads FALSE: it is, or every write of it races with this read.
NotYetClosed(c) ==
    /\ pc[c] = "called"
    /\ closed[target[c]] => \A d \in Writers(c) : <<c, d>> \in overlap
    /\ pc' = [pc EXCEPT ![c] = "marking"]
    /\ UNCHANGED <<createVars, conn, released, closed, target, result, overlap>>

\* Mutant: closed stays FALSE.
LeaveUnmarked(c) ==
    /\ pc[c] = "marking"
    /\ pc' = [pc EXCEPT ![c] = IF OwnsRedis(target[c]) THEN "closing" ELSE "returned"]
    /\ result' = [result EXCEPT ![c] = IF OwnsRedis(target[c]) THEN "none" ELSE "nil"]
    /\ UNCHANGED <<createVars, conn, released, closed, target, overlap>>

\* closed = true; nothing is left to do for an injected client.
MarkClosed(c) ==
    /\ pc[c] = "marking"
    /\ closed' = [closed EXCEPT ![target[c]] = TRUE]
    /\ pc' = [pc EXCEPT ![c] = IF OwnsRedis(target[c]) THEN "closing" ELSE "returned"]
    /\ result' = [result EXCEPT ![c] = IF OwnsRedis(target[c]) THEN "none" ELSE "nil"]
    /\ UNCHANGED <<createVars, conn, released, target, overlap>>

\* return redisClient.Close()
CloseRedis(c) ==
    /\ pc[c] = "closing"
    /\ conn' = [conn EXCEPT ![ConnOf(target[c])] = "closed"]
    /\ pc' = [pc EXCEPT ![c] = "returned"]
    /\ result' = [result EXCEPT ![c] =
                     IF conn[ConnOf(target[c])] = "open" THEN "nil" ELSE "ErrClosed"]
    /\ UNCHANGED <<createVars, released, closed, target, overlap>>
-----------------------------------------------------------------------------
Next ==
    \/ \E i \in Instances :
           \/ \E o \in Options : Create(i, o)
           \/ PingSucceeds(i) \/ PingFails(i) \/ PingTimesOut(i)
    \/ \E c \in Closers :
           \/ \E i \in Instances : CallClose(c, i)
           \/ AlreadyClosed(c) \/ NotYetClosed(c) \/ MarkClosed(c) \/ CloseRedis(c)
    \/ ServiceClosesRedis

Spec == Init /\ [][Next]_vars

\* A deadline that is set passes, and runnable goroutines run. Nothing says
\* that Redis answers or refuses a ping.
Fairness ==
    /\ \A i \in Instances : WF_vars(PingTimesOut(i))
    /\ \A c \in Closers :
           WF_vars(AlreadyClosed(c) \/ NotYetClosed(c) \/ MarkClosed(c) \/ CloseRedis(c))

FairSpec == Spec /\ Fairness
-----------------------------------------------------------------------------
(***************************************************************************)
(* Properties.                                                             *)
(***************************************************************************)
Closes(i) == {c \in Closers : target[c] = i}

\* A Create that fails at any point leaves no open Redis client of its own
\* behind, since nobody else has a reference to close it with
\* (factory.go:130-133).
NoOrphan == \A i \in Instances : phase[i] = "failed" => conn[i] # "open"

\* An instance can use its Redis client until somebody closes that instance,
\* or the service closes the client it injected: other instances that use the
\* same client, fail to start or are closed twice never take it away
\* (factory.go:51-54).
UsableUntilClosed ==
    \A i \in Instances :
        phase[i] = "ready" /\ Closes(i) = {}
            /\ ~(opts[i].redis = "injected" /\ released)
        => conn[ConnOf(i)] = "open"

\* Once all Close calls of an instance have returned, the client it owns is
\* closed, whichever of the racing calls returned early (factory.go:168-179).
ClosedWhenAllReturned ==
    \A i \in Instances :
        Closes(i) # {} /\ opts[i].redis = "url"
            /\ (\A c \in Closes(i) : pc[c] = "returned")
        => conn[i] = "closed"

\* Close is idempotent (factory.go:90-91): it can fail because the client is
\* closed already only if it ran concurrently with another Close of the same
\* instance, which is as far as a flag without a lock carries.
IdempotentClose ==
    \A c \in Closers : result[c] = "ErrClosed" =>
        \E d \in Closers \ {c} : target[d] = target[c] /\ <<c, d>> \in overlap

\* An instance with a client of its own or a FetchTimeout never fetches without
\* a timeout, whatever other instances write into a shared http.Client later
\* (client.go:126-136).
TimeoutKept ==
    \A i \in Instances :
        phase[i] = "ready" /\ (opts[i].http = "own" \/ opts[i].fetchTimeout > 0)
        => FetchTimeout(i) > 0

\* Create returns although Redis may never answer the ping (factory.go:126-129).
CreateReturns ==
    \A i \in Instances : phase[i] = "pinging" ~> phase[i] \in {"ready", "failed"}
-----------------------------------------------------------------------------
(***************************************************************************)
(* The inductive strengthening.                                            *)
(***************************************************************************)
\* What Create has done so far to its Redis client and its options.
CreateConsistent ==
    /\ conn[Injected] = IF released THEN "closed" ELSE "open"
    /\ \A i \in Instances :
           /\ phase[i] = "new" => conn[i] = "none"
           /\ phase[i] \in {"pinging", "ready"} =>
                  opts[i] \in Options /\ Accepted(opts[i])
           /\ phase[i] = "pinging" =>
                  conn[i] = IF opts[i].redis = "url" THEN "open" ELSE "none"
           /\ phase[i] = "ready" /\ opts[i].redis = "url" =>
                  conn[i] = "open" \/ (conn[i] = "closed" /\ closed[i])

\* The flag, the calls and the owned client: a call that returned saw or wrote
\* the flag, and the flag is written before the client is closed.
CloseConsistent ==
    /\ \A c \in Closers :
           /\ pc[c] = "idle" <=> target[c] = None
           /\ pc[c] # "idle" => target[c] \in Instances /\ phase[target[c]] = "ready"
           /\ pc[c] = "closing" => opts[target[c]].redis = "url"
           /\ pc[c] \in {"closing", "returned"} => closed[target[c]]
           /\ result[c] = "ErrClosed" => pc[c] = "returned"
    /\ \A i \in Instances : closed[i] =>
           /\ \E c \in Closes(i) : pc[c] \in {"closing", "returned"}
           /\ opts[i].redis = "url" =>
                  conn[i] = "closed" \/ \E c \in Closes(i) : pc[c] = "closing"

\* Calls of one instance that run at the same time are recorded as such.
OverlapRecorded ==
    \A c, d \in Closers :
        c # d /\ target[c] = target[d] /\ Running(c) /\ Running(d) => <<c, d>> \in overlap

\* An owned client that is closed was closed by a call that ran concurrently
\* with every other call that is about to close it.
RacersOverlapCloser ==
    \A i \in Instances :
        phase[i] = "ready" /\ opts[i].redis = "url" /\ conn[i] = "closed" =>
            \E d \in Closes(i) :
                /\ pc[d] = "returned"
                /\ \A c \in Closes(i) :
                       pc[c] \in {"marking", "closing"} => <<c, d>> \in overlap

IInv ==
    /\ TypeOK
    /\ CreateConsistent
    /\ NoOrphan
    /\ TimeoutKept
    /\ CloseConsistent
    /\ OverlapRecorded
    /\ RacersOverlapCloser
    /\ IdempotentClose
=============================================================================
