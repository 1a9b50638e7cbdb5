--------------------------- MODULE RelayLifecycle ---------------------------
(***************************************************************************)
(* One OutboxRelay object over the life of its process: the start() after  *)
(* the databases are bootstrapped, the setTimeout chain with its backoff,  *)
(* and the SIGINT / SIGTERM handlers that await stop() and then close the  *)
(* event bus and the Postgres pool and exit (index.ts).                    *)
(*                                                                         *)
(* The event loop runs one callback at a time, so an action is what runs   *)
(* between two awaits.  What a poll does is in module Outbox.              *)
(***************************************************************************)
EXTENDS Naturals, FiniteSetsExt

CONSTANTS
  Handlers,      \* deliveries of SIGINT or SIGTERM: each runs the handler
  Interval,      \* OUTBOX_POLL_INTERVAL_MS
  MaxBackoff,    \* OUTBOX_MAX_BACKOFF_MS
  MaxFailures    \* bound: failureCount is not counted further

ASSUME LifecycleAssumption ==
  /\ Interval \in Nat \ {0}
  /\ MaxBackoff \in Nat \ {0}
  /\ MaxFailures \in Nat

VARIABLES
  alive,         \* the process has not exited
  booted,        \* the bootstrap promise has resolved
  isActive, isPolling, failureCount,
  armed,         \* the timer timeoutId refers to is pending
  delay,         \* the delay it was last scheduled with
  resolver,      \* shutdownResolve: handlers whose stop() promise it resolves
  handler        \* where each signal handler is

lifecycleVars ==
  <<alive, booted, isActive, isPolling, failureCount, armed, delay, resolver, handler>>
relay == <<isActive, isPolling, failureCount, armed, delay, resolver>>

HandlerStep == {"none", "stopping", "stopped", "busClosed", "poolClosed"}

-----------------------------------------------------------------------------
\* Math.min(Math.pow(2, failureCount - 1), 30)
Factor(f) == IF f > 5 THEN 30 ELSE 2 ^ (f - 1)

\* Mutant: the cap of the delay forgotten.
Delays_NoCap(f) ==
  IF f = 0 THEN {Interval}
  ELSE LET backoff == Interval * Factor(f)
       IN  {backoff + jitter : jitter \in {0, (backoff * 3) \div 10}}

\* The delays scheduleNext may choose after f failures: jitter adds 0% to 30%.
Delays(f) ==
  IF f = 0 THEN {Interval}
  ELSE LET backoff == Interval * Factor(f)
       IN  {Min({backoff + jitter, MaxBackoff}) : jitter \in {0, (backoff * 3) \div 10}}

\* scheduleNext, called with isActive TRUE and failureCount f.
ScheduleNext(f) ==
  /\ armed' = TRUE
  /\ delay' \in Delays(f)

LifecycleInit ==
  /\ alive = TRUE
  /\ booted = FALSE
  /\ isActive = FALSE /\ isPolling = FALSE
  /\ failureCount = 0
  /\ armed = FALSE /\ delay = Interval
  /\ resolver = {}
  /\ handler = [h \in Handlers |-> "none"]

\* The bootstrap resolves and index.ts calls outboxRelay.start().
Start ==
  /\ alive /\ ~booted
  /\ booted' = TRUE
  /\ isActive' = TRUE
  /\ resolver' = {}
  /\ ScheduleNext(failureCount)
  /\ UNCHANGED <<alive, isPolling, failureCount, handler>>

\* The timer fires and pollNext begins, unless its guard stops it.
PollBegins ==
  /\ alive /\ armed
  /\ armed' = FALSE
  /\ isPolling' = (isPolling \/ isActive)
  /\ UNCHANGED <<alive, booted, isActive, failureCount, delay, resolver, handler>>

\* Mutant: the finally block forgets the promise of a waiting stop().
PollSettles_NoResolve(success) ==
  /\ alive /\ isPolling
  /\ failureCount' = IF success THEN 0 ELSE Min({failureCount + 1, MaxFailures})
  /\ isPolling' = FALSE
  /\ IF isActive
     THEN ScheduleNext(failureCount')
     ELSE UNCHANGED <<armed, delay>>
  /\ UNCHANGED <<alive, booted, isActive, resolver, handler>>

\* The poll settles: the rest of pollNext, its finally block included.
PollSettles(success) ==
  /\ alive /\ isPolling
  /\ failureCount' = IF success THEN 0 ELSE Min({failureCount + 1, MaxFailures})
  /\ isPolling' = FALSE
  /\ IF isActive
     THEN /\ ScheduleNext(failureCount')
          /\ UNCHANGED <<resolver, handler>>
     ELSE /\ resolver' = {}
          /\ handler' = [h \in Handlers |-> IF h \in resolver THEN "stopped" ELSE handler[h]]
          /\ UNCHANGED <<armed, delay>>
  /\ UNCHANGED <<alive, booted, isActive>>

-----------------------------------------------------------------------------
(* A signal handler: handleGracefulShutdown, one action per await.         *)

\* Mutant: stop() does not look at isPolling.
StopPolling_NoWait(h) ==
  /\ isActive' = FALSE
  /\ armed' = FALSE
  /\ handler' = [handler EXCEPT ![h] = "stopped"]
  /\ UNCHANGED resolver

\* stop() of an active relay: with a poll in flight the promise stays pending.
StopPolling(h) ==
  /\ isActive' = FALSE
  /\ armed' = FALSE
  /\ IF isPolling
     THEN /\ resolver' = {h}
          /\ handler' = [handler EXCEPT ![h] = "stopping"]
     ELSE /\ handler' = [handler EXCEPT ![h] = "stopped"]
          /\ UNCHANGED resolver

\* The signal arrives: the handler runs up to the await of stop().
Signal(h) ==
  /\ alive
  /\ handler[h] = "none"
  /\ IF isActive
     THEN StopPolling(h)
     ELSE /\ handler' = [handler EXCEPT ![h] = "stopped"]
          /\ UNCHANGED <<isActive, armed, resolver>>
  /\ UNCHANGED <<alive, booted, isPolling, failureCount, delay>>

CloseBus(h) ==
  /\ alive
  /\ handler[h] = "stopped"
  /\ handler' = [handler EXCEPT ![h] = "busClosed"]
  /\ UNCHANGED <<alive, booted, relay>>

\* (Without a bootstrapped pool getInitializedPostgresClient throws: see Exit.)
ClosePool(h) ==
  /\ alive /\ booted
  /\ handler[h] = "busClosed"
  /\ handler' = [handler EXCEPT ![h] = "poolClosed"]
  /\ UNCHANGED <<alive, booted, relay>>

\* process.exit(0) after the pool is closed, or process.exit(1) from the catch
\* when closing the bus or the pool throws.
Exit(h) ==
  /\ alive
  /\ handler[h] \in {"stopped", "busClosed", "poolClosed"}
  /\ alive' = FALSE
  /\ UNCHANGED <<booted, relay, handler>>

Shutdown(h) == CloseBus(h) \/ ClosePool(h) \/ Exit(h)

LifecycleNext ==
  \/ Start
  \/ PollBegins
  \/ \E success \in BOOLEAN : PollSettles(success)
  \/ \E h \in Handlers : Signal(h) \/ Shutdown(h)

\* Timers fire, awaited calls settle.  Whether a poll succeeds is open, and so
\* is whether a signal ever arrives.
Fairness ==
  /\ WF_lifecycleVars(PollBegins)
  /\ WF_lifecycleVars(\E success \in BOOLEAN : PollSettles(success))
  /\ \A h \in Handlers : WF_lifecycleVars(Shutdown(h))

LifecycleSpec == LifecycleInit /\ [][LifecycleNext]_lifecycleVars /\ Fairness

-----------------------------------------------------------------------------
LifecycleTypeOK ==
  /\ alive \in BOOLEAN /\ booted \in BOOLEAN
  /\ isActive \in BOOLEAN /\ isPolling \in BOOLEAN /\ armed \in BOOLEAN
  /\ failureCount \in 0..MaxFailures
  /\ delay \in Min({Interval, MaxBackoff}) .. Max({Interval, MaxBackoff})
  /\ resolver \subseteq Handlers
  /\ handler \in [Handlers -> HandlerStep]

\* Once every stop() promise of a stopped relay is resolved the relay is
\* quiescent: no poll in flight, no timer that could begin one.
StopQuiesces ==
  booted /\ ~isActive /\ resolver = {} => ~isPolling /\ ~armed

\* A process that received a signal exits: no handler waits for a poll that
\* nobody resolves.
SignalsExit ==
  \A h \in Handlers : handler[h] # "none" ~> ~alive
=============================================================================
