-------------------------- MODULE ExpiryLifecycle --------------------------
(***************************************************************************)
(* Who calls sweepExpired: each store object owns at most one timer, armed *)
(* when a bridge binds its clock, fired once per interval, and armed again *)
(* only after the sweep it started has settled (src/store/expiry-*.ts).    *)
(* close() stops the timer, awaits the sweep and only then closes.         *)
(***************************************************************************)
CONSTANT Stores   \* store objects; with MySQL, the replicas of one database

VARIABLE expiry

expiryVars == <<expiry>>

\* ready: the schema is migrated.  started: a clock is bound, so there is a
\* scheduler.  timer: armed.  sweeping: the active promise is pending.
SetExpiry(s, record) == expiry' = [expiry EXCEPT ![s] = record]

MarkReady(s) ==
  /\ ~expiry[s].closed
  /\ ~expiry[s].ready
  /\ SetExpiry(s, [expiry[s] EXCEPT !.ready = TRUE])

\* Binding a second clock arms nothing: the scheduler reads them all.
StartCollection(s) ==
  /\ expiry[s].ready /\ ~expiry[s].stopped /\ ~expiry[s].closed
  /\ ~expiry[s].started
  /\ SetExpiry(s, [expiry[s] EXCEPT !.started = TRUE, !.timer = TRUE])

TimerFires(s) ==
  /\ expiry[s].timer
  /\ SetExpiry(s, [expiry[s] EXCEPT !.timer = FALSE, !.sweeping = TRUE])

AfterSweep(record) == [record EXCEPT !.sweeping = FALSE, !.timer = ~record.stopped]

\* Failures are reported and contained: the finally clause runs all the same.
AfterFailedSweep(record) == AfterSweep(record)

\* A slip: close() does not await the sweep.
MutMayClose(record) == record.stopped /\ ~record.closed

MayClose(record) == record.stopped /\ ~record.sweeping /\ ~record.closed

Stop(s) ==
  /\ ~expiry[s].closed /\ ~expiry[s].stopped
  /\ SetExpiry(s, [expiry[s] EXCEPT !.stopped = TRUE, !.timer = FALSE])

CloseReturns(s) ==
  /\ MayClose(expiry[s])
  /\ SetExpiry(s, [expiry[s] EXCEPT !.closed = TRUE])

\* Everything but the sweep itself, which belongs to the store.
LifecycleStep(s) ==
  MarkReady(s) \/ StartCollection(s) \/ TimerFires(s) \/ Stop(s) \/ CloseReturns(s)

ExpiryInit ==
  expiry = [s \in Stores |-> [ready |-> FALSE, started |-> FALSE, timer |-> FALSE,
                              sweeping |-> FALSE, stopped |-> FALSE, closed |-> FALSE]]

=============================================================================
