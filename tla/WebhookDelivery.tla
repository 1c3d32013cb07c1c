-------------------------- MODULE WebhookDelivery --------------------------
(***************************************************************************)
(* Inbound webhooks: the delivery handler of every pod, the dedup of event *)
(* ids by a Postgres session advisory lock held on a small pool of its     *)
(* own, the delivery log that remembers which events were processed, and   *)
(* the dashboard operations that reconfigure the webhook meanwhile.        *)
(*                                                                         *)
(* One webhook with one event type.  A provider may send an event any      *)
(* number of times, to any pod.  The payload, the token, the method and    *)
(* the rate limits are abstracted to whether a call is turned away; the    *)
(* rows of the target table, which end users also write, to whether the    *)
(* match key finds one.                                                    *)
(***************************************************************************)
EXTENDS Integers

CONSTANTS Pods,       \* server replicas
          Calls,      \* deliveries that can be in flight at once
          Events,     \* event ids of the provider
          PoolSize,   \* dedupLockPoolMaxConns, for each pod
          Nobody,     \* stands for no holder of a lock
          MaxChanges, \* bound: changes of the webhook, and purges
          MaxFaults   \* bound: failed queries, hang-ups, crashes, lost sessions

ASSUME PodsAndEventsExist == Pods # {} /\ Events # {}
ASSUME NobodyIsNoCall == Nobody \notin Calls
ASSUME LimitsAreNat == PoolSize \in Nat \ {0} /\ MaxChanges \in Nat /\ MaxFaults \in Nat

VARIABLES
    hook,      \* the webhook and the mapping of its event type
    log,       \* webhook_deliveries: event ids with an outcome
    applied,   \* writes committed for an event, counted up to 2
    lockPool,  \* dedupLockOnce, dedupLockErr of each pod
    conns,     \* free connections of each pod's lock pool
    holder,    \* the call whose session holds the advisory lock of an event
    call,      \* deliveries in flight
    changes,   \* changes and purges that may still happen
    faults,    \* faults that may still happen
    exposed    \* history: events applied without the dedup, or whose record was lost

hookVars == <<hook, log, applied, changes>>
lockVars == <<lockPool, conns, holder>>
vars == <<hookVars, lockVars, call, faults, exposed>>

-----------------------------------------------------------------------------
\* Update and delete both find their row by the match key.
Actions == {"none", "insert", "match"}

\* What a delivery came to: inserted, updated and deleted are "written";
\* ambiguous_match and write_error, which the provider sees fail, "error".
Outcomes == {"none", "written", "captured", "unmapped", "duplicate_skipped",
             "row_not_found", "error"}

Hook == [live : BOOLEAN, status : {"capture", "active"}, dedup : BOOLEAN, action : Actions]
CallIdle == [pc |-> "idle", pod |-> CHOOSE p \in Pods : TRUE, event |-> CHOOSE e \in Events : TRUE,
             dedup |-> FALSE, action |-> "none", outcome |-> "none",
             conn |-> FALSE, gone |-> FALSE]
CallState == [pc : {"idle", "resolve", "capture", "map", "pool", "lock", "check", "write", "log", "reply"},
              pod : Pods, event : Events, dedup : BOOLEAN, action : Actions,
              outcome : Outcomes, conn : BOOLEAN, gone : BOOLEAN]

\* A webhook is created in capture mode, without a mapping.
Init ==
    /\ hook \in [live : {TRUE}, status : {"capture"}, dedup : BOOLEAN, action : {"none"}]
    /\ log = {}
    /\ applied = [e \in Events |-> 0]
    /\ lockPool = [p \in Pods |-> "unopened"]
    /\ conns = [p \in Pods |-> PoolSize]
    /\ holder = [e \in Events |-> Nobody]
    /\ call = [c \in Calls |-> CallIdle]
    /\ changes = MaxChanges
    /\ faults = MaxFaults
    /\ exposed = {}

-----------------------------------------------------------------------------
(* The dashboard.                                                          *)

Change == changes > 0 /\ changes' = changes - 1

ChangeHook(h) ==
    /\ Change
    /\ hook.live
    /\ hook' = h
    /\ UNCHANGED <<log, applied, lockVars, exposed, call, faults>>

SaveEventMapping ==
    /\ hook.action = "none"
    /\ \E a \in Actions \ {"none"} : ChangeHook([hook EXCEPT !.action = a])

DeleteEventMapping == hook.action # "none" /\ ChangeHook([hook EXCEPT !.action = "none"])

\* Counts the mappings first: it may lose the last one right after.
ActivateWebhook == hook.action # "none" /\ ChangeHook([hook EXCEPT !.status = "active"])

UpdateWebhook == \E d \in BOOLEAN : ChangeHook([hook EXCEPT !.dedup = d])

SoftDeleteWebhook == ChangeHook([hook EXCEPT !.live = FALSE])

\* The rows of an event are 30 days old; no call lasts that long.
PurgeExpiredDeliveries(e) ==
    /\ Change
    /\ \A c \in Calls : call[c].pc # "idle" => call[c].event # e
    /\ log' = {row \in log : row.event # e}
    /\ exposed' = exposed \cup {e}
    /\ UNCHANGED <<hook, applied, lockVars, call, faults>>

-----------------------------------------------------------------------------
(* A delivery.  Its queries run under the context of the request: they     *)
(* fail once the provider hung up.                                         *)

Goto(c, pc) == call' = [call EXCEPT ![c].pc = pc]
Conclude(c, outcome) == call' = [call EXCEPT ![c].pc = "log", ![c].outcome = outcome]
At(c, pc) == call[c].pc = pc /\ ~call[c].gone

Fault == faults > 0 /\ faults' = faults - 1

\* What makes a query of the call fail.
Fails(c) == (call[c].gone /\ UNCHANGED faults) \/ Fault

Receive(c, p, e) ==
    /\ call[c].pc = "idle"
    /\ call' = [call EXCEPT ![c] = [CallIdle EXCEPT !.pc = "resolve", !.pod = p, !.event = e]]
    /\ UNCHANGED <<hookVars, lockVars, exposed, faults>>

HangUp(c) ==
    /\ call[c].pc # "idle"
    /\ ~call[c].gone
    /\ Fault
    /\ call' = [call EXCEPT ![c].gone = TRUE]
    /\ UNCHANGED <<hookVars, lockVars, exposed>>

\* The row the whole delivery goes by is read here.
Resolve(c) ==
    /\ At(c, "resolve")
    /\ hook.live
    /\ call' = [call EXCEPT ![c].pc = IF hook.status = "capture" THEN "capture" ELSE "map",
                            ![c].dedup = hook.dedup]
    /\ UNCHANGED <<hookVars, lockVars, exposed, faults>>

\* No such webhook; or a limit, a bad token, method or body; or no answer.
TurnAway(c) ==
    /\ call[c].pc = "resolve"
    /\ (~hook.live /\ UNCHANGED faults) \/ Fails(c)
    /\ call' = [call EXCEPT ![c] = CallIdle]
    /\ UNCHANGED <<hookVars, lockVars, exposed>>

\* The sample is only shown in the dashboard.
StoreCapturedSample(c) ==
    /\ At(c, "capture")
    /\ Conclude(c, IF hook.live THEN "captured" ELSE "error")
    /\ UNCHANGED <<hookVars, lockVars, faults, exposed>>

GetEventMapping(c) ==
    /\ At(c, "map")
    /\ call' = [call EXCEPT
         ![c].action = hook.action,
         ![c].outcome = IF hook.action = "none" THEN "unmapped" ELSE "none",
         ![c].pc = IF hook.action = "none" THEN "log"
                   ELSE IF call[c].dedup THEN "pool" ELSE "write"]
    /\ UNCHANGED <<hookVars, lockVars, exposed, faults>>

\* dedupLockOnce: dials with the context of the first delivery that needs it,
\* and keeps what came of it.
OpenLockPool(c) ==
    LET p == call[c].pod IN
    /\ call[c].pc = "pool"
    /\ lockPool[p] = "unopened"
    /\ \/ /\ ~call[c].gone
          /\ lockPool' = [lockPool EXCEPT ![p] = "open"]
          /\ UNCHANGED faults
       \/ /\ Fails(c)
          /\ lockPool' = [lockPool EXCEPT ![p] = "failed"]
    /\ UNCHANGED <<hookVars, conns, holder, exposed, call>>

NoLockPool(c) ==
    /\ call[c].pc = "pool"
    /\ lockPool[call[c].pod] = "failed"
    /\ Conclude(c, "error")
    /\ UNCHANGED <<hookVars, lockVars, exposed, faults>>

AcquireConn(c) ==
    LET p == call[c].pod IN
    /\ At(c, "pool")
    /\ lockPool[p] = "open"
    /\ conns[p] > 0
    /\ conns' = [conns EXCEPT ![p] = @ - 1]
    /\ call' = [call EXCEPT ![c].pc = "lock", ![c].conn = TRUE]
    /\ UNCHANGED <<hookVars, lockPool, holder, exposed, faults>>

LockEventID(c) ==
    LET e == call[c].event IN
    /\ At(c, "lock")
    /\ holder[e] = Nobody
    /\ holder' = [holder EXCEPT ![e] = c]
    /\ Goto(c, "check")
    /\ UNCHANGED <<hookVars, lockPool, conns, exposed, faults>>

GiveUpLock(c, back) ==
    LET e == call[c].event IN
    /\ call[c].pc = "lock"
    /\ (holder[e] # Nobody /\ UNCHANGED faults) \/ Fails(c)
    /\ conns' = [conns EXCEPT ![call[c].pod] = @ + back]
    /\ call' = [call EXCEPT ![c].pc = "log", ![c].outcome = "error", ![c].conn = FALSE]
    /\ UNCHANGED <<hookVars, lockPool, holder, exposed>>

\* Mutants: the connection is not released; it is released twice.
LeakConn(c) == GiveUpLock(c, 0)
ReleaseTwice(c) == GiveUpLock(c, 2)

\* lock_timeout, or the query failed: the connection goes back to the pool.
LockTimeout(c) == GiveUpLock(c, 1)

Seen(e, outcomes) == \E row \in log : row.event = e /\ row.outcome \in outcomes

\* Mutant: a failed attempt counts as processed.
SeenAtAll(e) == Seen(e, Outcomes)

\* processedOutcomes.
HasProcessedEventID(e) == Seen(e, {"written", "unmapped", "duplicate_skipped"})

CheckEventID(c) ==
    /\ At(c, "check")
    /\ IF HasProcessedEventID(call[c].event) THEN Conclude(c, "duplicate_skipped")
                                             ELSE Goto(c, "write")
    /\ UNCHANGED <<hookVars, lockVars, exposed, faults>>

Capped(n) == IF n < 2 THEN n + 1 ELSE 2

CommitWrite(c, locks) ==
    LET e == call[c].event IN
    /\ At(c, "write")
    /\ applied' = [applied EXCEPT ![e] = Capped(@)]
    /\ holder' = locks
    /\ Conclude(c, "written")
    /\ exposed' = IF call[c].dedup THEN exposed ELSE exposed \cup {e}
    /\ UNCHANGED <<hook, log, changes, lockPool, conns, faults>>

Released(c) == [e \in Events |-> IF holder[e] = c THEN Nobody ELSE holder[e]]

\* Mutant: a lock of the transaction instead of the session ends here.
WriteThenUnlock(c) == CommitWrite(c, Released(c))

\* One transaction: the lookup by match key and the write, or the insert.
Write(c) == CommitWrite(c, holder)

\* The connection broke under the commit: the write is there, the handler
\* takes it for failed.
CommitInDoubt(c) ==
    LET e == call[c].event IN
    /\ At(c, "write")
    /\ Fault
    /\ applied' = [applied EXCEPT ![e] = Capped(@)]
    /\ Conclude(c, "error")
    /\ exposed' = exposed \cup {e}
    /\ UNCHANGED <<hook, log, changes, lockVars>>

\* The match key found no row, or several.
NoSingleRow(c) ==
    /\ At(c, "write")
    /\ call[c].action = "match"
    /\ \E outcome \in {"row_not_found", "error"} : Conclude(c, outcome)
    /\ UNCHANGED <<hookVars, lockVars, exposed, faults>>

\* A query failed, the app or the table is not in the registry, or the write
\* was refused: nothing was written.
StepFails(c) ==
    /\ call[c].pc \in {"capture", "map", "pool", "check", "write"}
    /\ call[c].pc = "pool" => lockPool[call[c].pod] = "open"
    /\ Fails(c)
    /\ Conclude(c, "error")
    /\ UNCHANGED <<hookVars, lockVars, exposed>>

Logged(c) == [event |-> call[c].event, outcome |-> call[c].outcome]

\* Only what the deferred unlock needs is left of the call.
Return(c) == call' = [call EXCEPT ![c] = [@ EXCEPT !.pc = "reply", !.dedup = FALSE,
                                          !.action = "none", !.outcome = "none"]]

\* Calls that were captured, unmapped or failed before are logged without an
\* event id: no duplicate is ever recognised by them.
LogDelivery(c) ==
    /\ At(c, "log")
    /\ log' = IF call[c].dedup /\ call[c].action # "none" THEN log \cup {Logged(c)} ELSE log
    /\ Return(c)
    /\ UNCHANGED <<hook, applied, changes, lockVars, exposed, faults>>

\* The error of InsertDelivery is dropped.
LogLost(c) ==
    /\ call[c].pc = "log"
    /\ Fails(c)
    /\ Return(c)
    /\ exposed' = IF call[c].outcome = "written" THEN exposed \cup {call[c].event} ELSE exposed
    /\ UNCHANGED <<hookVars, lockVars>>

\* The handler returns: the lock and its connection are released, whatever
\* became of the request, and the buffered response goes out.
Reply(c) ==
    LET p == call[c].pod IN
    /\ call[c].pc = "reply"
    /\ holder' = Released(c)
    /\ conns' = IF call[c].conn THEN [conns EXCEPT ![p] = @ + 1] ELSE conns
    /\ call' = [call EXCEPT ![c] = CallIdle]
    /\ UNCHANGED <<hookVars, lockPool, exposed, faults>>

\* Postgres ends the session that holds the lock; the handler goes on.
LockSessionLost(c) ==
    /\ holder[call[c].event] = c
    /\ Fault
    /\ holder' = Released(c)
    /\ exposed' = exposed \cup {call[c].event}
    /\ UNCHANGED <<hookVars, lockPool, conns, call>>

\* The calls of the pod end where they are, and Postgres ends their sessions.
Crash(p) ==
    LET dead == {c \in Calls : call[c].pc # "idle" /\ call[c].pod = p} IN
    /\ Fault
    /\ call' = [c \in Calls |-> IF c \in dead THEN CallIdle ELSE call[c]]
    /\ holder' = [e \in Events |-> IF holder[e] \in dead THEN Nobody ELSE holder[e]]
    /\ conns' = [conns EXCEPT ![p] = PoolSize]
    /\ lockPool' = [lockPool EXCEPT ![p] = "unopened"]
    /\ exposed' = exposed \cup
         {call[c].event : c \in {d \in dead : call[d].pc = "log" /\ call[d].outcome = "written"}}
    /\ UNCHANGED hookVars

-----------------------------------------------------------------------------
Dashboard ==
    \/ SaveEventMapping \/ DeleteEventMapping \/ ActivateWebhook
    \/ UpdateWebhook \/ SoftDeleteWebhook
    \/ \E e \in Events : PurgeExpiredDeliveries(e)

\* A delivery that began takes its next step.
Proceed(c) ==
    \/ Resolve(c) \/ TurnAway(c) \/ StoreCapturedSample(c) \/ GetEventMapping(c)
    \/ OpenLockPool(c) \/ NoLockPool(c) \/ AcquireConn(c) \/ LockEventID(c) \/ LockTimeout(c)
    \/ CheckEventID(c) \/ Write(c) \/ CommitInDoubt(c) \/ NoSingleRow(c) \/ StepFails(c)
    \/ LogDelivery(c) \/ LogLost(c) \/ Reply(c)

Next ==
    \/ Dashboard
    \/ \E c \in Calls :
          \/ \E p \in Pods, e \in Events : Receive(c, p, e)
          \/ Proceed(c) \/ HangUp(c) \/ LockSessionLost(c)
    \/ \E p \in Pods : Crash(p)

\* A handler that began goes on, and the lock pool serves in turn those who
\* wait for a connection.
Fairness == \A c \in Calls : WF_vars(Proceed(c)) /\ SF_vars(AcquireConn(c))

Spec == Init /\ [][Next]_vars
FairSpec == Spec /\ Fairness

\* The provider goes on sending every event.
ResendSpec ==
    FairSpec /\ \A e \in Events : WF_vars(\E c \in Calls, p \in Pods : Receive(c, p, e))

-----------------------------------------------------------------------------
TypeOK ==
    /\ hook \in Hook
    /\ log \in SUBSET [event : Events, outcome : Outcomes]
    /\ applied \in [Events -> 0..2]
    /\ lockPool \in [Pods -> {"unopened", "open", "failed"}]
    /\ conns \in [Pods -> 0..PoolSize]
    /\ holder \in [Events -> Calls \cup {Nobody}]
    /\ call \in [Calls -> CallState]
    /\ changes \in 0..MaxChanges
    /\ faults \in 0..MaxFaults
    /\ exposed \in SUBSET Events

\* However often and wherever an event is delivered, its write is committed
\* once, as long as the dedup was on, the write was known to be committed, its
\* record was not lost or purged, and no lock was lost with its session
\* (handleActiveDelivery).
AtMostOnce == \A e \in Events \ exposed : applied[e] <= 1

\* What is skipped as a duplicate was really applied: a failed or fruitless
\* attempt never makes a later delivery of the event look processed
\* (processedOutcomes).
SkippedWasApplied ==
    \A e \in Events : [event |-> e, outcome |-> "duplicate_skipped"] \in log => applied[e] > 0

\* Every delivery ends: the lock, the lock pool and a crash never leave one
\* waiting for ever (lockEventID).
EveryCallEnds == \A c \in Calls : []<>(call[c].pc = "idle")

\* "A second concurrent request blocks here until the first has committed its
\* write and delivery log row, then sees seen=true" (handleActiveDelivery): for
\* a webhook that is set up once, with the dedup on, no write is repeated.
AppliedOnce == \A e \in Events : hook.dedup => applied[e] <= 1

\* An event that the provider goes on sending is applied, once the webhook
\* stays active with an insert mapping: "a provider retry with the same
\* event_id must be allowed to try again" (processedOutcomes).
Settled == hook.live /\ hook.status = "active" /\ hook.action = "insert" /\ hook.dedup
RetriesGetThrough == <>[]Settled => \A e \in Events : <>(applied[e] > 0)
=============================================================================
