----------------------- MODULE WebhookDelivery_proofs -----------------------
(***************************************************************************)
(* An event is applied once, and skipped only when it was applied, for any *)
(* number of pods, deliveries, events, faults and changes of the webhook.  *)
(*                                                                         *)
(* The argument: a delivery that has checked the event id holds the lock   *)
(* of its event until its record is in the log, so of two deliveries of    *)
(* one event the later one finds either no write or its record.            *)
(***************************************************************************)
EXTENDS WebhookDelivery, FiniteSetTheorems, TLAPS

\* The part of the state the argument is about has its type.
Typed ==
    /\ hook \in Hook
    /\ log \subseteq [event : Events, outcome : Outcomes]
    /\ applied \in [Events -> 0..2]
    /\ holder \in [Events -> Calls \cup {Nobody}]
    /\ call \in [Calls -> CallState]
    /\ exposed \subseteq Events

\* What the fields of a delivery say about each other.
CallOK(k) ==
    /\ k.pc \in {"pool", "lock", "check", "write"} => k.action # "none"
    /\ (k.pc = "log" /\ k.outcome \in {"written", "duplicate_skipped"}) => k.action # "none"
    /\ (k.pc = "log" /\ k.outcome = "unmapped") => k.action = "none"
    /\ k.pc \in {"pool", "lock", "check"} => k.dedup
    /\ (k.pc = "log" /\ k.outcome \in {"written", "duplicate_skipped"}) => applied[k.event] > 0
    /\ (k.pc = "log" /\ k.outcome = "written" /\ ~k.dedup) => k.event \in exposed

\* A delivery whose write is committed and not recorded yet.
Pending(k) == k.pc = "log" /\ k.outcome = "written" /\ k.dedup

\* From the check of the event id to the record.
InSection(k) == (k.pc \in {"check", "write"} /\ k.dedup) \/ Pending(k)

CallsOK == \A c \in Calls : CallOK(call[c])

SectionLocked ==
    \A c \in Calls : (InSection(call[c]) /\ call[c].event \notin exposed) => holder[call[c].event] = c

WriteIsFirst ==
    \A c \in Calls : (call[c].pc = "write" /\ call[c].dedup /\ call[c].event \notin exposed)
        => applied[call[c].event] = 0

Recorded(e) == [event |-> e, outcome |-> "written"] \in log

WriteIsKnown ==
    \A e \in Events \ exposed :
        applied[e] > 0 => Recorded(e) \/ \E c \in Calls : call[c].event = e /\ Pending(call[c])

LogOK ==
    \A row \in log : /\ row.outcome # "unmapped"
                     /\ row.outcome \in {"written", "duplicate_skipped"} => applied[row.event] > 0

\* The inductive invariant.
IInv == Typed /\ CallsOK /\ SectionLocked /\ WriteIsFirst /\ WriteIsKnown /\ LogOK /\ AtMostOnce

-----------------------------------------------------------------------------
\* No delivery is in flight at first.
LEMMA InitIInv == Init => IInv
<1> SUFFICES ASSUME Init PROVE IInv
    OBVIOUS
<1>1. CallIdle \in CallState /\ CallIdle.pc = "idle"
    BY PodsAndEventsExist DEF CallIdle, CallState, Actions, Outcomes
<1>2. hook \in Hook
    BY DEF Init, Hook, Actions
<1>3. Typed
    BY <1>1, <1>2 DEF Init, Typed
<1>4. \A c \in Calls : call[c] = CallIdle
    BY DEF Init
<1> QED
    BY <1>1, <1>3, <1>4, SMTT(30)
    DEF Init, IInv, CallsOK, CallOK, SectionLocked, InSection, Pending, WriteIsFirst,
        WriteIsKnown, LogOK, AtMostOnce

\* A step that only moves one delivery, to m, leaves the invariant: it does
\* not enter the section, and forgets no write.
LEMMA MoveKeeps ==
    ASSUME IInv, NEW c \in Calls, NEW m \in CallState,
           call' = [call EXCEPT ![c] = m],
           hook' = hook, log' = log, applied' = applied, exposed' = exposed,
           holder' = holder,
           CallOK(m),
           Pending(call[c]) => Pending(m) /\ m.event = call[c].event,
           InSection(m) => InSection(call[c]) /\ m.event = call[c].event,
           (m.pc = "write" /\ m.dedup /\ m.event \notin exposed) => applied[m.event] = 0
    PROVE IInv'
<1>1. call'[c] = m /\ \A d \in Calls \ {c} : call'[d] = call[d]
    BY DEF IInv, Typed
<1>2. Typed'
    BY DEF IInv, Typed
<1>3. CallsOK'
    BY <1>1 DEF IInv, CallsOK, CallOK
<1>4. SectionLocked'
    BY <1>1 DEF IInv, SectionLocked, InSection, Pending
<1>5. WriteIsFirst'
    BY <1>1 DEF IInv, WriteIsFirst
<1>6. WriteIsKnown'
    BY <1>1 DEF IInv, WriteIsKnown, Recorded, Pending
<1>7. LogOK' /\ AtMostOnce'
    BY DEF IInv, LogOK, AtMostOnce
<1> QED
    BY <1>2, <1>3, <1>4, <1>5, <1>6, <1>7 DEF IInv

\* The steps of a delivery that change nothing but itself.
LEMMA QuietSteps ==
    ASSUME IInv, NEW c \in Calls,
           \/ \E p \in Pods, e \in Events : Receive(c, p, e)
           \/ HangUp(c) \/ Resolve(c) \/ TurnAway(c) \/ StoreCapturedSample(c)
           \/ GetEventMapping(c) \/ NoLockPool(c) \/ AcquireConn(c) \/ LockTimeout(c)
           \/ NoSingleRow(c) \/ StepFails(c)
    PROVE IInv'
<1> USE DEF IInv, Typed
<1>0. call[c] \in CallState /\ CallOK(call[c]) /\ hook \in Hook
    BY DEF CallsOK
<1>idle. CallIdle \in CallState /\ CallIdle.pc = "idle"
    BY PodsAndEventsExist DEF CallIdle, CallState, Actions, Outcomes
<1> DEFINE Keeps(m) == /\ m \in CallState /\ CallOK(m)
                       /\ Pending(call[c]) => Pending(m) /\ m.event = call[c].event
                       /\ InSection(m) => InSection(call[c]) /\ m.event = call[c].event
                       /\ ~(m.pc = "write" /\ m.dedup /\ m.event \notin exposed /\ applied[m.event] # 0)
<1>1. ASSUME NEW m, Keeps(m), call' = [call EXCEPT ![c] = m],
             UNCHANGED <<hook, log, applied, exposed, holder>>
      PROVE IInv'
    BY <1>1, MoveKeeps, applied \in [Events -> 0..2] DEF CallState
<1>2. ASSUME NEW p \in Pods, NEW e \in Events, Receive(c, p, e) PROVE IInv'
    <2> DEFINE m == [CallIdle EXCEPT !.pc = "resolve", !.pod = p, !.event = e]
    <2>1. Keeps(m)
        BY <1>2, <1>0, <1>idle DEF Receive, CallState, CallOK, InSection, Pending
    <2> QED
        BY <2>1, <1>1, <1>2 DEF Receive, hookVars, lockVars
<1>3. ASSUME HangUp(c) PROVE IInv'
    <2> DEFINE m == [call[c] EXCEPT !.gone = TRUE]
    <2>1. Keeps(m)
        BY <1>3, <1>0 DEF CallState, CallOK, InSection, Pending, WriteIsFirst
    <2> QED
        BY <2>1, <1>1, <1>3 DEF HangUp, hookVars, lockVars
<1>4. ASSUME Resolve(c) PROVE IInv'
    <2> DEFINE m == [call[c] EXCEPT !.pc = IF hook.status = "capture" THEN "capture" ELSE "map",
                                    !.dedup = hook.dedup]
    <2>1. Keeps(m)
        BY <1>4, <1>0 DEF Resolve, At, Hook, CallState, CallOK, InSection, Pending
    <2>2. call' = [call EXCEPT ![c] = m] /\ UNCHANGED <<hook, log, applied, exposed, holder>>
        BY <1>4, <1>0 DEF Resolve, hookVars, lockVars, CallState
    <2> HIDE DEF m
    <2> QED
        BY <2>1, <2>2, <1>1
<1>5. ASSUME TurnAway(c) PROVE IInv'
    <2>1. Keeps(CallIdle)
        BY <1>5, <1>0, <1>idle DEF TurnAway, CallOK, InSection, Pending
    <2> QED
        BY <2>1, <1>1, <1>5 DEF TurnAway, hookVars, lockVars
<1>6. ASSUME NEW o \in {"captured", "error", "row_not_found"}, ~Pending(call[c]), Conclude(c, o),
             UNCHANGED <<hook, log, applied, exposed, holder>>
      PROVE IInv'
    <2> DEFINE m == [call[c] EXCEPT !.pc = "log", !.outcome = o]
    <2>1. Keeps(m)
        BY <1>6, <1>0 DEF CallState, Outcomes, CallOK, InSection, Pending
    <2> QED
        BY <2>1, <1>1, <1>6 DEF Conclude
<1>7. ASSUME StoreCapturedSample(c) \/ NoLockPool(c) \/ NoSingleRow(c) \/ StepFails(c) PROVE IInv'
    <2>1. ~Pending(call[c]) /\ UNCHANGED <<hook, log, applied, exposed, holder>>
        BY <1>7 DEF StoreCapturedSample, NoLockPool, NoSingleRow, StepFails, At, Pending,
                    hookVars, lockVars
    <2>2. \E o \in {"captured", "error", "row_not_found"} : Conclude(c, o)
        BY <1>7 DEF StoreCapturedSample, NoLockPool, NoSingleRow, StepFails
    <2> QED
        BY <2>1, <2>2, <1>6
<1>8. ASSUME GetEventMapping(c) PROVE IInv'
    <2> DEFINE m == [call[c] EXCEPT
                       !.action = hook.action,
                       !.outcome = IF hook.action = "none" THEN "unmapped" ELSE "none",
                       !.pc = IF hook.action = "none" THEN "log"
                              ELSE IF call[c].dedup THEN "pool" ELSE "write"]
    <2>1. Keeps(m)
        BY <1>8, <1>0 DEF GetEventMapping, At, Hook, CallState, Actions, Outcomes,
                          CallOK, InSection, Pending
    <2>2. call' = [call EXCEPT ![c] = m] /\ UNCHANGED <<hook, log, applied, exposed, holder>>
        BY <1>8, <1>0 DEF GetEventMapping, hookVars, lockVars, CallState
    <2> HIDE DEF m
    <2> QED
        BY <2>1, <2>2, <1>1
<1>9. ASSUME AcquireConn(c) PROVE IInv'
    <2> DEFINE m == [call[c] EXCEPT !.pc = "lock", !.conn = TRUE]
    <2>1. Keeps(m)
        BY <1>9, <1>0 DEF AcquireConn, At, CallState, CallOK, InSection, Pending
    <2> QED
        BY <2>1, <1>1, <1>9 DEF AcquireConn, hookVars
<1>10. ASSUME LockTimeout(c) PROVE IInv'
    <2> DEFINE m == [call[c] EXCEPT !.pc = "log", !.outcome = "error", !.conn = FALSE]
    <2>1. Keeps(m)
        BY <1>10, <1>0 DEF LockTimeout, GiveUpLock, CallState, Outcomes, CallOK, InSection, Pending
    <2> QED
        BY <2>1, <1>1, <1>10 DEF LockTimeout, GiveUpLock, hookVars
<1> QED
    BY <1>2, <1>3, <1>4, <1>5, <1>7, <1>8, <1>9, <1>10

\* The lock is granted to one delivery of an event.
LEMMA LockStep == ASSUME IInv, NEW c \in Calls, LockEventID(c) PROVE IInv'
<1> USE DEF IInv, Typed
<1> DEFINE e == call[c].event
           m == [call[c] EXCEPT !.pc = "check"]
<1>0. /\ call[c] \in CallState /\ CallOK(call[c]) /\ call[c].pc = "lock" /\ e \in Events
      /\ holder[e] = Nobody /\ holder' = [holder EXCEPT ![e] = c]
      /\ UNCHANGED <<hook, log, applied, exposed>>
    BY DEF LockEventID, At, CallsOK, CallState, hookVars
<1>1. call' = [call EXCEPT ![c] = m]
    BY DEF LockEventID, Goto
<1>2. m \in CallState /\ m.event = e /\ m.pc = "check" /\ m.action = call[c].action /\ m.dedup = call[c].dedup
    BY <1>0 DEF CallState
<1>3. call'[c] = m /\ \A d \in Calls \ {c} : call'[d] = call[d]
    BY <1>1
<1> HIDE DEF m, e
<1>4. Typed'
    BY <1>0, <1>1, <1>2
<1>5. CallsOK'
    BY <1>0, <1>2, <1>3 DEF CallsOK, CallOK
<1>6. SectionLocked'
    BY <1>0, <1>2, <1>3, NobodyIsNoCall DEF SectionLocked, InSection, Pending
<1>7. WriteIsFirst' /\ LogOK' /\ AtMostOnce'
    BY <1>0, <1>2, <1>3 DEF WriteIsFirst, LogOK, AtMostOnce
<1>8. WriteIsKnown'
    BY <1>0, <1>2, <1>3 DEF WriteIsKnown, Recorded, Pending
<1> QED
    BY <1>4, <1>5, <1>6, <1>7, <1>8

\* A delivery that holds the lock and finds no record is the first to write.
LEMMA CheckStep == ASSUME IInv, NEW c \in Calls, CheckEventID(c) PROVE IInv'
<1> USE DEF IInv, Typed
<1>0. /\ call[c] \in CallState /\ CallOK(call[c]) /\ call[c].pc = "check" /\ call[c].dedup
      /\ UNCHANGED <<hook, log, applied, exposed, holder>>
    BY DEF CheckEventID, At, CallsOK, CallOK, hookVars, lockVars
<1>1. CASE HasProcessedEventID(call[c].event)
    <2> DEFINE m == [call[c] EXCEPT !.pc = "log", !.outcome = "duplicate_skipped"]
    <2>1. applied[call[c].event] > 0
        BY <1>1 DEF HasProcessedEventID, Seen, LogOK
    <2>2. call' = [call EXCEPT ![c] = m]
        BY <1>1 DEF CheckEventID, Conclude
    <2>3. m \in CallState /\ CallOK(m) /\ ~InSection(m) /\ m.pc = "log"
        BY <1>0, <2>1 DEF CallState, Outcomes, CallOK, InSection, Pending
    <2>4. ~Pending(call[c])
        BY <1>0 DEF Pending
    <2> HIDE DEF m
    <2> QED
        BY <1>0, <2>2, <2>3, <2>4, MoveKeeps
<1>2. CASE ~HasProcessedEventID(call[c].event)
    <2> DEFINE m == [call[c] EXCEPT !.pc = "write"]
               e == call[c].event
    <2>1. call' = [call EXCEPT ![c] = m]
        BY <1>2 DEF CheckEventID, Goto
    <2>2. ASSUME e \notin exposed PROVE applied[e] = 0
        <3>1. holder[e] = c
            BY <1>0, <2>2 DEF SectionLocked, InSection
        <3>2. ~Recorded(e)
            BY <1>2 DEF HasProcessedEventID, Seen, Recorded
        <3>3. \A d \in Calls : call[d].event = e /\ Pending(call[d]) => d = c
            BY <2>2, <3>1 DEF SectionLocked, InSection
        <3>4. ~Pending(call[c])
            BY <1>0 DEF Pending
        <3>5. e \in Events /\ applied[e] \in 0..2
            BY <1>0 DEF CallState
        <3> QED
            BY <2>2, <3>2, <3>3, <3>4, <3>5 DEF WriteIsKnown
    <2>3. /\ m \in CallState /\ CallOK(m) /\ m.event = e
          /\ InSection(call[c]) /\ ~Pending(call[c])
        BY <1>0 DEF CallState, CallOK, InSection, Pending
    <2> HIDE DEF m
    <2> QED
        BY <1>0, <2>1, <2>2, <2>3, MoveKeeps
<1> QED
    BY <1>1, <1>2

\* A write is the first of its event, or the event is exposed.
LEMMA WriteStep == ASSUME IInv, NEW c \in Calls, Write(c) \/ CommitInDoubt(c) PROVE IInv'
<1> USE DEF IInv, Typed
<1> DEFINE e == call[c].event
<1>0. /\ call[c] \in CallState /\ CallOK(call[c]) /\ call[c].pc = "write" /\ e \in Events
      /\ applied' = [applied EXCEPT ![e] = Capped(@)]
      /\ UNCHANGED <<hook, log, holder>>
    BY DEF Write, CommitWrite, CommitInDoubt, At, CallsOK, CallState, hookVars, lockVars
<1>1. PICK o \in {"written", "error"} :
          /\ Conclude(c, o)
          /\ (o = "error" \/ ~call[c].dedup) => exposed' = exposed \cup {e}
          /\ (o = "written" /\ call[c].dedup) => exposed' = exposed
    BY DEF Write, CommitWrite, CommitInDoubt
<1> DEFINE m == [call[c] EXCEPT !.pc = "log", !.outcome = o]
<1>2. call'[c] = m /\ \A d \in Calls \ {c} : call'[d] = call[d]
    BY <1>1 DEF Conclude
<1>3. /\ m \in CallState /\ m.event = e /\ m.pc = "log" /\ m.outcome = o
      /\ m.dedup = call[c].dedup /\ m.action = call[c].action /\ m.action # "none"
    BY <1>0, <1>1 DEF CallState, Outcomes, CallOK
<1>4. call' = [call EXCEPT ![c] = m]
    BY <1>1 DEF Conclude
<1> HIDE DEF m, e
<1>5. applied'[e] > 0 /\ applied'[e] <= 2 /\ \A f \in Events \ {e} : applied'[f] = applied[f]
    BY <1>0 DEF Capped
<1>6. \A f \in Events : applied[f] > 0 => applied'[f] > 0
    BY <1>5
<1>7. exposed \subseteq exposed' /\ exposed' \subseteq exposed \cup {e}
    BY <1>1
<1>8. Typed'
    BY <1>0, <1>1, <1>3, <1>4, <1>5, <1>7 DEF Capped
<1>9. CallsOK'
    <2>1. CallOK(call[c])'
        BY <1>1, <1>2, <1>3, <1>5 DEF CallOK
    <2>2. \A d \in Calls \ {c} : CallOK(call[d])'
        BY <1>2, <1>6, <1>7 DEF CallsOK, CallOK, CallState
    <2> QED
        BY <1>2, <2>1, <2>2 DEF CallsOK, CallOK
<1>10. e \notin exposed' => /\ call[c].dedup /\ holder[e] = c /\ applied[e] = 0 /\ o = "written"
                           /\ e \notin exposed
    BY <1>0, <1>1, <1>7 DEF SectionLocked, InSection, WriteIsFirst, e
<1>11. SectionLocked'
    BY <1>0, <1>2, <1>3, <1>7, <1>10 DEF SectionLocked, InSection, Pending
<1>12. WriteIsFirst'
    <2> SUFFICES ASSUME NEW d \in Calls, call'[d].pc = "write", call'[d].dedup,
                        call'[d].event \notin exposed'
                 PROVE applied'[call'[d].event] = 0
        BY DEF WriteIsFirst
    <2>1. d # c /\ call'[d] = call[d]
        BY <1>2, <1>3
    <2>2. holder[call[d].event] = d /\ applied[call[d].event] = 0 /\ call[d].event \in Events
        BY <2>1, <1>7 DEF SectionLocked, InSection, WriteIsFirst, CallState
    <2> QED
        BY <2>1, <2>2, <1>5, <1>10
<1>13. WriteIsKnown'
    <2> SUFFICES ASSUME NEW f \in Events \ exposed', applied'[f] > 0
                 PROVE Recorded(f)' \/ \E d \in Calls : call'[d].event = f /\ Pending(call'[d])
        BY DEF WriteIsKnown
    <2>1. CASE f = e
        BY <2>1, <1>2, <1>3, <1>10 DEF Pending
    <2>2. CASE f # e
        BY <2>2, <1>0, <1>2, <1>5, <1>7 DEF WriteIsKnown, Recorded, Pending, e
    <2> QED
        BY <2>1, <2>2
<1>14. LogOK'
    BY <1>0, <1>6 DEF LogOK
<1>15. AtMostOnce'
    BY <1>0, <1>5, <1>7, <1>10 DEF AtMostOnce, Capped
<1> QED
    BY <1>8, <1>9, <1>11, <1>12, <1>13, <1>14, <1>15

\* The record takes the place of the lock.
LEMMA LogStep == ASSUME IInv, NEW c \in Calls, LogDelivery(c) \/ LogLost(c) PROVE IInv'
<1> USE DEF IInv, Typed
<1> DEFINE k == call[c]
           m == [k EXCEPT !.pc = "reply", !.dedup = FALSE, !.action = "none", !.outcome = "none"]
<1>0. /\ k \in CallState /\ CallOK(k) /\ k.pc = "log"
      /\ UNCHANGED <<hook, applied, holder>>
    BY DEF LogDelivery, LogLost, At, CallsOK, CallState, hookVars, lockVars
<1>1. call' = [call EXCEPT ![c] = m]
    BY DEF LogDelivery, LogLost, Return
<1>2. m \in CallState /\ m.pc = "reply" /\ m.event = k.event /\ k.event \in Events
    BY <1>0 DEF CallState, Actions, Outcomes
<1>3. call'[c] = m /\ \A d \in Calls \ {c} : call'[d] = call[d]
    BY <1>1
<1>4. \/ /\ log' = log
         /\ k.outcome = "written" => k.event \in exposed'
         /\ exposed \subseteq exposed' /\ exposed' \subseteq exposed \cup {k.event}
      \/ /\ log' = IF k.dedup /\ k.action # "none" THEN log \cup {Logged(c)} ELSE log
         /\ exposed' = exposed
    BY DEF LogDelivery, LogLost, hookVars
<1> HIDE DEF m
<1>5. /\ exposed \subseteq exposed' /\ exposed' \subseteq exposed \cup {k.event}
      /\ log \subseteq log' /\ log' \subseteq log \cup {Logged(c)}
    BY <1>4
<1>6. Logged(c) \in [event : Events, outcome : Outcomes]
    BY <1>0 DEF Logged, CallState
<1>7. Typed'
    BY <1>0, <1>1, <1>2, <1>5, <1>6
<1>8. CallsOK'
    BY <1>0, <1>2, <1>3, <1>5 DEF CallsOK, CallOK
<1>9. SectionLocked' /\ WriteIsFirst'
    BY <1>0, <1>2, <1>3, <1>5 DEF SectionLocked, WriteIsFirst, InSection, Pending
<1>10. WriteIsKnown'
    <2> SUFFICES ASSUME NEW f \in Events \ exposed', applied[f] > 0
                 PROVE Recorded(f)' \/ \E d \in Calls : call'[d].event = f /\ Pending(call'[d])
        BY <1>0 DEF WriteIsKnown
    <2>1. CASE f = k.event /\ Pending(k)
        <3>1. Recorded(f)'
            BY <1>0, <1>4, <2>1 DEF Recorded, Pending, CallOK, Logged
        <3> QED
            BY <3>1
    <2>2. CASE ~(f = k.event /\ Pending(k))
        BY <1>3, <1>5, <2>2 DEF WriteIsKnown, Recorded
    <2> QED
        BY <2>1, <2>2
<1>11. LogOK'
    BY <1>0, <1>4, <1>5 DEF LogOK, Logged, CallOK
<1>12. AtMostOnce'
    BY <1>0, <1>5 DEF AtMostOnce
<1> QED
    BY <1>7, <1>8, <1>9, <1>10, <1>11, <1>12

\* The lock goes with a delivery outside the section.
LEMMA UnlockStep ==
    ASSUME IInv, NEW c \in Calls, Reply(c) \/ LockSessionLost(c) PROVE IInv'
<1> USE DEF IInv, Typed
<1>idle. CallIdle \in CallState /\ CallIdle.pc = "idle"
    BY PodsAndEventsExist DEF CallIdle, CallState, Actions, Outcomes
<1>1. \A d \in Calls : /\ call[d] \in CallState /\ CallOK(call[d])
                       /\ holder[call[d].event] = d => d \in Calls
    BY DEF CallsOK
<1>2. /\ holder' = Released(c) /\ UNCHANGED <<hook, log, applied>>
      /\ exposed \subseteq exposed' /\ exposed' \subseteq exposed \cup {call[c].event}
    BY DEF Reply, LockSessionLost, hookVars
<1>3. holder' \in [Events -> Calls \cup {Nobody}]
    BY <1>2 DEF Released
<1>4. /\ call' \in [Calls -> CallState]
      /\ \A d \in Calls : call'[d] = call[d] \/ (call'[d] = CallIdle /\ d = c /\ call[c].pc = "reply")
    BY <1>idle DEF Reply, LockSessionLost
<1>5. Typed'
    BY <1>1, <1>2, <1>3, <1>4 DEF CallState
<1>6. CallsOK'
    BY <1>1, <1>2, <1>4, <1>idle DEF CallsOK, CallOK
<1>7. SectionLocked'
    <2> SUFFICES ASSUME NEW d \in Calls, InSection(call'[d]), call'[d].event \notin exposed'
                 PROVE holder'[call'[d].event] = d
        BY DEF SectionLocked
    <2>1. call'[d] = call[d] /\ holder[call[d].event] = d /\ call[d].event \in Events
        BY <1>1, <1>2, <1>4, <1>idle DEF SectionLocked, InSection, Pending, CallState
    <2>2. d # c
        BY <2>1 DEF Reply, LockSessionLost, InSection, Pending
    <2> QED
        BY <2>1, <2>2, <1>2 DEF Released
<1>8. WriteIsFirst' /\ LogOK' /\ AtMostOnce'
    BY <1>2, <1>4, <1>idle DEF WriteIsFirst, LogOK, AtMostOnce
<1>9. WriteIsKnown'
    BY <1>2, <1>4 DEF WriteIsKnown, Recorded, Pending
<1> QED
    BY <1>5, <1>6, <1>7, <1>8, <1>9

\* A crash takes deliveries and locks together.
LEMMA CrashStep == ASSUME IInv, NEW p \in Pods, Crash(p) PROVE IInv'
<1> USE DEF IInv, Typed
<1>idle. CallIdle \in CallState /\ CallIdle.pc = "idle"
    BY PodsAndEventsExist DEF CallIdle, CallState, Actions, Outcomes
<1> DEFINE dead == {c \in Calls : call[c].pc # "idle" /\ call[c].pod = p}
<1>1. /\ call' = [c \in Calls |-> IF c \in dead THEN CallIdle ELSE call[c]]
      /\ holder' = [e \in Events |-> IF holder[e] \in dead THEN Nobody ELSE holder[e]]
      /\ UNCHANGED <<hook, log, applied>>
      /\ exposed \subseteq exposed'
      /\ \A c \in dead : Pending(call[c]) => call[c].event \in exposed'
      /\ exposed' \subseteq exposed \cup {call[c].event : c \in dead}
    BY DEF Crash, hookVars, Pending
<1>2. \A c \in Calls : call[c] \in CallState /\ call[c].event \in Events
    BY DEF CallState
<1>3. Typed'
    BY <1>1, <1>2, <1>idle
<1>4. CallsOK'
    BY <1>1, <1>idle DEF CallsOK, CallOK
<1>5. SectionLocked'
    BY <1>1, <1>2, <1>idle DEF SectionLocked, InSection, Pending
<1>6. WriteIsFirst' /\ LogOK' /\ AtMostOnce'
    BY <1>1, <1>idle DEF WriteIsFirst, LogOK, AtMostOnce
<1>7. WriteIsKnown'
    BY <1>1 DEF WriteIsKnown, Recorded
<1> QED
    BY <1>3, <1>4, <1>5, <1>6, <1>7

\* The dashboard and the lock pool leave deliveries alone.
LEMMA OtherSteps ==
    ASSUME IInv, Dashboard \/ (\E c \in Calls : OpenLockPool(c)) \/ UNCHANGED vars PROVE IInv'
<1> USE DEF IInv, Typed
<1>1. CASE Dashboard /\ ~\E e \in Events : PurgeExpiredDeliveries(e)
    <2>1. hook' \in Hook /\ UNCHANGED <<log, applied, holder, call, exposed>>
        BY <1>1 DEF Dashboard, SaveEventMapping, DeleteEventMapping, ActivateWebhook, UpdateWebhook,
                    SoftDeleteWebhook, ChangeHook, Hook, Actions, lockVars
    <2> QED
        BY <2>1 DEF CallsOK, CallOK, SectionLocked, WriteIsFirst, WriteIsKnown, Recorded, LogOK, AtMostOnce
<1>2. CASE (\E c \in Calls : OpenLockPool(c)) \/ UNCHANGED vars
    <2>1. UNCHANGED <<hook, log, applied, holder, call, exposed>>
        BY <1>2 DEF OpenLockPool, vars, hookVars, lockVars
    <2> QED
        BY <2>1 DEF CallsOK, CallOK, SectionLocked, WriteIsFirst, WriteIsKnown, Recorded, LogOK, AtMostOnce
<1>3. ASSUME NEW e \in Events, PurgeExpiredDeliveries(e) PROVE IInv'
    <2>1. /\ log' = {row \in log : row.event # e} /\ exposed' = exposed \cup {e}
          /\ UNCHANGED <<hook, applied, holder, call>>
        BY <1>3 DEF PurgeExpiredDeliveries, lockVars
    <2> QED
        BY <2>1 DEF CallsOK, CallOK, SectionLocked, WriteIsFirst, WriteIsKnown, Recorded, LogOK, AtMostOnce
<1> QED
    BY <1>1, <1>2, <1>3

-----------------------------------------------------------------------------
\* The invariant of the deliveries, from the steps above.
THEOREM Invariant == Spec => []IInv
<1>1. IInv /\ [Next]_vars => IInv'
    <2> SUFFICES ASSUME IInv, [Next]_vars PROVE IInv'
        OBVIOUS
    <2>1. CASE Dashboard \/ UNCHANGED vars
        BY <2>1, OtherSteps
    <2>2. ASSUME NEW c \in Calls,
                 \/ \E p \in Pods, e \in Events : Receive(c, p, e)
                 \/ Proceed(c) \/ HangUp(c) \/ LockSessionLost(c)
          PROVE IInv'
        BY <2>2, QuietSteps, LockStep, CheckStep, WriteStep, LogStep, UnlockStep, OtherSteps DEF Proceed
    <2>3. ASSUME NEW p \in Pods, Crash(p) PROVE IInv'
        BY <2>3, CrashStep
    <2> QED
        BY <2>1, <2>2, <2>3 DEF Next
<1> QED
    BY <1>1, InitIInv, PTL DEF Spec

\* Repeated, concurrent and retried deliveries apply an event once, unless its
\* dedup was off or its record or lock was lost (handleActiveDelivery).
THEOREM AppliedAtMostOnce == Spec => []AtMostOnce
<1>1. IInv => AtMostOnce
    BY DEF IInv
<1> QED
    BY <1>1, Invariant, PTL

\* A delivery is only skipped as a duplicate of one that was applied
\* (HasProcessedEventID).
THEOREM SkipsOnlyApplied == Spec => []SkippedWasApplied
<1>1. IInv => SkippedWasApplied
    BY DEF IInv, LogOK, SkippedWasApplied
<1> QED
    BY <1>1, Invariant, PTL

-----------------------------------------------------------------------------
(* The connections of the lock pools: of every pool, the free ones and     *)
(* those that a delivery of its pod holds are PoolSize together, whichever *)
(* way deliveries end.                                                     *)

Holding(p) == {c \in Calls : call[c].conn /\ call[c].pod = p}

\* A delivery gets its connection after everything before the lock, and waits for the lock with it.
ConnOK(k) ==
    /\ k.pc \in {"idle", "resolve", "capture", "map", "pool"} => ~k.conn
    /\ k.pc = "lock" => k.conn

\* The bounds, and the pools but for their connections.
PoolTyped ==
    /\ lockPool \in [Pods -> {"unopened", "open", "failed"}]
    /\ changes \in 0..MaxChanges
    /\ faults \in 0..MaxFaults

PoolCounted(p) == IsFiniteSet(Holding(p)) /\ conns[p] + Cardinality(Holding(p)) = PoolSize

PoolInv ==
    /\ PoolTyped
    /\ conns \in [Pods -> Nat]
    /\ \A c \in Calls : ConnOK(call[c])
    /\ \A p \in Pods : PoolCounted(p)

\* Every connection is free at first.
LEMMA InitPoolInv == Init => PoolInv
<1> SUFFICES ASSUME Init PROVE PoolInv
    OBVIOUS
<1>1. \A c \in Calls : call[c] = CallIdle
    BY DEF Init
<1>0. CallIdle.pc = "idle" /\ CallIdle.conn = FALSE
    BY PodsAndEventsExist DEF CallIdle
<1>2. \A p \in Pods : Holding(p) = {}
    BY <1>0, <1>1 DEF Holding
<1>3. \A c \in Calls : ConnOK(call[c])
    BY <1>0, <1>1 DEF ConnOK
<1>4. PoolTyped /\ conns \in [Pods -> Nat]
    BY LimitsAreNat DEF Init, PoolTyped
<1>5. \A p \in Pods : conns[p] = PoolSize /\ PoolSize \in Nat
    BY LimitsAreNat DEF Init
<1>6. ASSUME NEW p \in Pods PROVE PoolCounted(p)
    BY <1>2, <1>5, FS_EmptySet DEF PoolCounted
<1> QED
    BY <1>3, <1>4, <1>6 DEF PoolInv

\* A fault is one of those that may still happen.
LEMMA FaultsAreBounded ==
    ASSUME PoolInv, NEW c \in Calls, Fails(c) \/ Fault \/ UNCHANGED faults
    PROVE  faults' \in 0..MaxFaults
BY LimitsAreNat DEF PoolInv, PoolTyped, Fails, Fault

\* A delivery that goes on with the connection it has, if any, leaves the pools as they are.
LEMMA MoveKeepsConns ==
    ASSUME IInv, PoolInv, PoolTyped', UNCHANGED conns,
           NEW c \in Calls, NEW m \in CallState, call' = [call EXCEPT ![c] = m],
           ConnOK(m), m.conn = call[c].conn, m.conn => m.pod = call[c].pod
    PROVE  PoolInv'
<1>1. call'[c] = m /\ \A d \in Calls \ {c} : call'[d] = call[d]
    BY DEF IInv, Typed
<1>2. ASSUME NEW p \in Pods PROVE Holding(p)' = Holding(p)
    BY <1>1 DEF Holding
<1>3. \A d \in Calls : ConnOK(call[d])'
    BY <1>1 DEF PoolInv, ConnOK
<1>4. ASSUME NEW p \in Pods PROVE PoolCounted(p)'
    BY <1>2 DEF PoolInv, PoolCounted
<1> QED
    BY <1>3, <1>4 DEF PoolInv

\* The steps of a delivery that neither get a connection nor give one back.
LEMMA ConnQuietSteps ==
    ASSUME IInv, PoolInv, NEW c \in Calls,
           \/ \E p \in Pods, e \in Events : Receive(c, p, e)
           \/ HangUp(c) \/ Resolve(c) \/ TurnAway(c) \/ StoreCapturedSample(c)
           \/ GetEventMapping(c) \/ NoLockPool(c) \/ LockEventID(c) \/ CheckEventID(c)
           \/ Write(c) \/ CommitInDoubt(c) \/ NoSingleRow(c) \/ StepFails(c)
           \/ LogDelivery(c) \/ LogLost(c)
    PROVE  PoolInv'
<1>0. /\ call[c] \in CallState /\ hook \in Hook /\ ConnOK(call[c])
      /\ CallIdle \in CallState /\ CallIdle.pc = "idle" /\ CallIdle.conn = FALSE
    BY PodsAndEventsExist DEF IInv, Typed, PoolInv, CallIdle, CallState, Actions, Outcomes
<1>1. UNCHANGED <<conns, lockPool, changes>> /\ (Fails(c) \/ Fault \/ UNCHANGED faults)
    BY DEF Receive, HangUp, Resolve, TurnAway, StoreCapturedSample, GetEventMapping, NoLockPool, LockEventID,
           CheckEventID, Write, CommitWrite, CommitInDoubt, NoSingleRow, StepFails, LogDelivery, LogLost,
           hookVars, lockVars
<1>2. PoolTyped' /\ UNCHANGED conns
    BY <1>1, FaultsAreBounded DEF PoolInv, PoolTyped
<1>3. ASSUME NEW m \in CallState, call' = [call EXCEPT ![c] = m],
             ConnOK(m), m.conn = call[c].conn, m.conn => m.pod = call[c].pod
      PROVE  PoolInv'
    BY <1>2, <1>3, MoveKeepsConns
<1>4. ASSUME NEW p \in Pods, NEW e \in Events, Receive(c, p, e) PROVE PoolInv'
    <2> DEFINE m == [CallIdle EXCEPT !.pc = "resolve", !.pod = p, !.event = e]
    <2>1. m \in CallState /\ ConnOK(m) /\ m.conn = FALSE
        BY <1>0 DEF CallState, ConnOK
    <2>2. call' = [call EXCEPT ![c] = m] /\ ~call[c].conn
        BY <1>0, <1>4 DEF Receive, ConnOK
    <2>3. call[c].conn = FALSE
        BY <1>0, <2>2 DEF CallState
    <2> HIDE DEF m
    <2> QED
        BY <1>3, <2>1, <2>2, <2>3
<1>5. ASSUME HangUp(c) PROVE PoolInv'
    <2> DEFINE m == [call[c] EXCEPT !.gone = TRUE]
    <2>1. m \in CallState /\ ConnOK(m) /\ m.conn = call[c].conn /\ m.pod = call[c].pod
        BY <1>0 DEF CallState, ConnOK
    <2>2. call' = [call EXCEPT ![c] = m]
        BY <1>5 DEF HangUp
    <2> HIDE DEF m
    <2> QED
        BY <1>3, <2>1, <2>2
<1>6. ASSUME Resolve(c) PROVE PoolInv'
    <2> DEFINE m == [call[c] EXCEPT !.pc = IF hook.status = "capture" THEN "capture" ELSE "map",
                                    !.dedup = hook.dedup]
    <2>1. m \in CallState /\ ConnOK(m) /\ m.conn = call[c].conn /\ m.pod = call[c].pod
        BY <1>0, <1>6 DEF CallState, ConnOK, Hook, Resolve, At
    <2>2. call' = [call EXCEPT ![c] = m]
        BY <1>0, <1>6 DEF Resolve, CallState
    <2> HIDE DEF m
    <2> QED
        BY <1>3, <2>1, <2>2
<1>7. ASSUME TurnAway(c) PROVE PoolInv'
    <2>1. call' = [call EXCEPT ![c] = CallIdle] /\ ~call[c].conn
        BY <1>0, <1>7 DEF TurnAway, ConnOK
    <2>2. call[c].conn = FALSE /\ ConnOK(CallIdle)
        BY <1>0, <2>1 DEF CallState, ConnOK
    <2> QED
        BY <1>0, <1>3, <2>1, <2>2
<1>8. ASSUME GetEventMapping(c) PROVE PoolInv'
    <2> DEFINE m == [call[c] EXCEPT
                       !.action = hook.action,
                       !.outcome = IF hook.action = "none" THEN "unmapped" ELSE "none",
                       !.pc = IF hook.action = "none" THEN "log"
                              ELSE IF call[c].dedup THEN "pool" ELSE "write"]
    <2>1. m \in CallState /\ ConnOK(m) /\ m.conn = call[c].conn /\ m.pod = call[c].pod
        BY <1>0, <1>8 DEF GetEventMapping, At, Hook, CallState, Actions, Outcomes, ConnOK
    <2>2. call' = [call EXCEPT ![c] = m]
        BY <1>0, <1>8 DEF GetEventMapping, CallState
    <2> HIDE DEF m
    <2> QED
        BY <1>3, <2>1, <2>2
<1>9. ASSUME NEW o \in Outcomes, Conclude(c, o) PROVE PoolInv'
    <2> DEFINE m == [call[c] EXCEPT !.pc = "log", !.outcome = o]
    <2>1. m \in CallState /\ ConnOK(m) /\ m.conn = call[c].conn /\ m.pod = call[c].pod
        BY <1>0 DEF CallState, ConnOK
    <2>2. call' = [call EXCEPT ![c] = m]
        BY <1>9 DEF Conclude
    <2> HIDE DEF m
    <2> QED
        BY <1>3, <2>1, <2>2
<1>10. ASSUME NEW pc \in {"check", "write"}, Goto(c, pc) PROVE PoolInv'
    <2> DEFINE m == [call[c] EXCEPT !.pc = pc]
    <2>1. m \in CallState /\ ConnOK(m) /\ m.conn = call[c].conn /\ m.pod = call[c].pod
        BY <1>0 DEF CallState, ConnOK
    <2>2. call' = [call EXCEPT ![c] = m]
        BY <1>10 DEF Goto
    <2> HIDE DEF m
    <2> QED
        BY <1>3, <2>1, <2>2
<1>11. ASSUME Return(c) PROVE PoolInv'
    <2> DEFINE m == [call[c] EXCEPT !.pc = "reply", !.dedup = FALSE, !.action = "none", !.outcome = "none"]
    <2>1. m \in CallState /\ ConnOK(m) /\ m.conn = call[c].conn /\ m.pod = call[c].pod
        BY <1>0 DEF CallState, ConnOK, Actions, Outcomes
    <2>2. call' = [call EXCEPT ![c] = m]
        BY <1>11 DEF Return
    <2> HIDE DEF m
    <2> QED
        BY <1>3, <2>1, <2>2
<1>12. ASSUME \/ StoreCapturedSample(c) \/ NoLockPool(c) \/ Write(c) \/ CommitInDoubt(c)
              \/ NoSingleRow(c) \/ StepFails(c)
       PROVE  PoolInv'
    <2>1. \E o \in Outcomes : Conclude(c, o)
        BY <1>12 DEF StoreCapturedSample, NoLockPool, Write, CommitWrite, CommitInDoubt, NoSingleRow,
                     StepFails, Outcomes
    <2> QED
        BY <1>9, <2>1
<1>13. ASSUME CheckEventID(c) PROVE PoolInv'
    <2>1. Conclude(c, "duplicate_skipped") \/ Goto(c, "write")
        BY <1>13 DEF CheckEventID
    <2> QED
        BY <1>9, <1>10, <2>1 DEF Outcomes
<1>14. ASSUME LockEventID(c) PROVE PoolInv'
    BY <1>10, <1>14 DEF LockEventID
<1>15. ASSUME LogDelivery(c) \/ LogLost(c) PROVE PoolInv'
    BY <1>11, <1>15 DEF LogDelivery, LogLost
<1> QED
    BY <1>4, <1>5, <1>6, <1>7, <1>8, <1>12, <1>13, <1>14, <1>15

\* A delivery takes a free connection of the pool of its pod.
LEMMA AcquireKeepsConns == ASSUME IInv, PoolInv, NEW c \in Calls, AcquireConn(c) PROVE PoolInv'
<1>0. PICK p \in Pods : p = call[c].pod
    BY DEF IInv, Typed, CallState
<1> DEFINE m == [call[c] EXCEPT !.pc = "lock", !.conn = TRUE]
<1>1. /\ call \in [Calls -> CallState] /\ call[c] \in CallState /\ p \in Pods /\ ~call[c].conn /\ conns[p] > 0
      /\ conns' = [conns EXCEPT ![p] = @ - 1] /\ UNCHANGED <<lockPool, changes, faults>>
    BY <1>0 DEF AcquireConn, At, IInv, Typed, PoolInv, ConnOK, CallState, hookVars
<1>2. call' = [call EXCEPT ![c] = m] /\ ConnOK(m) /\ m.conn /\ m.pod = p
    BY <1>0, <1>1 DEF AcquireConn, CallState, ConnOK
<1> HIDE DEF m
<1>3. call'[c] = m /\ \A d \in Calls \ {c} : call'[d] = call[d]
    BY <1>1, <1>2
<1>4. /\ conns' \in [Pods -> Nat] /\ conns'[p] = conns[p] - 1
      /\ \A q \in Pods \ {p} : conns'[q] = conns[q]
    BY <1>1 DEF PoolInv
<1>5. PoolCounted(p)'
    <2>1. Holding(p)' = Holding(p) \cup {c} /\ c \notin Holding(p)
        BY <1>0, <1>1, <1>2, <1>3 DEF Holding
    <2>2. IsFiniteSet(Holding(p)) /\ conns[p] + Cardinality(Holding(p)) = PoolSize
        BY <1>1 DEF PoolInv, PoolCounted
    <2>3. IsFiniteSet(Holding(p)') /\ Cardinality(Holding(p)') = Cardinality(Holding(p)) + 1
        BY <2>1, <2>2, FS_AddElement
    <2>4. Cardinality(Holding(p)) \in Nat /\ conns[p] \in Nat
        BY <1>1, <2>2, FS_CardinalityType DEF PoolInv
    <2> QED
        BY <1>4, <2>2, <2>3, <2>4 DEF PoolCounted
<1>6. ASSUME NEW q \in Pods, q # p PROVE PoolCounted(q)'
    <2>1. Holding(q)' = Holding(q)
        BY <1>0, <1>1, <1>2, <1>3, <1>6 DEF Holding
    <2> QED
        BY <1>4, <1>6, <2>1 DEF PoolInv, PoolCounted
<1>7. \A d \in Calls : ConnOK(call[d])'
    BY <1>2, <1>3 DEF PoolInv, ConnOK
<1>8. PoolTyped'
    BY <1>1 DEF PoolInv, PoolTyped
<1> QED
    BY <1>4, <1>5, <1>6, <1>7, <1>8 DEF PoolInv

\* A delivery that has a connection gives it back, and is left without one.
LEMMA GiveBackKeepsConns ==
    ASSUME IInv, PoolInv, PoolTyped', NEW c \in Calls, call[c].conn,
           NEW m \in CallState, call' = [call EXCEPT ![c] = m], ConnOK(m), ~m.conn,
           conns' = [conns EXCEPT ![call[c].pod] = @ + 1]
    PROVE  PoolInv'
<1>0. PICK p \in Pods : p = call[c].pod
    BY DEF IInv, Typed, CallState
<1>1. /\ call \in [Calls -> CallState] /\ call[c] \in CallState /\ p \in Pods
      /\ conns' = [conns EXCEPT ![p] = @ + 1]
    BY <1>0 DEF IInv, Typed, CallState
<1>2. call'[c] = m /\ \A d \in Calls \ {c} : call'[d] = call[d]
    BY <1>1
<1>3. c \in Holding(p)
    BY <1>0 DEF Holding
<1>4. /\ conns' \in [Pods -> Nat] /\ conns'[p] = conns[p] + 1
      /\ \A q \in Pods \ {p} : conns'[q] = conns[q]
    BY <1>1 DEF PoolInv
<1>5. PoolCounted(p)'
    <2>1. Holding(p)' = Holding(p) \ {c}
        BY <1>2 DEF Holding
    <2>2. IsFiniteSet(Holding(p)) /\ conns[p] + Cardinality(Holding(p)) = PoolSize
        BY <1>1 DEF PoolInv, PoolCounted
    <2>3. IsFiniteSet(Holding(p)') /\ Cardinality(Holding(p)') = Cardinality(Holding(p)) - 1
        BY <1>3, <2>1, <2>2, FS_RemoveElement
    <2>4. Cardinality(Holding(p)) \in Nat /\ conns[p] \in Nat
        BY <1>1, <2>2, FS_CardinalityType DEF PoolInv
    <2> QED
        BY <1>4, <2>2, <2>3, <2>4 DEF PoolCounted
<1>6. ASSUME NEW q \in Pods, q # p PROVE PoolCounted(q)'
    <2>1. Holding(q)' = Holding(q)
        BY <1>0, <1>2, <1>6 DEF Holding
    <2> QED
        BY <1>4, <1>6, <2>1 DEF PoolInv, PoolCounted
<1>7. \A d \in Calls : ConnOK(call[d])'
    BY <1>2 DEF PoolInv, ConnOK
<1> QED
    BY <1>4, <1>5, <1>6, <1>7 DEF PoolInv

\* The lock was not granted, or the handler returns: the connection goes back.
LEMMA ReleaseKeepsConns ==
    ASSUME IInv, PoolInv, NEW c \in Calls, LockTimeout(c) \/ Reply(c) PROVE PoolInv'
<1>0. /\ call \in [Calls -> CallState] /\ call[c] \in CallState /\ ConnOK(call[c])
      /\ CallIdle \in CallState /\ CallIdle.pc = "idle" /\ CallIdle.conn = FALSE
    BY PodsAndEventsExist DEF IInv, Typed, PoolInv, CallIdle, CallState, Actions, Outcomes
<1>1. UNCHANGED <<lockPool, changes>> /\ (Fails(c) \/ UNCHANGED faults)
    BY DEF LockTimeout, GiveUpLock, Reply, hookVars, lockVars
<1>2. PoolTyped'
    BY <1>1, FaultsAreBounded DEF PoolInv, PoolTyped
<1>3. CASE LockTimeout(c)
    <2> DEFINE m == [call[c] EXCEPT !.pc = "log", !.outcome = "error", !.conn = FALSE]
    <2>1. call[c].conn /\ m \in CallState /\ ConnOK(m) /\ ~m.conn
        BY <1>0, <1>3 DEF LockTimeout, GiveUpLock, CallState, ConnOK, Outcomes
    <2>2. call' = [call EXCEPT ![c] = m] /\ conns' = [conns EXCEPT ![call[c].pod] = @ + 1]
        BY <1>0, <1>3 DEF LockTimeout, GiveUpLock, CallState
    <2> HIDE DEF m
    <2> QED
        BY <1>2, <2>1, <2>2, GiveBackKeepsConns
<1>4. CASE Reply(c) /\ call[c].conn
    BY <1>0, <1>2, <1>4, GiveBackKeepsConns DEF Reply, ConnOK
<1>5. CASE Reply(c) /\ ~call[c].conn
    <2>1. call' = [call EXCEPT ![c] = CallIdle] /\ UNCHANGED conns
        BY <1>5 DEF Reply
    <2>2. CallIdle.conn = call[c].conn /\ ConnOK(CallIdle)
        BY <1>0, <1>5 DEF CallState, ConnOK
    <2> QED
        BY <1>0, <1>2, <2>1, <2>2, MoveKeepsConns
<1> QED
    BY <1>3, <1>4, <1>5

\* A crash takes the deliveries of the pod and their connections together.
LEMMA CrashKeepsConns == ASSUME IInv, PoolInv, NEW p \in Pods, Crash(p) PROVE PoolInv'
<1> DEFINE dead == {c \in Calls : call[c].pc # "idle" /\ call[c].pod = p}
<1>0. /\ call \in [Calls -> CallState] /\ CallIdle.pc = "idle" /\ ~CallIdle.conn
      /\ \A c \in Calls : ConnOK(call[c])
    BY DEF IInv, Typed, PoolInv, CallIdle
<1>1. /\ call' = [c \in Calls |-> IF c \in dead THEN CallIdle ELSE call[c]]
      /\ conns' = [conns EXCEPT ![p] = PoolSize] /\ lockPool' = [lockPool EXCEPT ![p] = "unopened"]
      /\ Fault /\ UNCHANGED changes
    BY DEF Crash, hookVars
<1>2. PoolTyped'
    <2>1. faults' \in 0..MaxFaults
        BY <1>1, LimitsAreNat DEF PoolInv, PoolTyped, Fault
    <2> QED
        BY <1>1, <2>1 DEF PoolInv, PoolTyped
<1>3. \A c \in Calls : call'[c] = IF c \in dead THEN CallIdle ELSE call[c]
    BY <1>1
<1>4. \A c \in Calls : ConnOK(call[c])'
    BY <1>0, <1>3 DEF ConnOK
<1>5. PoolSize \in Nat
    BY LimitsAreNat
<1>6. conns' \in [Pods -> Nat] /\ conns'[p] = PoolSize /\ \A q \in Pods \ {p} : conns'[q] = conns[q]
    BY <1>1, <1>5 DEF PoolInv
<1>7. PoolCounted(p)'
    <2>1. ASSUME NEW c \in Calls, call'[c].conn, call'[c].pod = p PROVE FALSE
        <3>1. c \notin dead /\ call'[c] = call[c]
            BY <1>0, <1>3, <2>1
        <3>2. call[c].pc = "idle"
            BY <2>1, <3>1
        <3> QED
            BY <1>0, <2>1, <3>1, <3>2 DEF ConnOK
    <2>2. Holding(p)' = {}
        BY <2>1 DEF Holding
    <2> QED
        BY <1>5, <1>6, <2>2, FS_EmptySet DEF PoolCounted
<1>8. ASSUME NEW q \in Pods, q # p PROVE PoolCounted(q)'
    <2>1. ASSUME NEW c \in Calls PROVE (call'[c].conn /\ call'[c].pod = q) <=> (call[c].conn /\ call[c].pod = q)
        <3>1. CASE c \in dead
            BY <1>0, <1>3, <1>8, <3>1
        <3>2. CASE c \notin dead
            BY <1>3, <3>2
        <3> QED
            BY <3>1, <3>2
    <2>2. Holding(q)' = Holding(q)
        BY <2>1 DEF Holding
    <2> QED
        BY <1>6, <1>8, <2>2 DEF PoolInv, PoolCounted
<1> QED
    BY <1>2, <1>4, <1>6, <1>7, <1>8 DEF PoolInv

\* The other steps leave deliveries and connections alone.
LEMMA OtherStepsKeepConns ==
    ASSUME IInv, PoolInv,
           \/ Dashboard \/ (\E c \in Calls : OpenLockPool(c) \/ LockSessionLost(c)) \/ UNCHANGED vars
    PROVE  PoolInv'
<1>1. UNCHANGED <<call, conns>>
    BY DEF Dashboard, SaveEventMapping, DeleteEventMapping, ActivateWebhook, UpdateWebhook, SoftDeleteWebhook,
           ChangeHook, PurgeExpiredDeliveries, OpenLockPool, LockSessionLost, lockVars, vars
<1>2. PoolTyped'
    <2>1. CASE Dashboard
        <3>1. UNCHANGED <<lockPool, faults>> /\ Change
            BY <2>1 DEF Dashboard, SaveEventMapping, DeleteEventMapping, ActivateWebhook, UpdateWebhook,
                        SoftDeleteWebhook, ChangeHook, PurgeExpiredDeliveries, lockVars
        <3> QED
            BY <3>1, LimitsAreNat DEF PoolInv, PoolTyped, Change
    <2>2. ASSUME NEW c \in Calls, OpenLockPool(c) PROVE PoolTyped'
        <3>1. Fails(c) \/ UNCHANGED faults
            BY <2>2 DEF OpenLockPool
        <3>2. lockPool' \in [Pods -> {"unopened", "open", "failed"}] /\ UNCHANGED changes
            BY <2>2 DEF OpenLockPool, PoolInv, PoolTyped, hookVars
        <3>3. faults' \in 0..MaxFaults
            BY <3>1, FaultsAreBounded
        <3> QED
            BY <3>2, <3>3 DEF PoolInv, PoolTyped
    <2>3. ASSUME NEW c \in Calls, LockSessionLost(c) PROVE PoolTyped'
        BY <2>3, FaultsAreBounded DEF LockSessionLost, hookVars, PoolInv, PoolTyped
    <2>4. CASE UNCHANGED vars
        BY <2>4 DEF vars, hookVars, lockVars, PoolInv, PoolTyped
    <2> QED
        BY <2>1, <2>2, <2>3, <2>4
<1>3. \A p \in Pods : Holding(p)' = Holding(p)
    BY <1>1 DEF Holding
<1> QED
    BY <1>1, <1>2, <1>3 DEF PoolInv, PoolCounted

\* The state has its types; that no pool ever has more or fewer connections than it was made
\* with, whatever fails, crashes or hangs up, is the part that takes a proof (lockEventID).
THEOREM TypeCorrect == Spec => []TypeOK
<1>1. IInv /\ PoolInv /\ [Next]_vars => PoolInv'
    <2> SUFFICES ASSUME IInv, PoolInv, [Next]_vars PROVE PoolInv'
        OBVIOUS
    <2>1. CASE Dashboard \/ UNCHANGED vars
        BY <2>1, OtherStepsKeepConns
    <2>2. ASSUME NEW c \in Calls,
                 \/ \E p \in Pods, e \in Events : Receive(c, p, e)
                 \/ Proceed(c) \/ HangUp(c) \/ LockSessionLost(c)
          PROVE PoolInv'
        BY <2>2, ConnQuietSteps, AcquireKeepsConns, ReleaseKeepsConns, OtherStepsKeepConns DEF Proceed
    <2>3. ASSUME NEW p \in Pods, Crash(p) PROVE PoolInv'
        BY <2>3, CrashKeepsConns
    <2> QED
        BY <2>1, <2>2, <2>3 DEF Next
<1>2. IInv /\ PoolInv => TypeOK
    <2> SUFFICES ASSUME IInv, PoolInv PROVE TypeOK
        OBVIOUS
    <2>1. ASSUME NEW p \in Pods PROVE conns[p] \in 0..PoolSize
        <3>1. IsFiniteSet(Holding(p)) /\ conns[p] + Cardinality(Holding(p)) = PoolSize /\ conns[p] \in Nat
            BY DEF PoolInv, PoolCounted
        <3> QED
            BY <3>1, FS_CardinalityType, LimitsAreNat
    <2>2. conns \in [Pods -> 0..PoolSize]
        BY <2>1 DEF PoolInv
    <2> QED
        BY <2>2 DEF IInv, Typed, PoolInv, PoolTyped, TypeOK
<1> QED
    BY <1>1, <1>2, InitPoolInv, Invariant, PTL DEF Spec
=============================================================================
