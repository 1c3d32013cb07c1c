------------------------------ MODULE RateLimits ------------------------------
(***************************************************************************)
(* The three rate limiters of a pod, each a map from clients to what they  *)
(* have used: that of the data API of one app and that of the dashboard    *)
(* count in a window that begins with the first request, that of sign-in   *)
(* keeps the times of the requests it let pass.  Each decision is taken    *)
(* under the lock of the limiter.  A behaviour is that of one of them.     *)
(***************************************************************************)
EXTENDS Naturals, FiniteSets

CONSTANTS Clients,
          Window,    \* the window
          Budgets,   \* what an administrator may allow per window
          Threshold, \* entries from which the limiter of the dashboard is swept
          MaxTime    \* bound: the end of time, which begins at Window

ASSUME LimitBounds ==
    /\ {Window, Threshold, MaxTime} \subseteq Nat \ {0} /\ Window <= MaxTime
    /\ Budgets \subseteq Nat \ {0} /\ Budgets # {}

VARIABLES limiter,  \* which one it is
          now,
          budget,   \* the budget that is configured
          max,      \* the budget the limiter was made with, 0 before it is
          entry,    \* window-counting: requests and the begin of the window
          swept,    \* the last sweep of the limiter of an app
          stamps,   \* sign-in: the requests kept, with their times
          passed,   \* history: the requests of the last window that passed
          verdict   \* history: whom the last decision was about, and what it was

limVars == <<limiter, now, budget, max, entry, swept, stamps, passed, verdict>>

-----------------------------------------------------------------------------
Limiters == {"app", "dashboard", "signin"}
Times == 0 .. MaxTime
NoEntry == [count |-> 0, start |-> 0]
\* Requests of one time are told apart by a number: a list of times is a set of stamps.
Stamps == [at : Times, no : Nat \ {0}]
Stamped(s) == s \cup {[at |-> now, no |-> Cardinality({x \in s : x.at = now}) + 1]}
After(s, t) == {x \in s : x.at > t}
Since(s, t) == {x \in s : x.at >= t}

LimInit ==
    /\ limiter \in Limiters /\ budget \in Budgets
    /\ now = Window
    /\ max = IF limiter = "app" THEN 0 ELSE budget
    /\ entry = [c \in Clients |-> NoEntry] /\ swept = 0
    /\ stamps = [c \in Clients |-> {}]
    /\ passed = [c \in Clients |-> {}]
    /\ verdict = <<>>

Tick ==
    /\ now < MaxTime
    /\ now' = now + 1
    /\ passed' = [c \in Clients |-> Since(passed[c], now + 1 - Window)]
    /\ verdict' = <<>>
    /\ UNCHANGED <<limiter, budget, max, entry, swept, stamps>>

\* What a decision is, and what it leaves in the history.
Answer(c, ok) ==
    /\ passed' = IF ok THEN [passed EXCEPT ![c] = Stamped(@)] ELSE passed
    /\ verdict' = <<c, ok>>
    /\ UNCHANGED <<limiter, now, budget>>

\* A limiter lives as long as its pod, whatever is configured meanwhile.
GetOrCreate == IF max = 0 THEN budget ELSE max

Expired(e) == e.count > 0 /\ now - e.start > Window

\* Mutant: a sweep leaves nothing.
SweepAll(entries) == [c \in Clients |-> NoEntry]

Sweep(entries) == [c \in Clients |-> IF Expired(entries[c]) THEN NoEntry ELSE entries[c]]

Count(entries, c) ==
    IF entries[c].count = 0 \/ Expired(entries[c]) THEN [entries EXCEPT ![c] = [count |-> 1, start |-> now]]
    ELSE [entries EXCEPT ![c].count = @ + 1]

\* Counts no further than tells a refusal.
Capped(entries, c, m) == [entries EXCEPT ![c].count = IF @ > m THEN m + 1 ELSE @]

\* The limiter of an app: swept once per window.
AllowApp(c) ==
    LET due == swept = 0 \/ now - swept > Window
        counted == Count(IF due THEN Sweep(entry) ELSE entry, c) IN
    /\ limiter = "app"
    /\ max' = GetOrCreate
    /\ swept' = IF due THEN now ELSE swept
    /\ entry' = Capped(counted, c, max')
    /\ Answer(c, counted[c].count <= max')
    /\ UNCHANGED stamps

\* That of the dashboard: swept when it has many entries.
Allow(c) ==
    LET many == Cardinality({d \in Clients : entry[d].count > 0}) >= Threshold
        counted == Count(IF many THEN Sweep(entry) ELSE entry, c) IN
    /\ limiter = "dashboard"
    /\ entry' = Capped(counted, c, max)
    /\ Answer(c, counted[c].count <= max)
    /\ UNCHANGED <<max, swept, stamps>>

\* That of sign-in.
AllowSignIn(c) ==
    LET fresh == After(stamps[c], now - Window) IN
    /\ limiter = "signin"
    /\ stamps' = [stamps EXCEPT ![c] = IF Cardinality(fresh) < max THEN Stamped(fresh) ELSE fresh]
    /\ Answer(c, Cardinality(fresh) < max)
    /\ UNCHANGED <<max, entry, swept>>

UpdateAppRateLimit(b) ==
    /\ limiter = "app" /\ b # budget
    /\ budget' = b
    /\ verdict' = <<>>
    /\ UNCHANGED <<limiter, now, max, entry, swept, stamps, passed>>

LimNext ==
    \/ Tick
    \/ \E b \in Budgets : UpdateAppRateLimit(b)
    \/ \E c \in Clients : AllowApp(c) \/ Allow(c) \/ AllowSignIn(c)

LimSpec == LimInit /\ [][LimNext]_limVars

-----------------------------------------------------------------------------
\* The clock, the entries, the times and the history have their types.
LimTypeOK ==
    /\ limiter \in Limiters /\ now \in Times /\ budget \in Budgets /\ max \in Budgets \cup {0}
    /\ entry \in [Clients -> [count : Nat, start : Times]] /\ swept \in Times
    /\ {stamps, passed} \subseteq [Clients -> SUBSET Stamps]
    /\ verdict \in {<<>>} \cup (Clients \X BOOLEAN)

\* The limiter of sign-in lets a client pass at most max times in any window.  The other two
\* count in windows of their own, which begin with a request: in one of those a client
\* passes at most max times, but in a window that spans two of them up to twice as often.
\* max is what was configured when the limiter was made, for that of an app when the app
\* had its first request in this pod (getOrCreate never looks at its budget again).
BudgetIsKept ==
    \A c \in Clients :
        IF limiter = "signin" THEN Cardinality(After(passed[c], now - Window)) <= max
        ELSE /\ entry[c].count > 0 => Cardinality(Since(passed[c], entry[c].start)) <= max
             /\ Cardinality(passed[c]) <= 2 * max

\* Only a client that passed max times in the window before is refused: a refusal prolongs
\* no other, and no sweep brings one about.
RefusalIsEarned ==
    verdict # <<>> /\ ~verdict[2] => Cardinality(passed[verdict[1]]) >= max

\* What the limiters decide is right on both sides (RateLimit, AllowSignIn): max in a window
\* of the limiter's own, twice max in any window where that does not slide, and no refusal
\* of a client that did not pass max times.
LimitsAreExact == BudgetIsKept /\ RefusalIsEarned

\* The limiter of the dashboard "is a simple sliding-window rate limiter", "allowing max
\* requests per window per IP" (middleware.go): in the window that ends now no client
\* passed more than max times.
WindowSlides ==
    limiter = "dashboard" => \A c \in Clients : Cardinality(After(passed[c], now - Window)) <= max
=============================================================================
