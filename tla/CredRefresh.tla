----------------------------- MODULE CredRefresh -----------------------------
(***************************************************************************)
(* The credentials a command prints (internal/credentials: CommandStore).  *)
(* Load runs the command at the start, Run refreshes the set after the     *)
(* period the last success asked for, and after a growing delay when a run *)
(* failed.                                                                 *)
(*                                                                         *)
(* Data: a set of credentials is the number of its change.  Durations are  *)
(* counted in units and wrap around like the int64 of a time.Duration;     *)
(* when a timer fires is left to the scheduler.                            *)
(***************************************************************************)
EXTENDS Integers

CONSTANTS
    Interval,     \* TOOLMESH_CREDENTIAL_RELOAD_IN, 0 for none
    ReloadIns,    \* what the command may print as RELOAD_IN; -1 is no such line
    RetryDelay,   \* firstRetryDelay
    MaxDuration,  \* the largest time.Duration
    MaxPrinted,   \* bound on the changes of what the command prints
    MaxFailures   \* bound on the runs that fail

ASSUME CredAssumption ==
    /\ MaxDuration \in Nat \ {0} /\ Interval \in 0..MaxDuration /\ RetryDelay \in 1..MaxDuration
    /\ ReloadIns \subseteq Int /\ \A n \in ReloadIns : n >= -1
    /\ MaxPrinted \in Nat /\ MaxFailures \in Nat

VARIABLES
    printed,     \* what the command prints, and the RELOAD_IN it prints with it
    held,        \* the set in memory, 0 before the first success
    period,      \* the time to the next run after the last success
    delay, retry, \* locals of Run
    loop,        \* off, wait, run, ended or cancelled
    failures
credVars == <<printed, held, period, delay, retry, loop, failures>>

\* time.Duration(n) * unit, in 64 bits.
Wrapped(n) == LET m == n % (2 * MaxDuration + 2) IN IF m > MaxDuration THEN m - (2 * MaxDuration + 2) ELSE m
periodOf(reloadIn) == IF reloadIn >= 0 THEN Wrapped(reloadIn) ELSE Interval

CredInit ==
    /\ \E n \in ReloadIns : printed = [set |-> 1, reloadIn |-> n]
    /\ held = 0 /\ period = 0 /\ delay = 0 /\ retry = 0 /\ loop = "off" /\ failures = 0

\* Load: apply, or ToolMesh does not start.  Run begins with the period.
Load ==
    /\ loop = "off"
    /\ held' = printed.set
    /\ period' = periodOf(printed.reloadIn)
    /\ delay' = period'
    /\ loop' = IF delay' > 0 THEN "wait" ELSE "ended"
    /\ UNCHANGED <<printed, retry, failures>>

TimerFires ==
    /\ loop = "wait"
    /\ loop' = "run"
    /\ UNCHANGED <<printed, held, period, delay, retry, failures>>

\* apply: the set in one swap, then the period, which Run waits for next.
refreshed ==
    /\ loop = "run"
    /\ held' = printed.set
    /\ period' = periodOf(printed.reloadIn)
    /\ retry' = 0 /\ delay' = period'
    /\ loop' = IF delay' > 0 THEN "wait" ELSE "ended"
    /\ UNCHANGED <<printed, failures>>

\* As nextRetry, without the limit.
nextRetryUnbounded(prev) == IF prev > 0 THEN Wrapped(prev * 2) ELSE RetryDelay

\* nextRetry: twice the last delay, within the period in force.
nextRetry(prev) ==
    LET next == IF prev > 0 THEN Wrapped(prev * 2) ELSE RetryDelay IN
    IF period > 0 /\ next > period THEN period ELSE next

\* The command fails, runs too long or prints something that is no set.
refreshFailed ==
    /\ loop = "run" /\ failures < MaxFailures
    /\ failures' = failures + 1
    /\ retry' = nextRetry(retry) /\ delay' = retry'
    /\ loop' = IF delay' > 0 THEN "wait" ELSE "ended"
    /\ UNCHANGED <<printed, held, period>>

\* The context of the process is done, before or during a run.
CancelRun ==
    /\ loop \in {"wait", "run"}
    /\ loop' = "cancelled"
    /\ UNCHANGED <<printed, held, period, delay, retry, failures>>

\* Somebody changes the secrets.
ChangeSecrets(n) ==
    /\ printed.set < MaxPrinted
    /\ printed' = [set |-> printed.set + 1, reloadIn |-> n]
    /\ UNCHANGED <<held, period, delay, retry, loop, failures>>

CredNext ==
    \/ Load \/ TimerFires \/ refreshed \/ refreshFailed \/ CancelRun
    \/ \E n \in ReloadIns : ChangeSecrets(n)

\* The timer fires and a run of the command ends; runs do not fail for ever.
CredFair == WF_credVars(TimerFires) /\ WF_credVars(refreshed)

-----------------------------------------------------------------------------
\* Run, nextRetry: a change of the secrets reaches the store, through any number
\* of failing runs, unless the last success asked for no further run (or for one
\* so late that the duration overflows) or the process ends.
CredentialsCatchUp ==
    loop \in {"wait", "run"} ~> (held = printed.set \/ (loop = "ended" /\ period <= 0) \/ loop = "cancelled")
=============================================================================
