--------------------------- MODULE PlatformTimer ---------------------------
(***************************************************************************)
(* The FreeRTOS port of the platform timer (platform_timer.c) and the      *)
(* sleep of mqttclient.c (mqtt_sleep_ms), driven by the FreeRTOS tick      *)
(* counter.  One deadline object is modelled: it is set by                 *)
(* platform_timer_init followed by platform_timer_cutdown, as every caller *)
(* in mqttclient.c does, and tested with platform_timer_is_expired.  The   *)
(* counter and the uint32_t arithmetic are reduced to W bits; every sum    *)
(* and product the C code computes in them is taken modulo 2^W.            *)
(*                                                                         *)
(* The auxiliary variables since and slept measure real time, so that the  *)
(* properties can compare what the timer reports with what happened.       *)
(***************************************************************************)
EXTENDS Naturals, FiniteSetsExt

CONSTANTS
    W,              \* bits of TickType_t and uint32_t (32 in the code)
    HZ,             \* configTICK_RATE_HZ
    Timeouts,       \* timeouts given to platform_timer_cutdown, in ms
    SleepRequests,  \* arguments of mqtt_sleep_ms, in ms
    MaxCutdowns,    \* bound on the number of cutdowns in a behaviour
    None

ASSUME /\ W \in Nat \ {0}
       /\ HZ \in Nat /\ 1000 % HZ = 0
       /\ Timeouts \subseteq Nat /\ SleepRequests \subseteq Nat
       /\ MaxCutdowns \in Nat

VARIABLES
    tick,       \* xTaskGetTickCount()
    time,       \* timer->time, the deadline in ms
    armed,      \* the timeout of the last cutdown, None before the first
    since,      \* ms of real time since the last cutdown, capped at Wrap
    slept,      \* the last mqtt_sleep_ms: [asked, got] in ms, or None
    cutdowns    \* cutdowns so far

vars == <<tick, time, armed, since, slept, cutdowns>>

Wrap == 2^W

\* portTICK_PERIOD_MS
MsPerTick == 1000 \div HZ

\* platform_uptime_ms: the tick count itself at 1000 Hz; otherwise
\* tick * 1000, computed in TickType_t, rounded up to ms.
UptimeMs(t) ==
    IF HZ = 1000 THEN t
    ELSE ((((t * 1000) % Wrap) + HZ - 1) % Wrap) \div HZ

Now == UptimeMs(tick)

\* platform_timer_is_expired
IsExpired == Now > time

\* platform_timer_remain: the ms left before the deadline, 0 once reached.
Remain == IF time <= Now THEN 0 ELSE time - Now

\* platform_timer_usleep(usec): the number of ticks given to vTaskDelay.
\* When usec is 0 the local tick is never assigned, and vTaskDelay reads
\* whatever the stack holds.
UsleepTicks(usec) ==
    IF usec # 0
    THEN LET t == (usec \div MsPerTick) % Wrap IN {IF t = 0 THEN 1 ELSE t}
    ELSE 0..Wrap - 1

Init ==
    /\ tick \in 0..Wrap - 1
    /\ time = 0
    /\ armed = None
    /\ since = 0
    /\ slept = None
    /\ cutdowns = 0

\* The tick interrupt.
Tick ==
    /\ tick' = (tick + 1) % Wrap
    /\ since' = Min({since + MsPerTick, Wrap})
    /\ UNCHANGED <<time, armed, slept, cutdowns>>

\* platform_timer_init then platform_timer_cutdown(timer, timeout).
Cutdown(timeout) ==
    /\ cutdowns < MaxCutdowns
    /\ time' = (Now + timeout) % Wrap
    /\ armed' = timeout
    /\ since' = 0
    /\ cutdowns' = cutdowns + 1
    /\ UNCHANGED <<tick, slept>>

\* mqtt_sleep_ms(ms): platform_timer_usleep(ms * 1000) hands vTaskDelay
\* the number of ticks the calling task then blocks for; slept records
\* their length in ms.  The ticks themselves pass by Tick.
SleepMs(ms) ==
    \E d \in UsleepTicks(ms * 1000) :
        /\ slept' = [asked |-> ms, got |-> d * MsPerTick]
        /\ UNCHANGED <<tick, time, armed, since, cutdowns>>

Next ==
    \/ Tick
    \/ \E to \in Timeouts : Cutdown(to)
    \/ \E ms \in SleepRequests : SleepMs(ms)

Spec == Init /\ [][Next]_vars

\* The tick interrupt always runs.
FairSpec == Spec /\ WF_vars(Tick)

-----------------------------------------------------------------------------
\* The start of the current deadline, in ms of uptime.
Start == (time - armed) % Wrap

\* As long as neither the deadline computed by platform_timer_cutdown nor
\* the clock has passed 2^W ms since the cutdown, platform_timer_is_expired
\* reports the deadline expired exactly when more than its timeout of real
\* time has passed, and platform_timer_remain reports the rest of it.
ExpiresOnTime ==
    (armed # None /\ Start + armed < Wrap /\ Start + since < Wrap) =>
        /\ IsExpired <=> since > armed
        /\ Remain = IF since >= armed THEN 0 ELSE armed - since

\* Every deadline set by platform_timer_cutdown is eventually reported
\* expired by platform_timer_is_expired, unless a new cutdown replaces it.
DeadlineExpires ==
    \A k \in 0..MaxCutdowns :
        (cutdowns = k /\ armed # None) ~> (IsExpired \/ cutdowns # k)

\* The comments of platform_timer_cutdown (a timeout of 0 means expired at
\* once) and of platform_timer_is_expired (expired once the deadline is
\* "reached or exceeded"): as long as the clock has not wrapped since the
\* cutdown, a timer whose whole timeout of real time has passed is
\* reported expired.
ExpiredOnceReached ==
    (armed # None /\ Start + since < Wrap /\ since >= armed) => IsExpired

\* The comment of platform_timer_is_expired: the unsigned comparison stays
\* right across the wrap of the millisecond counter for timeouts below half
\* its range, so a deadline whose timeout has not yet passed is never
\* reported expired.
NeverExpiredEarly ==
    (armed # None /\ armed < Wrap \div 2 /\ since < armed) => ~IsExpired

\* mqtt_sleep_ms(ms) sleeps for ms milliseconds, rounded up to a tick.
SleepHasRequestedLength ==
    slept # None => slept.got \in slept.asked .. slept.asked + MsPerTick
=============================================================================
