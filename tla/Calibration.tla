---------------------------- MODULE Calibration ----------------------------
(***************************************************************************)
(* timer_calibrate of devices/timer.c, and the delays that use what it     *)
(* finds.  The machine can do `speed' rounds of busy_wait's loop in a      *)
(* tick; a single measurement may find up to Jitter fewer.                 *)
(*                                                                         *)
(* A definition marked `Wrong' is a fault put in to see that a property    *)
(* notices it; no action uses it.                                          *)
(***************************************************************************)
EXTENDS Integers

CONSTANTS
    MODULUS,        \* 2^32: loops_per_tick is an unsigned
    INT64_RANGE,    \* 2^64, the values of an int64_t
    TIMER_FREQ,     \* 100 in timer.h
    Speeds,         \* rounds per tick of the machines looked at
    Jitter,         \* by how much a measurement may fall short
    Amounts         \* of time units, for the delays

\* 1u << 10, where the search begins; high_bit >> 10 is high_bit / FRACTION.
START == 1024
FRACTION == 1024

ASSUME CalibrationAssumption ==
    /\ {MODULUS, TIMER_FREQ, INT64_RANGE} \subseteq Nat \ {0}
    /\ TIMER_FREQ <= 1000      \* an #error in timer.c
    /\ MODULUS % START = 0
    /\ 2 * START < MODULUS
    /\ Speeds \subseteq Nat
    /\ Jitter \in Nat
    /\ Amounts \subseteq Nat

VARIABLES
    speed,
    loops_per_tick,
    high_bit,
    test_bit,
    search          \* "idle", "double", "refine", "done" or "panic"

calVars == <<speed, loops_per_tick, high_bit, test_bit, search>>

CalInit ==
    /\ speed \in Speeds
    /\ loops_per_tick = 0
    /\ high_bit = 0
    /\ test_bit = 0
    /\ search = "idle"

\* What too_many_loops, which waits for a tick, then runs busy_wait and sees
\* whether another has come, may return.
too_many_loops(loops) == {loops > s : s \in (speed - Jitter)..speed}

CalibrateStart ==
    /\ search = "idle"
    /\ loops_per_tick' = START
    /\ search' = "double"
    /\ UNCHANGED <<speed, high_bit, test_bit>>

twice == (2 * loops_per_tick) % MODULUS

\* Wrong: without the ASSERT that the bit was not shifted out.
DoubleUnchecked ==
    /\ search = "double"
    /\ \E many \in too_many_loops(twice) :
           IF many
           THEN /\ high_bit' = loops_per_tick
                /\ test_bit' = loops_per_tick \div 2
                /\ search' = "refine"
                /\ UNCHANGED loops_per_tick
           ELSE /\ loops_per_tick' = twice
                /\ UNCHANGED <<high_bit, test_bit, search>>
    /\ UNCHANGED speed

\* The largest power of two that takes less than a tick.
Double ==
    /\ search = "double"
    /\ \E many \in too_many_loops(twice) :
           IF many
           THEN /\ high_bit' = loops_per_tick
                /\ test_bit' = loops_per_tick \div 2
                /\ search' = "refine"
                /\ UNCHANGED loops_per_tick
           ELSE /\ loops_per_tick' = twice
                /\ search' = IF twice = 0 THEN "panic" ELSE search
                /\ UNCHANGED <<high_bit, test_bit>>
    /\ UNCHANGED speed

\* Wrong: high_bit | test_bit is tried, without the bits found before.
RefineHighBit ==
    /\ search = "refine"
    /\ test_bit # high_bit \div FRACTION
    /\ \E many \in too_many_loops(high_bit + test_bit) :
           loops_per_tick' = IF many THEN loops_per_tick ELSE loops_per_tick + test_bit
    /\ test_bit' = test_bit \div 2
    /\ UNCHANGED <<speed, high_bit, search>>

\* One more bit: loops_per_tick | test_bit, which has that bit clear.
Refine ==
    /\ search = "refine"
    /\ test_bit # high_bit \div FRACTION
    /\ \E many \in too_many_loops(loops_per_tick + test_bit) :
           loops_per_tick' = IF many THEN loops_per_tick ELSE loops_per_tick + test_bit
    /\ test_bit' = test_bit \div 2
    /\ UNCHANGED <<speed, high_bit, search>>

Refined ==
    /\ search = "refine"
    /\ test_bit = high_bit \div FRACTION
    /\ search' = "done"
    /\ UNCHANGED <<speed, loops_per_tick, high_bit, test_bit>>

Calibrate == Double \/ Refine \/ Refined

-----------------------------------------------------------------------------
(* Delays.                                                                 *)

\* Of timer_msleep and timer_mdelay, timer_usleep and timer_udelay,
\* timer_nsleep and timer_ndelay.
denominators == {1000, 1000 * 1000, 1000 * 1000 * 1000}

\* An int64_t keeps the low bits of a product that is too large for it, and its
\* division drops the fraction, for b > 0.
int64(x) == ((x + INT64_RANGE \div 2) % INT64_RANGE) - INT64_RANGE \div 2
int64_div(a, b) == IF a >= 0 THEN a \div b ELSE -((-a) \div b)

\* Wrong: numerator and denominator are not scaled down by 1000.
real_time_delay_unscaled(num, denom) ==
    int64_div(int64(int64(loops_per_tick * num) * TIMER_FREQ), denom)

\* The rounds of busy_wait for num/denom seconds; of a negative number it does
\* none.
real_time_delay(num, denom) ==
    int64_div(int64(int64_div(int64(loops_per_tick * num), 1000) * TIMER_FREQ),
              denom \div 1000)

\* The ticks real_time_sleep gives to timer_sleep; with 0 it calls
\* real_time_delay instead.
real_time_ticks(num, denom) == int64_div(int64(num * TIMER_FREQ), denom)

-----------------------------------------------------------------------------
(* What calibration and delays achieve.                                    *)

\* The search closes in from below: what was found fits in a tick, unless a
\* tick is too short for the START that is taken untested, and with twice the
\* bit to be tried next it would be too much.  At the end that leaves an error
\* of high_bit >> 9.  It panics only if half the range of an unsigned fits in
\* a tick.
CalibrationClosesIn ==
    /\ search \in {"refine", "done"} =>
           /\ loops_per_tick <= speed \/ loops_per_tick = START
           /\ loops_per_tick + 2 * test_bit > speed - Jitter
    /\ search = "panic" => 2 * speed >= MODULUS

\* What the search rests on: test_bit is one of the ten bits below high_bit,
\* the last of which ends the loop, and only what was measured to fit is kept.
BitsBelow(m) == {512 * m, 256 * m, 128 * m, 64 * m, 32 * m, 16 * m, 8 * m, 4 * m, 2 * m, m}
CalInv ==
    /\ {speed, loops_per_tick, high_bit, test_bit} \subseteq Nat
    /\ search \in {"idle", "double", "refine", "done", "panic"}
    /\ search \in {"double", "refine", "done"} =>
           /\ loops_per_tick > 0
           /\ loops_per_tick <= speed \/ loops_per_tick = START
    /\ search = "double" => loops_per_tick % START = 0 /\ loops_per_tick < MODULUS
    /\ search \in {"refine", "done"} =>
           /\ high_bit % FRACTION = 0 /\ test_bit \in BitsBelow(high_bit \div FRACTION)
           /\ loops_per_tick + 2 * test_bit > speed - Jitter
    /\ search = "panic" => 2 * speed >= MODULUS

\* loops_per_tick * num is the one product of real_time_delay that may be too
\* large for an int64_t: the other is kept in range by the scaling.  When it is
\* not too large, a delay falls short of num/denom seconds by the rounding of the
\* two divisions and is never too long; and one that real_time_sleep makes by
\* busy waiting is shorter than a tick.
DelaysRoundDown ==
    search = "done" =>
        \A num \in Amounts, denom \in denominators :
            LET loops == real_time_delay(num, denom)
                exact == (loops_per_tick * num * TIMER_FREQ) \div denom
            IN loops_per_tick * num < INT64_RANGE \div 2 =>
                   /\ loops <= exact
                   /\ exact <= loops + TIMER_FREQ \div (denom \div 1000) + 1
                   /\ num * TIMER_FREQ < INT64_RANGE \div 2 /\ real_time_ticks(num, denom) = 0 =>
                          loops < loops_per_tick

=============================================================================
