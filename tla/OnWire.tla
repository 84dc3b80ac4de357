------------------------------- MODULE OnWire -------------------------------
(***************************************************************************)
(* The on-wire computation of dntpd (ntp_algorithms.c): delay and offset   *)
(* of one exchange from its four timestamps. A timestamp is the whole      *)
(* number of nanoseconds ntp_timestamp_to_ns returns: the fraction is      *)
(* rounded down, and with 32 bits of seconds its two clamps are not        *)
(* reached.                                                                *)
(***************************************************************************)
EXTENDS Integers

CONSTANT NS_PER_US    \* nanoseconds per microsecond: 1000 in the source

ASSUME OnWireAssumption == NS_PER_US \in Nat \ {0}

\* Integer division of C: it truncates towards zero.
Quotient(a, b) == IF a >= 0 THEN a \div b ELSE -((-a) \div b)

Magnitude(a) == IF a >= 0 THEN a ELSE -a

DelayNs(T1, T2, T3, T4) == (T4 - T1) - (T3 - T2)

\* Mutant of OffsetNs: the second difference is the wrong way round.
OffsetNsSwapped(T1, T2, T3, T4) == Quotient((T2 - T1) + (T4 - T3), 2)

OffsetNs(T1, T2, T3, T4) == Quotient((T2 - T1) + (T3 - T4), 2)

\* calculate_delay_offset: a negative round trip is refused; the results are
\* in microseconds.
CalculateDelayOffset(T1, T2, T3, T4) ==
    [ok     |-> DelayNs(T1, T2, T3, T4) >= 0,
     delay  |-> Quotient(DelayNs(T1, T2, T3, T4), NS_PER_US),
     offset |-> Quotient(OffsetNs(T1, T2, T3, T4), NS_PER_US)]

=============================================================================
