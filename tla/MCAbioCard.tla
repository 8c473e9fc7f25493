----------------------------- MODULE MCAbioCard -----------------------------
\* Constants of the runs of AbioCard.
EXTENDS AbioCard

At(y, mo, d, h, mi, s) ==
    [f \in Field |-> CASE f = "year" -> y  [] f = "month"  -> mo [] f = "day"    -> d
                       [] f = "hour" -> h  [] f = "minute" -> mi [] f = "second" -> s]

\* The last second of a leap day, and a day that September does not have.
MCTimes == {At(12, 2, 29, 23, 59, 58), At(13, 9, 31, 0, 0, 0)}

\* "CW150015101112": the month is missing.
NoMonth == {At(15, 0, 15, 10, 11, 12)}

MCSettings ==
    {[on_pos |-> 1110, always_on |-> 1, off_pos |-> 4095, always_off |-> 0]}
=============================================================================
