----------------------------- MODULE JsonValues -----------------------------
(***************************************************************************)
(* JSON values.  A value is a record, a number or a name; `null' stands    *)
(* for null, undefined, NaN and a value of the wrong type, which no        *)
(* decoder tells apart.  Numbers are counted in hundredths, so that        *)
(* fractions are whole.                                                    *)
(***************************************************************************)
EXTENDS Integers

CONSTANT null

Number == Int \cup {null}

One == 100
Floor(v) == v - (v % One)

\* A quotient rounded down to a whole number, one cut off after the hundredths,
\* and one rounded up to hundredths.
Quotient(a, b) == One * (a \div b)
Ratio(a, b) == (One * a) \div b
RatioUp(a, b) == (One * a + b - 1) \div b

AtLeast(least, v) == IF v < least THEN least ELSE v
AtMost(most, v) == IF v > most THEN most ELSE v

isRecord(value) == value # null

Field(raw, f) ==
    IF isRecord(raw) THEN IF f \in DOMAIN raw THEN raw[f] ELSE null ELSE null

OrElse(value, other) == IF value = null THEN other ELSE value
=============================================================================
