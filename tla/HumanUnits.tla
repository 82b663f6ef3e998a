----------------------------- MODULE HumanUnits -----------------------------
(***************************************************************************)
(* The figures of `tord query streams` (src/src/format.rs, human_bytes and  *)
(* human_age) as what they show: a number of tenths of a unit, and a       *)
(* number of one or two time units.                                        *)
(*                                                                         *)
(* f64 holds every count below 2^53 exactly and so does a division by      *)
(* 1024, so the value being scaled is n / Scale[unit].                     *)
(***************************************************************************)
EXTENDS Integers, Sequences, FiniteSetsExt

CONSTANTS
  Base,      \* 1024
  Unit       \* names of the units, the smallest first: B, K, M, G, T

ASSUME UnitsAssumption ==
  /\ Base \in Nat \ {0, 1}
  /\ Unit \in Seq(STRING) /\ Unit # <<>>

LastUnit == Len(Unit) - 1

\* The powers of base up to the n-th.
Powers(base, n) ==
  LET power[k \in 0 .. n] == IF k = 0 THEN 1 ELSE base * power[k - 1]
  IN  power

\* How many bytes a unit is: `value /= 1024.0` once for each unit.
Scale == Powers(Base, LastUnit)

\* The loop of human_bytes ends at the first unit that the next one is too
\* large for, or at the last.
ScaledUnit(n) ==
  Min({unit \in 0 .. LastUnit : unit = LastUnit \/ n < Scale[unit + 1]})

\* `{:.1}`: the nearest tenth of a / b, of two equally near ones the even one.
NearestTenth(a, b) ==
  LET q == (10 * a) \div b
      r == (10 * a) % b
  IN  IF 2 * r > b \/ (2 * r = b /\ q % 2 = 1) THEN q + 1 ELSE q

\* Faulty variant: the value is scaled as an integer.
HumanBytesWhole(n) ==
  [tenths |-> 10 * (n \div Scale[ScaledUnit(n)]), unit |-> ScaledUnit(n)]

\* At unit 0 the count itself is shown.
human_bytes(n) ==
  [tenths |-> NearestTenth(n, Scale[ScaledUnit(n)]), unit |-> ScaledUnit(n)]

\* Faulty variant: the minutes of an hour are taken for seconds.
HumanAgeMixed(secs) ==
  IF secs < 60        THEN <<[n |-> secs, of |-> "s"]>>
  ELSE IF secs < 3600 THEN <<[n |-> secs \div 60, of |-> "m"], [n |-> secs % 60, of |-> "s"]>>
  ELSE <<[n |-> secs \div 3600, of |-> "h"], [n |-> secs % 60, of |-> "m"]>>

human_age(secs) ==
  IF secs < 60        THEN <<[n |-> secs, of |-> "s"]>>
  ELSE IF secs < 3600 THEN <<[n |-> secs \div 60, of |-> "m"], [n |-> secs % 60, of |-> "s"]>>
  ELSE <<[n |-> secs \div 3600, of |-> "h"], [n |-> (secs % 3600) \div 60, of |-> "m"]>>

-----------------------------------------------------------------------------
(* What a reader takes the figures for. *)

\* In tenths of a byte.
BytesRead(shown) == shown.tenths * Scale[shown.unit]

Seconds(unit) == CASE unit = "h" -> 3600 [] unit = "m" -> 60 [] unit = "s" -> 1

\* In seconds.
AgeRead(shown) ==
  LET part(i) == shown[i].n * Seconds(shown[i].of)
  IN  IF Len(shown) = 1 THEN part(1) ELSE part(1) + part(2)
Abs(n) == IF n < 0 THEN - n ELSE n

\* The nearest tenth of the largest unit that there is one of.
BytesTrue(shown, n) ==
  /\ 2 * Abs(BytesRead(shown) - 10 * n) <= Scale[shown.unit]
  /\ shown.unit = 0 \/ Scale[shown.unit] <= n
  /\ shown.unit = LastUnit \/ n < Scale[shown.unit + 1]

\* Not ahead, and behind by less than the smallest unit shown.
AgeTrue(shown, secs) ==
  /\ AgeRead(shown) <= secs
  /\ secs < AgeRead(shown) + Seconds(shown[Len(shown)].of)
=============================================================================
