-------------------------- MODULE QueryFormatProofs --------------------------
(***************************************************************************)
(* What `tord query` prints, for every reply: the arithmetic of human_age  *)
(* and human_bytes, the lines of a table, and the key/value lines of       *)
(* objects nested to any depth.                                            *)
(***************************************************************************)
EXTENDS QueryFormat, FiniteFacts, SequenceTheorems

-----------------------------------------------------------------------------
(* Units. *)

\* The recursion of Powers goes through: there is a table up to every number.
LEMMA PowersAre ==
  ASSUME NEW base \in Nat, NEW n \in Nat
  PROVE  Powers(base, n) =
           [k \in 0 .. n |-> IF k = 0 THEN 1 ELSE base * Powers(base, n)[k - 1]]
<1> DEFINE IsTable(p, m) == p = [k \in 0 .. m |-> IF k = 0 THEN 1 ELSE base * p[k - 1]]
           Bad == {m \in Nat : ~ \E p : IsTable(p, m)}
<1>1. Bad = {}
  <2> SUFFICES ASSUME Bad # {} PROVE FALSE
    OBVIOUS
  <2>1. PICK m \in Bad : \A l \in Bad : m <= l
    BY LeastNat
  <2>2. CASE m = 0
    <3>1. PICK p : p = [k \in 0 .. 0 |-> 1]
      OBVIOUS
    <3>2. IsTable(p, 0)
      BY <3>1
    <3>3. m \notin Bad
      BY <3>2, <2>2
    <3> QED
      BY <3>3, <2>1
  <2>3. CASE m # 0
    <3>0. m \in Nat
      OBVIOUS
    <3> HIDE DEF Bad, IsTable
    <3>1. m - 1 \in Nat /\ m - 1 \notin Bad
      BY <2>1, <2>3, <3>0
    <3> USE DEF Bad, IsTable
    <3>2. PICK q : IsTable(q, m - 1)
      BY <3>1
    <3>3. PICK p : p = [k \in 0 .. m |-> IF k = 0 THEN 1 ELSE base * q[k - 1]]
      OBVIOUS
    <3>4. \A k \in 0 .. (m - 1) : p[k] = q[k]
      BY <3>1, <3>2, <3>3
    <3>5. \A k \in 0 .. m : k # 0 => base * q[k - 1] = base * p[k - 1]
      BY <3>1, <3>4
    <3>6. IsTable(p, m)
      BY <3>3, <3>5
    <3> QED
      BY <3>6, <2>1
  <2> QED
    BY <2>2, <2>3
<1>2. \E p : IsTable(p, n)
  BY <1>1
<1>3. Powers(base, n) = CHOOSE p : IsTable(p, n)
  BY DEF Powers
<1> HIDE DEF IsTable
<1>4. IsTable(Powers(base, n), n)
  BY <1>2, <1>3
<1> QED
  BY <1>4 DEF IsTable

\* A product of positive numbers is at least each of them.
LEMMA ProductGrows ==
  ASSUME NEW a \in Nat \ {0}, NEW b \in Nat \ {0}
  PROVE  a * b \in Nat \ {0} /\ a <= a * b /\ b <= a * b
  OBVIOUS

\* Products are monotone.
LEMMA ProductMonotone ==
  ASSUME NEW a \in Nat, NEW b \in Nat, NEW c \in Nat, a <= b
  PROVE  a * c <= b * c
  OBVIOUS

\* Powers are positive and never fall; one is the base times the one before.
LEMMA PowersGrow ==
  ASSUME NEW base \in Nat \ {0}, NEW n \in Nat
  PROVE  /\ Powers(base, n) \in [0 .. n -> Nat \ {0}]
         /\ Powers(base, n)[0] = 1
         /\ \A k \in 0 .. (n - 1) :
              Powers(base, n)[k + 1] = base * Powers(base, n)[k]
         /\ \A j, k \in 0 .. n : j <= k => Powers(base, n)[j] <= Powers(base, n)[k]
<1> DEFINE p == Powers(base, n)
<1>1. p = [k \in 0 .. n |-> IF k = 0 THEN 1 ELSE base * p[k - 1]]
  BY PowersAre
<1> HIDE DEF p
<1>2. p[0] = 1 /\ \A k \in 0 .. (n - 1) : p[k + 1] = base * p[k]
  BY <1>1
<1> DEFINE Bad == {k \in 0 .. n : p[k] \notin Nat \ {0}}
           Fallen == {k \in 0 .. n : \E j \in 0 .. n : j <= k /\ ~ (p[j] <= p[k])}
<1>3. Bad = {}
  <2> SUFFICES ASSUME Bad # {} PROVE FALSE
    OBVIOUS
  <2>0. Bad \in SUBSET Nat
    OBVIOUS
  <2> HIDE DEF Bad
  <2>1. PICK k \in Bad : \A l \in Bad : k <= l
    BY <2>0, LeastNat
  <2> USE DEF Bad
  <2>2. k # 0 /\ k - 1 \in 0 .. (n - 1) /\ k - 1 \notin Bad
    BY <2>1, <1>2
  <2>3. p[k - 1] \in Nat \ {0} /\ p[k] = base * p[k - 1]
    BY <2>2, <1>2
  <2>4. base * p[k - 1] \in Nat \ {0}
    BY <2>3, ProductGrows
  <2> QED
    BY <2>1, <2>3, <2>4
<1>4. \A k \in 0 .. n : p[k] \in Nat \ {0}
  BY <1>3
<1> HIDE DEF Bad
<1>5. Fallen = {}
  <2> SUFFICES ASSUME Fallen # {} PROVE FALSE
    OBVIOUS
  <2>0. Fallen \in SUBSET Nat
    OBVIOUS
  <2> HIDE DEF Fallen
  <2>1. PICK k \in Fallen : \A l \in Fallen : k <= l
    BY <2>0, LeastNat
  <2> USE DEF Fallen
  <2>2. PICK j \in 0 .. n : j <= k /\ ~ (p[j] <= p[k])
    BY <2>1
  <2>3. j # k /\ k - 1 \in 0 .. (n - 1) /\ j <= k - 1 /\ k - 1 \notin Fallen
    BY <2>1, <2>2, <1>4
  <2>4. p[j] <= p[k - 1]
    BY <2>3, <2>2
  <2>5. p[k] = base * p[k - 1] /\ p[k - 1] \in Nat \ {0} /\ p[j] \in Nat /\ p[k] \in Nat
    BY <2>3, <2>2, <1>2, <1>4
  <2>6. p[k - 1] <= base * p[k - 1]
    BY <2>5, ProductGrows
  <2> QED
    BY <2>2, <2>4, <2>5, <2>6
<1>6. p \in [0 .. n -> Nat \ {0}]
  BY <1>1, <1>4
<1> QED
  BY <1>2, <1>5, <1>6 DEF p
\* The units of human_bytes.
LEMMA ScaleGrows ==
  /\ LastUnit \in Nat
  /\ Scale \in [0 .. LastUnit -> Nat \ {0}]
  /\ Scale[0] = 1
  /\ \A u \in 0 .. (LastUnit - 1) : Scale[u + 1] = Base * Scale[u]
  /\ \A u, v \in 0 .. LastUnit : u <= v => Scale[u] <= Scale[v]
<1>1. LastUnit \in Nat /\ Base \in Nat \ {0}
  BY UnitsAssumption DEF LastUnit
<1> QED
  BY <1>1, PowersGrow DEF Scale

\* The unit of a figure is the largest that there is one of, if there is one.
LEMMA UnitFits ==
  ASSUME NEW n \in Nat
  PROVE  /\ ScaledUnit(n) \in 0 .. LastUnit
         /\ ScaledUnit(n) = LastUnit \/ n < Scale[ScaledUnit(n) + 1]
         /\ ScaledUnit(n) = 0 \/ Scale[ScaledUnit(n)] <= n
<1> DEFINE Fits == {u \in 0 .. LastUnit : u = LastUnit \/ n < Scale[u + 1]}
<1>1. Fits \in SUBSET Nat /\ LastUnit \in Fits
  BY ScaleGrows
<1>2. ScaledUnit(n) = Min(Fits)
  BY DEF ScaledUnit
<1> HIDE DEF Fits
<1>3. \E u \in Fits : \A v \in Fits : u <= v
  <2>1. Fits # {}
    BY <1>1
  <2> QED
    BY <1>1, <2>1, LeastNat
<1>4. ScaledUnit(n) \in Fits /\ \A v \in Fits : ScaledUnit(n) <= v
  BY <1>2, <1>3 DEF Min
<1>5. PICK u : u = ScaledUnit(n)
  OBVIOUS
<1>6. u \in 0 .. LastUnit /\ (u = LastUnit \/ n < Scale[u + 1])
  BY <1>4, <1>5 DEF Fits
<1>7. ASSUME u # 0
      PROVE  Scale[u] <= n
  <2>1. u - 1 \in 0 .. LastUnit /\ u - 1 \notin Fits
    BY <1>4, <1>5, <1>6, <1>7, ScaleGrows
  <2>2. ~ (n < Scale[(u - 1) + 1])
    BY <2>1 DEF Fits
  <2>3. Scale[u] \in Nat /\ (u - 1) + 1 = u
    BY <1>6, ScaleGrows
  <2> QED
    BY <2>2, <2>3
<1> QED
  BY <1>5, <1>6, <1>7

\* What division leaves.
LEMMA Division ==
  ASSUME NEW m \in Nat, NEW b \in Nat \ {0}
  PROVE  /\ m \div b \in Nat
         /\ m % b \in 0 .. (b - 1)
         /\ m = b * (m \div b) + (m % b)
  OBVIOUS

\* The quotient of the larger number is no smaller, and of two numbers with
\* one quotient the larger leaves more.
LEMMA QuotientsGrow ==
  ASSUME NEW b \in Nat \ {0}, NEW q1 \in Nat, NEW q2 \in Nat,
         NEW r1 \in 0 .. (b - 1), NEW r2 \in 0 .. (b - 1),
         b * q1 + r1 <= b * q2 + r2
  PROVE  q1 <= q2 /\ (q1 = q2 => r1 <= r2)
<1>1. CASE q1 <= q2
  BY <1>1
<1>2. CASE q2 + 1 <= q1
  <2>1. b * (q2 + 1) <= b * q1
    BY <1>2
  <2>2. b * (q2 + 1) = b * q2 + b
    OBVIOUS
  <2> QED
    BY <2>1, <2>2
<1> QED
  BY <1>1, <1>2
\* `{:.1}` is off by half of its last digit at the most.
LEMMA NearestIsNear ==
  ASSUME NEW a \in Nat, NEW b \in Nat \ {0}
  PROVE  /\ NearestTenth(a, b) \in Nat
         /\ 2 * Abs(NearestTenth(a, b) * b - 10 * a) <= b
<1>1. PICK q, r : q = (10 * a) \div b /\ r = (10 * a) % b
  OBVIOUS
<1>2. q \in Nat /\ r \in 0 .. (b - 1) /\ 10 * a = b * q + r
  BY <1>1, Division, 10 * a \in Nat
<1>3. NearestTenth(a, b) = q \/ (NearestTenth(a, b) = q + 1 /\ 2 * r >= b)
  BY <1>1, <1>2 DEF NearestTenth
<1>4. NearestTenth(a, b) = q => 2 * r <= b
  BY <1>1, <1>2 DEF NearestTenth
<1>5. (q + 1) * b = b * q + b /\ q * b = b * q /\ b * q \in Nat
  BY <1>2
<1>6. CASE NearestTenth(a, b) = q
  <2>1. q * b - 10 * a = - r
    BY <1>2, <1>5
  <2>2. Abs(q * b - 10 * a) = r
    BY <2>1, <1>2 DEF Abs
  <2> QED
    BY <2>2, <1>2, <1>4, <1>6
<1>7. CASE NearestTenth(a, b) = q + 1 /\ 2 * r >= b
  <2>1. (q + 1) * b - 10 * a = b - r
    BY <1>2, <1>5
  <2>2. Abs((q + 1) * b - 10 * a) = b - r
    BY <2>1, <1>2 DEF Abs
  <2> QED
    BY <2>2, <1>2, <1>7
<1> QED
  BY <1>3, <1>6, <1>7

\* Of two numbers the larger is not rounded to less: half-way cases with one
\* quotient go the same way.
LEMMA NearestGrows ==
  ASSUME NEW a1 \in Nat, NEW a2 \in Nat, NEW b \in Nat \ {0}, a1 <= a2
  PROVE  NearestTenth(a1, b) <= NearestTenth(a2, b)
<1>1. PICK q1, r1, q2, r2 :
        /\ q1 = (10 * a1) \div b /\ r1 = (10 * a1) % b
        /\ q2 = (10 * a2) \div b /\ r2 = (10 * a2) % b
  OBVIOUS
<1>2. /\ q1 \in Nat /\ r1 \in 0 .. (b - 1) /\ 10 * a1 = b * q1 + r1
      /\ q2 \in Nat /\ r2 \in 0 .. (b - 1) /\ 10 * a2 = b * q2 + r2
  BY <1>1, Division, 10 * a1 \in Nat, 10 * a2 \in Nat
<1>3. b * q1 + r1 <= b * q2 + r2
  BY <1>2
<1>4. q1 <= q2 /\ (q1 = q2 => r1 <= r2)
  BY <1>2, <1>3, QuotientsGrow
<1>5. /\ NearestTenth(a1, b) =
           IF 2 * r1 > b \/ (2 * r1 = b /\ q1 % 2 = 1) THEN q1 + 1 ELSE q1
      /\ NearestTenth(a2, b) =
           IF 2 * r2 > b \/ (2 * r2 = b /\ q2 % 2 = 1) THEN q2 + 1 ELSE q2
  BY <1>1 DEF NearestTenth
<1> QED
  BY <1>2, <1>4, <1>5

\* A number below a whole one is not rounded beyond it, and one above it not
\* below it.
LEMMA NearestStays ==
  ASSUME NEW a \in Nat, NEW b \in Nat \ {0}, NEW w \in Nat
  PROVE  /\ a <= w * b => NearestTenth(a, b) <= 10 * w
         /\ w * b <= a => 10 * w <= NearestTenth(a, b)
<1>1. PICK n : n = w * b
  OBVIOUS
<1>2. n \in Nat
  BY <1>1
<1>3. NearestTenth(n, b) = 10 * w
  <2>1. PICK q, r : q = (10 * n) \div b /\ r = (10 * n) % b
    OBVIOUS
  <2>2. q \in Nat /\ r \in 0 .. (b - 1) /\ 10 * n = b * q + r
    BY <1>2, <2>1, Division, 10 * n \in Nat
  <2>3. 10 * n = b * (10 * w) + 0
    BY <1>1
  <2>4. q = 10 * w /\ r = 0
    <3>1. b * q + r <= b * (10 * w) + 0 /\ b * (10 * w) + 0 <= b * q + r
      BY <1>2, <2>2, <2>3
    <3>2. 10 * w \in Nat /\ 0 \in 0 .. (b - 1)
      OBVIOUS
    <3> QED
      BY <2>2, <3>1, <3>2, QuotientsGrow
  <2> QED
    BY <2>1, <2>4 DEF NearestTenth
<1> QED
  BY <1>1, <1>2, <1>3, NearestGrows
-----------------------------------------------------------------------------
(* Figures. *)

LEMMA BytesType ==
  ASSUME NEW n \in Nat
  PROVE  /\ human_bytes(n).unit = ScaledUnit(n)
         /\ human_bytes(n).tenths = NearestTenth(n, Scale[ScaledUnit(n)])
         /\ human_bytes(n).tenths \in Nat
         /\ BytesRead(human_bytes(n)) =
              NearestTenth(n, Scale[ScaledUnit(n)]) * Scale[ScaledUnit(n)]
         /\ BytesRead(human_bytes(n)) \in Nat
<1>1. Scale[ScaledUnit(n)] \in Nat \ {0}
  BY UnitFits, ScaleGrows
<1>2. NearestTenth(n, Scale[ScaledUnit(n)]) \in Nat
  BY <1>1, NearestIsNear
<1> QED
  BY <1>1, <1>2 DEF human_bytes, BytesRead

\* human_bytes tells the truth.
LEMMA BytesAreTrue ==
  ASSUME NEW n \in Nat
  PROVE  BytesTrue(human_bytes(n), n)
<1>1. Scale[ScaledUnit(n)] \in Nat \ {0}
  BY UnitFits, ScaleGrows
<1>2. 2 * Abs(BytesRead(human_bytes(n)) - 10 * n) <= Scale[ScaledUnit(n)]
  BY <1>1, BytesType, NearestIsNear
<1> QED
  BY <1>2, BytesType, UnitFits DEF BytesTrue

\* The unit does not get smaller as a count grows.
LEMMA UnitsGrow ==
  ASSUME NEW m \in Nat, NEW n \in Nat, m <= n
  PROVE  ScaledUnit(m) <= ScaledUnit(n)
<1>1. PICK u, v : u = ScaledUnit(m) /\ v = ScaledUnit(n)
  OBVIOUS
<1>2. /\ u \in 0 .. LastUnit /\ (u = 0 \/ Scale[u] <= m)
      /\ v \in 0 .. LastUnit /\ (v = LastUnit \/ n < Scale[v + 1])
  BY <1>1, UnitFits
<1>3. ASSUME v < u
      PROVE  FALSE
  <2>1. v + 1 \in 0 .. LastUnit /\ v + 1 <= u /\ v # LastUnit /\ u # 0
    BY <1>2, <1>3, ScaleGrows
  <2>2. Scale[v + 1] <= Scale[u] /\ Scale[v + 1] \in Nat /\ Scale[u] \in Nat
    BY <1>2, <2>1, ScaleGrows
  <2> QED
    BY <1>2, <2>1, <2>2
<1> QED
  BY <1>1, <1>2, <1>3, ScaleGrows

\* human_bytes never shows less for more, at a change of unit either: below it
\* 1024.0 of the smaller unit is shown at the most, above it 1.0 of the larger
\* at least.
LEMMA BytesGrow ==
  ASSUME NEW m \in Nat, NEW n \in Nat, m <= n
  PROVE  BytesRead(human_bytes(m)) <= BytesRead(human_bytes(n))
<1>1. PICK u, v : u = ScaledUnit(m) /\ v = ScaledUnit(n)
  OBVIOUS
<1>2. PICK b, c : b = Scale[u] /\ c = Scale[v]
  OBVIOUS
<1>3. PICK s, t : s = NearestTenth(m, b) /\ t = NearestTenth(n, c)
  OBVIOUS
<1>4. /\ u \in 0 .. LastUnit /\ v \in 0 .. LastUnit /\ u <= v
      /\ b \in Nat \ {0} /\ c \in Nat \ {0} /\ s \in Nat /\ t \in Nat
  BY <1>1, <1>2, <1>3, UnitFits, UnitsGrow, ScaleGrows, NearestIsNear
<1>5. s * b <= t * c
  <2>1. CASE u = v
    <3>1. s <= t
      BY <1>2, <1>3, <1>4, <2>1, NearestGrows
    <3> QED
      BY <1>2, <1>4, <2>1, <3>1, ProductMonotone
  <2>2. CASE u < v
    <3>1. u \in 0 .. (LastUnit - 1) /\ u + 1 \in 0 .. LastUnit /\ u + 1 <= v
      BY <1>4, <2>2, ScaleGrows
    <3>2. PICK d : d = Scale[u + 1]
      OBVIOUS
    <3>3. d = Base * b /\ d \in Nat \ {0} /\ d <= c /\ m < d /\ c <= n
      <4>1. d = Base * b /\ d \in Nat \ {0} /\ d <= c
        BY <1>2, <1>4, <3>1, <3>2, ScaleGrows
      <4>2. m < d
        BY <1>1, <1>4, <2>2, <3>2, UnitFits
      <4>3. c <= n
        BY <1>1, <1>2, <1>4, <2>2, UnitFits
      <4> QED
        BY <4>1, <4>2, <4>3
    <3>4. Base \in Nat
      BY UnitsAssumption
    <3>5. s <= 10 * Base
      BY <1>3, <1>4, <3>3, <3>4, NearestStays
    <3>6. s * b <= (10 * Base) * b
      BY <1>4, <3>4, <3>5, ProductMonotone, 10 * Base \in Nat
    <3>7. (10 * Base) * b = 10 * d
      BY <1>4, <3>3, <3>4
    <3>8. 10 <= t
      <4>1. 1 * c <= n /\ 1 \in Nat
        BY <1>4, <3>3
      <4>2. 10 * 1 <= NearestTenth(n, c)
        BY <1>4, <4>1, NearestStays
      <4> QED
        BY <1>3, <4>2
    <3>9. 10 * c <= t * c
      BY <1>4, <3>8, ProductMonotone
    <3>10. s * b \in Nat /\ t * c \in Nat
      BY <1>4
    <3> QED
      BY <1>4, <3>3, <3>6, <3>7, <3>9, <3>10
  <2> QED
    BY <1>4, <2>1, <2>2, ScaleGrows
<1> QED
  BY <1>1, <1>2, <1>3, <1>5, BytesType

\* human_age tells the truth, in whole units.
LEMMA AgesAreTrue ==
  ASSUME NEW secs \in Nat
  PROVE  /\ AgeTrue(human_age(secs), secs)
         /\ AgeRead(human_age(secs)) \in Nat
<1>1. CASE secs < 60
  BY <1>1 DEF AgeTrue, AgeRead, human_age, Seconds
<1>2. CASE secs >= 60 /\ secs < 3600
  BY <1>2 DEF AgeTrue, AgeRead, human_age, Seconds
<1>3. CASE secs >= 3600
  BY <1>3 DEF AgeTrue, AgeRead, human_age, Seconds
<1> QED
  BY <1>1, <1>2, <1>3

\* human_age never shows less for more, at a change of units either.
LEMMA AgesGrow ==
  ASSUME NEW s \in Nat, NEW t \in Nat, s <= t
  PROVE  AgeRead(human_age(s)) <= AgeRead(human_age(t))
<1>1. \A n \in Nat :
        AgeRead(human_age(n)) = IF n < 3600 THEN n ELSE 60 * (n \div 60)
  <2> TAKE n \in Nat
  <2>1. CASE n < 60
    BY <2>1 DEF AgeRead, human_age, Seconds
  <2>2. CASE n >= 60 /\ n < 3600
    BY <2>2 DEF AgeRead, human_age, Seconds
  <2>3. CASE n >= 3600
    <3>1. AgeRead(human_age(n)) =
            (n \div 3600) * 3600 + ((n % 3600) \div 60) * 60
      BY <2>3 DEF AgeRead, human_age, Seconds
    <3> QED
      BY <2>3, <3>1
  <2> QED
    BY <2>1, <2>2, <2>3
<1> QED
  BY <1>1
-----------------------------------------------------------------------------
(* What is on the terminal is the last reply, rendered. *)

ReplyShown ==
  /\ IsReply(reply)
  /\ printed \in {Nothing, render(reply)}

\* Only a list of streams is rendered as a table.
LEMMA OnlyStreamsAsTable ==
  ASSUME NEW v, render(v).view = "table"
  PROVE  /\ v.kind # "garbage" /\ output # "json" /\ ~ IsError(v)
         /\ Has(v, "streams", "array")
         /\ v.fields["streams"].rows # <<>>
         /\ render(v) = render_streams(v.fields["streams"].rows)
<1>1. v.kind # "garbage" /\ output # "json" /\ render(v) = render_table(v)
  BY DEF render
<1>2. render_kv(v).view # "table"
  BY DEF render_kv
<1>3. ~ IsError(v)
  <2>1. SUFFICES ASSUME IsError(v)
                 PROVE  render_table(v).view = "error"
    BY <1>1
  <2>2. PICK text : text = IF Has(v, "message", "string")
                             THEN v.fields["message"].text ELSE "(no message)"
    OBVIOUS
  <2>3. render_table(v) = [view |-> "error", message |-> text]
    BY <2>1, <2>2 DEF render_table
  <2> QED
    BY <2>3
<1>4. Has(v, "streams", "array")
  BY <1>1, <1>2, <1>3 DEF render_table
<1>5. PICK rows : rows = v.fields["streams"].rows
  OBVIOUS
<1>6. render_table(v) = render_streams(rows)
  BY <1>3, <1>4, <1>5 DEF render_table
<1>7. rows = <<>> => render_streams(rows).view # "table"
  BY DEF render_streams
<1> QED
  BY <1>1, <1>3, <1>4, <1>5, <1>6, <1>7

\* Where a table is on the terminal, it is that of the reply's rows.
LEMMA TableIsOfReply ==
  ASSUME ReplyShown, ShowsTable
  PROVE  /\ printed = render_streams(Streams)
         /\ Streams \in Seq(Row) /\ Streams # <<>>
         /\ reply = [kind |-> "object", fields |-> reply.fields]
         /\ "streams" \in DOMAIN reply.fields
         /\ reply.fields["streams"] \in [kind : {"array"}, rows : Seq(Row)]
<1>1. printed = render(reply)
  <2>1. Nothing.view # "table"
    BY DEF Nothing
  <2> QED
    BY <2>1 DEF ReplyShown, ShowsTable
<1>2. render(reply).view = "table"
  BY <1>1 DEF ShowsTable
<1>3. /\ reply.kind # "garbage" /\ Has(reply, "streams", "array")
      /\ Streams # <<>> /\ render(reply) = render_streams(Streams)
  BY <1>2, OnlyStreamsAsTable DEF Streams
<1>4. /\ reply = [kind |-> "object", fields |-> reply.fields]
      /\ reply.fields["streams"] \in [kind : {"array"}, rows : Seq(Row)]
  BY <1>3 DEF ReplyShown, IsReply
<1> QED
  BY <1>1, <1>3, <1>4 DEF Streams, Has

\* Only the figures of a connection change, and they get larger.
LEMMA RowGrows ==
  ASSUME NEW row \in Row
  PROVE  /\ Later(row) \in Row
         /\ Later(row).age_secs = row.age_secs + 1
         /\ Later(row).bytes_to_upstream = row.bytes_to_upstream + 1
         /\ Later(row).bytes_to_client = row.bytes_to_client + 2
<1>1. PICK p, t, i : p = row.peer /\ t = row.target /\ i = row.isolation
  OBVIOUS
<1>2. /\ row.id \in Nat /\ p \in Text \cup {Absent} /\ t \in Text \cup {Absent}
      /\ i \in Text \cup {Absent} /\ row.age_secs \in Nat
      /\ row.bytes_to_upstream \in Nat /\ row.bytes_to_client \in Nat
  BY <1>1 DEF Row
<1>3. row = [id |-> row.id, peer |-> p, target |-> t, isolation |-> i,
             age_secs |-> row.age_secs,
             bytes_to_upstream |-> row.bytes_to_upstream,
             bytes_to_client |-> row.bytes_to_client]
  BY <1>1 DEF Row
<1>4. PICK aged : aged = [row EXCEPT !.age_secs = row.age_secs + 1]
  OBVIOUS
<1>5. PICK sent : sent = [aged EXCEPT !.bytes_to_upstream = row.bytes_to_upstream + 1]
  OBVIOUS
<1>6. Later(row) = [sent EXCEPT !.bytes_to_client = row.bytes_to_client + 2]
  BY <1>4, <1>5 DEF Later
<1>7. aged = [id |-> row.id, peer |-> p, target |-> t, isolation |-> i,
              age_secs |-> row.age_secs + 1,
              bytes_to_upstream |-> row.bytes_to_upstream,
              bytes_to_client |-> row.bytes_to_client]
  BY <1>3, <1>4
<1>8. sent = [id |-> row.id, peer |-> p, target |-> t, isolation |-> i,
              age_secs |-> row.age_secs + 1,
              bytes_to_upstream |-> row.bytes_to_upstream + 1,
              bytes_to_client |-> row.bytes_to_client]
  BY <1>5, <1>7
<1>9. Later(row) =
        [id |-> row.id, peer |-> p, target |-> t, isolation |-> i,
         age_secs |-> row.age_secs + 1,
         bytes_to_upstream |-> row.bytes_to_upstream + 1,
         bytes_to_client |-> row.bytes_to_client + 2]
  BY <1>6, <1>8
<1> QED
  BY <1>2, <1>9 DEF Row

Grown(rows) == [r \in DOMAIN rows |-> Later(rows[r])]

LEMMA RowsGrow ==
  ASSUME NEW rows \in Seq(Row)
  PROVE  /\ Grown(rows) \in Seq(Row) /\ DOMAIN Grown(rows) = DOMAIN rows
         /\ \A r \in DOMAIN rows : rows[r] \in Row /\ Grown(rows)[r] = Later(rows[r])
<1>1. DOMAIN Grown(rows) = 1 .. Len(rows) /\ Len(rows) \in Nat
  BY DEF Grown
<1>2. \A r \in DOMAIN rows : rows[r] \in Row
  OBVIOUS
<1>3. \A r \in 1 .. Len(rows) : Grown(rows)[r] \in Row
  BY <1>2, RowGrows DEF Grown
<1>4. Grown(rows) \in Seq(Row)
  BY <1>1, <1>3 DEF Grown
<1> QED
  BY <1>1, <1>2, <1>4 DEF Grown

\* The reply to the same question, asked again.
LEMMA AskedAgain ==
  ASSUME ReplyShown, QueryAgain
  PROVE  /\ ReplyShown'
         /\ reply'.fields["streams"].rows = Grown(Streams)
         /\ Streams \in Seq(Row)
         /\ printed = render_streams(Streams)
<1>1. ShowsTable
  BY DEF QueryAgain
<1>2. /\ printed = render_streams(Streams)
      /\ Streams \in Seq(Row) /\ Streams # <<>>
      /\ reply = [kind |-> "object", fields |-> reply.fields]
      /\ "streams" \in DOMAIN reply.fields
      /\ reply.fields["streams"] \in [kind : {"array"}, rows : Seq(Row)]
  BY <1>1, TableIsOfReply
<1>3. PICK fields : fields = [reply.fields EXCEPT !["streams"].rows = Grown(Streams)]
  OBVIOUS
<1>4. reply' = [kind |-> "object", fields |-> fields]
  <2>1. reply' = [reply EXCEPT !.fields["streams"].rows = Grown(Streams)]
    BY DEF QueryAgain, Grown
  <2>2. PICK old : old = reply.fields
    OBVIOUS
  <2>3. reply = [kind |-> "object", fields |-> old]
    BY <1>2, <2>2
  <2>4. fields = [old EXCEPT !["streams"].rows = Grown(Streams)]
    BY <1>3, <2>2
  <2> QED
    BY <2>1, <2>3, <2>4
<1>5. reply'.fields["streams"] = [kind |-> "array", rows |-> Grown(Streams)]
  <2>1. PICK list : list = reply.fields["streams"]
    OBVIOUS
  <2>2. fields["streams"] = [list EXCEPT !.rows = Grown(Streams)]
    BY <1>2, <1>3, <2>1
  <2>3. list = [kind |-> "array", rows |-> list.rows]
    BY <1>2, <2>1
  <2> QED
    BY <1>4, <2>2, <2>3
<1>6. reply'.fields["streams"] \in [kind : {"array"}, rows : Seq(Row)]
  BY <1>2, <1>5, RowsGrow
<1>7. IsReply(reply')
  BY <1>4, <1>6 DEF IsReply
<1>8. printed' = render(reply')
  BY DEF QueryAgain
<1>9. reply'.fields["streams"].rows = Grown(Streams)
  BY <1>5
<1>10. ReplyShown'
  <2>1. IsReply(reply)'
    BY <1>7 DEF IsReply, Has
  <2>2. (printed = render(reply))'
    BY <1>8 DEF QueryAgain, render
  <2> QED
    BY <2>1, <2>2 DEF ReplyShown
<1> QED
  BY <1>2, <1>9, <1>10
LEMMA InitReplyShown == Init => ReplyShown
  BY RepliesAssumption DEF Init, ReplyShown

LEMMA NextReplyShown == ReplyShown /\ [Next]_vars => ReplyShown'
<1> SUFFICES ASSUME ReplyShown, [Next]_vars PROVE ReplyShown'
  OBVIOUS
<1>1. CASE Query
  <2>1. reply' = reply /\ output' = output /\ printed' = render(reply)
    BY <1>1 DEF Query
  <2>2. (printed = render(reply))'
    BY <2>1 DEF render
  <2>3. IsReply(reply)'
    BY <2>1 DEF ReplyShown, IsReply, Has
  <2> QED
    BY <2>2, <2>3 DEF ReplyShown
<1>2. CASE QueryAgain
  BY <1>2, AskedAgain
<1>3. CASE UNCHANGED vars
  <2>1. reply' = reply /\ output' = output /\ printed' = printed
    BY <1>3 DEF vars
  <2>2. (printed \in {Nothing, render(reply)})'
    BY <2>1 DEF ReplyShown, render, Nothing
  <2>3. IsReply(reply)'
    BY <2>1 DEF ReplyShown, IsReply, Has
  <2> QED
    BY <2>2, <2>3 DEF ReplyShown
<1> QED
  BY <1>1, <1>2, <1>3 DEF Next

LEMMA ReplyAlwaysShown == Spec => []ReplyShown
  BY InitReplyShown, NextReplyShown, PTL DEF Spec

\* The figures of a table are those of its rows.
LEMMA FiguresOfRows ==
  ASSUME NEW rows, rows # <<>>, NEW r \in DOMAIN rows
  PROVE  render_streams(rows).figures[r] =
           [age |-> human_age(rows[r].age_secs),
            up |-> human_bytes(rows[r].bytes_to_upstream),
            down |-> human_bytes(rows[r].bytes_to_client)]
  BY DEF render_streams

LEMMA FiguresOfReply ==
  ASSUME ReplyShown, ShowsTable, NEW r \in DOMAIN Streams
  PROVE  /\ Streams[r] \in Row
         /\ printed.figures[r].age = human_age(Streams[r].age_secs)
         /\ printed.figures[r].up = human_bytes(Streams[r].bytes_to_upstream)
         /\ printed.figures[r].down = human_bytes(Streams[r].bytes_to_client)
<1>1. printed = render_streams(Streams) /\ Streams # <<>> /\ Streams \in Seq(Row)
  BY TableIsOfReply
<1>2. Streams[r] \in Row
  BY <1>1
<1>3. render_streams(Streams).figures[r] =
        [age |-> human_age(Streams[r].age_secs),
         up |-> human_bytes(Streams[r].bytes_to_upstream),
         down |-> human_bytes(Streams[r].bytes_to_client)]
  BY <1>1, FiguresOfRows
<1> QED
  BY <1>1, <1>2, <1>3

\* In every table that is printed the figures are true (human_bytes, human_age,
\* render_streams), for any number of rows, any units and figures of any size.
THEOREM FiguresAlwaysTrue == Spec => []FiguresAreTrue
<1>1. ReplyShown => FiguresAreTrue
  <2> SUFFICES ASSUME ReplyShown, ShowsTable, NEW r \in DOMAIN Streams
               PROVE  /\ BytesTrue(printed.figures[r].up, Streams[r].bytes_to_upstream)
                      /\ BytesTrue(printed.figures[r].down, Streams[r].bytes_to_client)
                      /\ AgeTrue(printed.figures[r].age, Streams[r].age_secs)
    BY DEF FiguresAreTrue
  <2>1. /\ Streams[r].bytes_to_upstream \in Nat
        /\ Streams[r].bytes_to_client \in Nat
        /\ Streams[r].age_secs \in Nat
    BY FiguresOfReply DEF Row
  <2> QED
    BY <2>1, FiguresOfReply, BytesAreTrue, AgesAreTrue
<1> QED
  BY <1>1, ReplyAlwaysShown, PTL

\* The rows of the reply, and what is printed of each.
LEMMA NextFigures ==
  ASSUME ReplyShown, QueryAgain, ShowsTable', NEW r \in DOMAIN Streams
  PROVE  /\ Streams[r] \in Row
         /\ printed'.figures[r].age = human_age(Streams[r].age_secs + 1)
         /\ printed'.figures[r].up = human_bytes(Streams[r].bytes_to_upstream + 1)
         /\ printed'.figures[r].down = human_bytes(Streams[r].bytes_to_client + 2)
<1>1. Streams' = Grown(Streams) /\ Streams \in Seq(Row)
  BY AskedAgain DEF Streams
<1>2. r \in DOMAIN Streams' /\ Streams[r] \in Row /\ Streams'[r] = Later(Streams[r])
  BY <1>1, RowsGrow
<1>3. printed' = render_streams(Streams') /\ Streams' # <<>>
  <2>1. printed' = render(reply') /\ render(reply').view = "table"
    BY DEF QueryAgain, ShowsTable
  <2> QED
    BY <2>1, OnlyStreamsAsTable DEF Streams
<1>4. printed'.figures[r] =
        [age |-> human_age(Streams'[r].age_secs),
         up |-> human_bytes(Streams'[r].bytes_to_upstream),
         down |-> human_bytes(Streams'[r].bytes_to_client)]
  BY <1>2, <1>3, FiguresOfRows
<1> QED
  BY <1>2, <1>4, RowGrows
\* Whatever the figures are when the question is asked again, none has fallen
\* (human_bytes, human_age).
THEOREM NoFigureFalls == Spec => FiguresNeverFall
<1> DEFINE NoneFalls ==
      ShowsTable /\ ShowsTable' =>
        \A r \in DOMAIN Streams :
          /\ AgeRead(printed.figures[r].age) <= AgeRead(printed'.figures[r].age)
          /\ BytesRead(printed.figures[r].up) <= BytesRead(printed'.figures[r].up)
          /\ BytesRead(printed.figures[r].down) <= BytesRead(printed'.figures[r].down)
<1>1. ReplyShown /\ [Next]_vars => [NoneFalls]_vars
  <2> SUFFICES ASSUME ReplyShown, Next, ShowsTable, ShowsTable',
                      NEW r \in DOMAIN Streams
               PROVE  /\ AgeRead(printed.figures[r].age)
                           <= AgeRead(printed'.figures[r].age)
                      /\ BytesRead(printed.figures[r].up)
                           <= BytesRead(printed'.figures[r].up)
                      /\ BytesRead(printed.figures[r].down)
                           <= BytesRead(printed'.figures[r].down)
    OBVIOUS
  <2>1. QueryAgain
    <3>1. Nothing.view # "table"
      BY DEF Nothing
    <3> QED
      BY <3>1 DEF Next, Query, ShowsTable
  <2>2. PICK age, up, down :
          /\ age = Streams[r].age_secs
          /\ up = Streams[r].bytes_to_upstream
          /\ down = Streams[r].bytes_to_client
    OBVIOUS
  <2>3. age \in Nat /\ up \in Nat /\ down \in Nat
    BY <2>2, FiguresOfReply DEF Row
  <2>4. /\ AgeRead(human_age(age)) <= AgeRead(human_age(age + 1))
        /\ BytesRead(human_bytes(up)) <= BytesRead(human_bytes(up + 1))
        /\ BytesRead(human_bytes(down)) <= BytesRead(human_bytes(down + 2))
    BY <2>3, AgesGrow, BytesGrow
  <2> QED
    BY <2>1, <2>2, <2>4, FiguresOfReply, NextFigures
<1> QED
  BY <1>1, ReplyAlwaysShown, PTL DEF Spec, FiguresNeverFall
-----------------------------------------------------------------------------
(* Cells. *)

\* The powers of a base above one outgrow their exponents.
LEMMA PowersPass ==
  ASSUME NEW base \in Nat, base > 1, NEW n \in Nat
  PROVE  \A k \in 0 .. n : k < Powers(base, n)[k]
<1>1. PICK p : p = Powers(base, n)
  OBVIOUS
<1>2. /\ p \in [0 .. n -> Nat \ {0}] /\ p[0] = 1
      /\ \A k \in 0 .. (n - 1) : p[k + 1] = base * p[k]
  BY <1>1, PowersGrow, base \in Nat \ {0}
<1> DEFINE Behind == {k \in 0 .. n : ~ (k < p[k])}
<1>3. Behind = {}
  <2> SUFFICES ASSUME Behind # {} PROVE FALSE
    OBVIOUS
  <2>1. Behind \in SUBSET Nat
    OBVIOUS
  <2>2. PICK k \in Behind : \A l \in Behind : k <= l
    <3> HIDE DEF Behind
    <3> QED
      BY <2>1, LeastNat
  <2>3. k \in 0 .. n /\ ~ (k < p[k])
    OBVIOUS
  <2>4. k # 0
    BY <2>3, <1>2
  <2>5. k - 1 \in 0 .. (n - 1) /\ k - 1 \notin Behind
    <3>1. k - 1 \in 0 .. (n - 1) /\ ~ (k <= k - 1)
      BY <2>3, <2>4
    <3> QED
      BY <2>2, <3>1
  <2> HIDE DEF Behind
  <2>6. k - 1 < p[k - 1]
    BY <2>5 DEF Behind
  <2>7. p[k - 1] \in Nat /\ p[k] = base * p[k - 1]
    BY <1>2, <2>3, <2>5
  <2>8. 2 * p[k - 1] <= base * p[k - 1]
    BY <2>7, ProductMonotone
  <2> QED
    BY <2>3, <2>4, <2>6, <2>7, <2>8
<1> QED
  BY <1>1, <1>3

\* Every number has a number of digits.
LEMMA DigitsType ==
  ASSUME NEW n \in Nat
  PROVE  Digits(n) \in Nat
<1>1. PICK p : p = Powers(10, n + 1)
  OBVIOUS
<1>2. /\ p \in [0 .. (n + 1) -> Nat \ {0}]
      /\ \A k \in 0 .. (n + 1) : k < p[k]
  <2>1. PICK m : m = n + 1
    OBVIOUS
  <2>2. m \in Nat /\ 10 \in Nat /\ 10 \in Nat \ {0} /\ 10 > 1
    BY <2>1
  <2>3. Powers(10, m) \in [0 .. m -> Nat \ {0}]
    BY <2>2, PowersGrow
  <2>4. \A k \in 0 .. m : k < Powers(10, m)[k]
    BY <2>2, PowersPass
  <2> QED
    BY <1>1, <2>1, <2>3, <2>4
<1> DEFINE Enough == {k \in 1 .. (n + 1) : n < p[k]}
<1>3. Enough \in SUBSET Nat /\ n + 1 \in Enough
  <2>1. n + 1 < p[n + 1] /\ p[n + 1] \in Nat
    BY <1>2
  <2> QED
    BY <2>1
<1>4. PICK k \in Enough : \A l \in Enough : k <= l
  <2> HIDE DEF Enough
  <2> QED
    BY <1>3, LeastNat
<1>5. k \in 1 .. (n + 1) /\ n < p[k]
  OBVIOUS
<1>6. k = 1 \/ p[k - 1] <= n
  <2>1. SUFFICES ASSUME k # 1 PROVE p[k - 1] <= n
    OBVIOUS
  <2>2. k - 1 \in 1 .. (n + 1) /\ ~ (k <= k - 1) /\ k - 1 \in 0 .. (n + 1)
    BY <1>5, <2>1
  <2>3. k - 1 \notin Enough
    BY <1>4, <2>2
  <2>4. ~ (n < p[k - 1]) /\ p[k - 1] \in Nat
    BY <1>2, <2>2, <2>3
  <2> QED
    BY <2>4
<1>7. Digits(n) \in 1 .. (n + 1)
  BY <1>1, <1>5, <1>6 DEF Digits
<1> QED
  BY <1>7

LEMMA AsciiIsText ==
  ASSUME NEW n \in Nat
  PROVE  Ascii(n) \in Text
  BY DEF Ascii, Text

\* No cell has more characters than bytes.
LEMMA AgeIsText ==
  ASSUME NEW secs \in Nat
  PROVE  AgeText(human_age(secs)) \in Text
<1>1. CASE secs < 60
  <2>1. AgeText(human_age(secs)) = Ascii(Digits(secs) + 1)
    BY <1>1 DEF AgeText, human_age
  <2> QED
    BY <2>1, DigitsType, AsciiIsText
<1>2. CASE ~ (secs < 60)
  <2>1. PICK a, b : /\ a \in Nat /\ b \in Nat
                    /\ AgeText(human_age(secs)) =
                         Ascii((Digits(a) + 1) + (Digits(b) + 1))
    <3>1. CASE secs < 3600
      <4>1. AgeText(human_age(secs)) =
              Ascii((Digits(secs \div 60) + 1) + (Digits(secs % 60) + 1))
        BY <1>2, <3>1 DEF AgeText, human_age
      <4>2. secs \div 60 \in Nat /\ secs % 60 \in Nat
        OBVIOUS
      <4> QED
        BY <4>1, <4>2
    <3>2. CASE ~ (secs < 3600)
      <4>1. AgeText(human_age(secs)) =
              Ascii((Digits(secs \div 3600) + 1)
                      + (Digits((secs % 3600) \div 60) + 1))
        BY <1>2, <3>2 DEF AgeText, human_age
      <4>2. secs \div 3600 \in Nat /\ (secs % 3600) \div 60 \in Nat
        OBVIOUS
      <4> QED
        BY <4>1, <4>2
    <3> QED
      BY <3>1, <3>2
  <2>2. Digits(a) \in Nat /\ Digits(b) \in Nat
    BY <2>1, DigitsType
  <2>3. (Digits(a) + 1) + (Digits(b) + 1) \in Nat
    BY <2>2
  <2> QED
    BY <2>1, <2>3, AsciiIsText
<1> QED
  BY <1>1, <1>2

LEMMA BytesIsText ==
  ASSUME NEW n \in Nat
  PROVE  BytesText(human_bytes(n)) \in Text
<1>1. PICK t : t = human_bytes(n).tenths \div 10
  OBVIOUS
<1>2. t \in Nat
  BY <1>1, BytesType
<1>3. Digits(t) + 1 \in Nat /\ Digits(t) + 3 \in Nat
  BY <1>2, DigitsType
<1>4. BytesText(human_bytes(n)) \in {Ascii(Digits(t) + 1), Ascii(Digits(t) + 3)}
  BY <1>1 DEF BytesText
<1> QED
  BY <1>3, <1>4, AsciiIsText

LEMMA FieldIsText ==
  ASSUME NEW text \in Text \cup {Absent}
  PROVE  field(text) \in Text
  BY AsciiIsText DEF field

LEMMA CellsAreText ==
  ASSUME NEW row \in Row
  PROVE  \A i \in 1 .. 7 : Cells(row)[i] \in Text
<1>1. /\ Ascii(Digits(row.id)) \in Text
      /\ field(row.peer) \in Text /\ field(row.target) \in Text
      /\ field(row.isolation) \in Text
      /\ AgeText(human_age(row.age_secs)) \in Text
      /\ BytesText(human_bytes(row.bytes_to_upstream)) \in Text
      /\ BytesText(human_bytes(row.bytes_to_client)) \in Text
  BY DigitsType, AsciiIsText, FieldIsText, AgeIsText, BytesIsText DEF Row
<1> QED
  BY <1>1 DEF Cells

LEMMA HeaderIsText == DOMAIN Header = 1 .. 7 /\ \A i \in 1 .. 7 : Header[i] \in Text
<1>1. /\ Ascii(2) \in Text /\ Ascii(4) \in Text /\ Ascii(6) \in Text
      /\ Ascii(3) \in Text
  BY AsciiIsText
<1> QED
  BY <1>1 DEF Header
-----------------------------------------------------------------------------
(* Columns. *)

\* The lines of the table, the header first.
Lines(rows) == <<Header>> \o [r \in DOMAIN rows |-> Cells(rows[r])]

IsTable(table) ==
  /\ DOMAIN table = 1 .. Len(table) /\ Len(table) \in Nat \ {0}
  /\ \A r \in DOMAIN table, i \in 1 .. 7 : table[r][i] \in Text

LEMMA LinesAreTable ==
  ASSUME NEW rows \in Seq(Row)
  PROVE  IsTable(Lines(rows))
<1> DEFINE body == [r \in DOMAIN rows |-> Cells(rows[r])]
<1>1. Len(rows) \in Nat /\ DOMAIN rows = 1 .. Len(rows)
  OBVIOUS
<1>2. DOMAIN body = 1 .. Len(rows) /\ Len(body) = Len(rows)
  BY <1>1
<1>3. body \in Seq({Cells(rows[r]) : r \in DOMAIN rows})
  BY <1>1
<1>4. \A r \in DOMAIN rows, i \in 1 .. 7 : body[r][i] \in Text
  <2> TAKE r \in DOMAIN rows, i \in 1 .. 7
  <2>1. rows[r] \in Row
    OBVIOUS
  <2> QED
    BY <2>1, CellsAreText
<1> HIDE DEF body
<1>5. Len(Lines(rows)) = Len(rows) + 1 /\ DOMAIN Lines(rows) = 1 .. (Len(rows) + 1)
  BY <1>1, <1>2, <1>3 DEF Lines, body
<1>6. ASSUME NEW r \in 1 .. (Len(rows) + 1), NEW i \in 1 .. 7
      PROVE  Lines(rows)[r][i] \in Text
  <2>1. CASE r = 1
    <3>1. Lines(rows)[r] = Header
      BY <1>1, <1>2, <1>3, <2>1 DEF Lines, body
    <3> QED
      BY <3>1, HeaderIsText
  <2>2. CASE r # 1
    <3>1. Lines(rows)[r] = body[r - 1] /\ r - 1 \in DOMAIN rows
      BY <1>1, <1>2, <1>3, <2>2 DEF Lines, body
    <3> QED
      BY <1>4, <3>1
  <2> QED
    BY <2>1, <2>2
<1> QED
  BY <1>1, <1>5, <1>6 DEF IsTable

\* No cell is wider than its column: a width is the most bytes, and a cell has
\* no more characters than bytes. So padding fills each cell up to the column.
LEMMA CellsFit ==
  ASSUME NEW table, IsTable(table), NEW r \in DOMAIN table, NEW i \in 1 .. 7
  PROVE  /\ Widths(table)[i] \in Nat
         /\ table[r][i].chars \in Nat
         /\ table[r][i].chars <= Widths(table)[i]
         /\ Padded(table[r][i].chars, Widths(table)[i]) = Widths(table)[i]
<1> DEFINE sizes == {table[l][i].bytes : l \in DOMAIN table}
<1>1. \A l \in DOMAIN table : /\ table[l][i].bytes \in Nat
                              /\ table[l][i].chars \in Nat
                              /\ table[l][i].chars <= table[l][i].bytes
  BY DEF IsTable, Text
<1>2. sizes \in SUBSET Nat /\ sizes # {} /\ table[r][i].bytes \in sizes
  BY <1>1
<1>3. IsFiniteSet(sizes)
  <2>1. IsFiniteSet(DOMAIN table)
    <3>1. IsFiniteSet(1 .. Len(table))
      BY FS_Interval DEF IsTable
    <3> QED
      BY <3>1 DEF IsTable
  <2>2. PICK size : size = [l \in DOMAIN table |-> table[l][i].bytes]
    OBVIOUS
  <2>3. sizes = {size[l] : l \in DOMAIN table}
    BY <2>2
  <2> HIDE DEF sizes
  <2>4. size \in Surjection(DOMAIN table, sizes)
    BY <2>2, <2>3 DEF Surjection
  <2> QED
    BY <2>1, <2>4, FS_Surjection
<1>4. Widths(table)[i] = Max(sizes)
  BY HeaderIsText DEF Widths
<1>5. PICK w : w = Max(sizes)
  OBVIOUS
<1>6. w \in Nat /\ table[r][i].bytes <= w
  <2> HIDE DEF sizes
  <2> QED
    BY <1>2, <1>3, <1>5, MaxIsGreatest
<1>7. PICK c : c = table[r][i].chars
  OBVIOUS
<1>8. c \in Nat /\ c <= w
  BY <1>1, <1>6, <1>7
<1>9. Max({c, w}) = w
  <2>1. \E x \in {c, w} : \A y \in {c, w} : x >= y
    BY <1>6, <1>8
  <2>2. Max({c, w}) \in {c, w} /\ \A y \in {c, w} : Max({c, w}) >= y
    BY <2>1 DEF Max
  <2> QED
    BY <1>6, <1>8, <2>2
<1> QED
  BY <1>4, <1>5, <1>6, <1>7, <1>8, <1>9 DEF Padded
\* How far each cell of a line moves on the next.
Advance(table, r) ==
  [i \in DOMAIN Header |-> Padded(table[r][i].chars, Widths(table)[i]) + 2]

\* Every line moves on by the width of the column.
LEMMA LinesAdvanceAlike ==
  ASSUME NEW table, IsTable(table), NEW r \in DOMAIN table
  PROVE  Advance(table, r) = [i \in 1 .. 7 |-> Widths(table)[i] + 2]
<1>1. \A i \in 1 .. 7 : Padded(table[r][i].chars, Widths(table)[i]) = Widths(table)[i]
  BY CellsFit
<1> QED
  BY <1>1, HeaderIsText DEF Advance

\* What is printed of a list of rows.
LEMMA TableOfRows ==
  ASSUME NEW rows, rows # <<>>
  PROVE  /\ render_streams(rows).cells = Lines(rows)
         /\ DOMAIN render_streams(rows).starts = DOMAIN Lines(rows)
         /\ \A r \in DOMAIN Lines(rows), i \in DOMAIN Header :
              render_streams(rows).starts[r][i] =
                Sum(Advance(Lines(rows), r), 1 .. i - 1)
  BY DEF render_streams, Lines, Advance, Sum, MapThenSumSet, MapThenFoldSet

\* A cell ends short of the next: sums over 1 .. i are those over 1 .. i - 1
\* and what the i-th cell takes.
LEMMA NextStart ==
  ASSUME NEW f \in [1 .. 7 -> Nat], NEW i \in 1 .. 7
  PROVE  /\ Sum(f, 1 .. i - 1) \in Nat
         /\ Sum(f, 1 .. i) = Sum(f, 1 .. i - 1) + f[i]
<1>0. i \in Nat /\ i \in Int /\ 1 \in Int
  OBVIOUS
<1>1. IsFiniteSet(1 .. i) /\ i \in 1 .. i /\ (1 .. i) \ {i} = 1 .. i - 1
  <2>1. IsFiniteSet(1 .. i)
    BY <1>0, FS_Interval
  <2>2. i \in 1 .. i /\ (1 .. i) \ {i} = 1 .. i - 1
    BY <1>0
  <2> QED
    BY <2>1, <2>2
<1>2. \A x \in 1 .. i : f[x] \in Nat
  OBVIOUS
<1>3. PICK S : S = 1 .. i
  OBVIOUS
<1>4. /\ Sum(f, S \ {i}) \in Nat
      /\ Sum(f, S) = Sum(f, S \ {i}) + f[i]
  BY <1>1, <1>2, <1>3, SumWithout
<1> QED
  BY <1>1, <1>3, <1>4

LEMMA TableIsAligned ==
  ASSUME NEW rows \in Seq(Row), rows # <<>>,
         NEW r \in DOMAIN render_streams(rows).starts, NEW i \in DOMAIN Header
  PROVE  /\ render_streams(rows).starts[r][i] = render_streams(rows).starts[1][i]
         /\ i + 1 \in DOMAIN Header =>
              render_streams(rows).starts[r][i]
                  + render_streams(rows).cells[r][i].chars
                < render_streams(rows).starts[r][i + 1]
<1>1. PICK table : table = Lines(rows)
  OBVIOUS
<1>2. IsTable(table) /\ r \in DOMAIN table /\ 1 \in DOMAIN table /\ i \in 1 .. 7
  <2>1. IsTable(table)
    BY <1>1, LinesAreTable
  <2> QED
    BY <1>1, <2>1, TableOfRows, HeaderIsText DEF IsTable
<1>3. PICK adv : adv = [j \in 1 .. 7 |-> Widths(table)[j] + 2]
  OBVIOUS
<1>4. Advance(table, r) = adv /\ Advance(table, 1) = adv
  BY <1>2, <1>3, LinesAdvanceAlike
<1>5. \A j \in 1 .. 7 : /\ render_streams(rows).starts[r][j] = Sum(adv, 1 .. j - 1)
                        /\ render_streams(rows).starts[1][j] = Sum(adv, 1 .. j - 1)
  <2> TAKE j \in 1 .. 7
  <2>1. /\ render_streams(rows).starts[r][j] = Sum(Advance(table, r), 1 .. j - 1)
        /\ render_streams(rows).starts[1][j] = Sum(Advance(table, 1), 1 .. j - 1)
    <3>1. /\ r \in DOMAIN Lines(rows) /\ 1 \in DOMAIN Lines(rows)
          /\ j \in DOMAIN Header
      BY <1>1, <1>2, HeaderIsText
    <3>2. \A l \in DOMAIN Lines(rows), k \in DOMAIN Header :
            render_streams(rows).starts[l][k] =
              Sum(Advance(Lines(rows), l), 1 .. k - 1)
      BY TableOfRows
    <3> HIDE DEF Sum
    <3> QED
      BY <1>1, <3>1, <3>2
  <2> QED
    BY <1>4, <2>1
<1>6. ASSUME i + 1 \in DOMAIN Header
      PROVE  render_streams(rows).starts[r][i]
                 + render_streams(rows).cells[r][i].chars
               < render_streams(rows).starts[r][i + 1]
  <2>1. i + 1 \in 1 .. 7 /\ (i + 1) - 1 = i
    BY <1>2, <1>6, HeaderIsText
  <2>2. adv \in [1 .. 7 -> Nat]
    <3>1. \A j \in 1 .. 7 : Widths(table)[j] \in Nat
      BY <1>2, CellsFit
    <3>2. \A j \in 1 .. 7 : Widths(table)[j] + 2 \in Nat
      <4>1. \A w \in Nat : w + 2 \in Nat
        OBVIOUS
      <4> QED
        BY <3>1, <4>1, Zenon
    <3> QED
      BY <1>3, <3>2, Zenon
  <2>3. Sum(adv, 1 .. i - 1) \in Nat /\ Sum(adv, 1 .. i) = Sum(adv, 1 .. i - 1) + adv[i]
    BY <1>2, <2>2, NextStart
  <2>4. render_streams(rows).starts[r][i] = Sum(adv, 1 .. i - 1)
    BY <1>2, <1>5
  <2>5. render_streams(rows).starts[r][i + 1] = Sum(adv, 1 .. i)
    BY <1>5, <2>1
  <2>6. PICK c, w : c = table[r][i].chars /\ w = Widths(table)[i]
    OBVIOUS
  <2>7. c \in Nat /\ w \in Nat /\ c <= w /\ adv[i] = w + 2
    BY <1>2, <1>3, <2>6, CellsFit
  <2>8. render_streams(rows).cells[r][i].chars = c
    BY <1>1, <2>6, TableOfRows
  <2> QED
    BY <2>3, <2>4, <2>5, <2>7, <2>8
<1> QED
  BY <1>2, <1>5, <1>6

\* In every table that is printed the columns line up and cells stand apart
\* (render_streams), for any number of rows and text of any kind.
THEOREM ColumnsAlwaysAligned == Spec => []ColumnsAligned
<1>1. ReplyShown => ColumnsAligned
  <2> SUFFICES ASSUME ReplyShown, ShowsTable,
                      NEW r \in DOMAIN printed.starts, NEW i \in DOMAIN Header
               PROVE  /\ printed.starts[r][i] = printed.starts[1][i]
                      /\ i + 1 \in DOMAIN Header =>
                           printed.starts[r][i] + printed.cells[r][i].chars
                             < printed.starts[r][i + 1]
    BY DEF ColumnsAligned
  <2>1. PICK rows : rows = Streams
    OBVIOUS
  <2>2. printed = render_streams(rows) /\ rows \in Seq(Row) /\ rows # <<>>
    BY <2>1, TableIsOfReply
  <2> QED
    BY <2>2, TableIsAligned
<1> QED
  BY <1>1, ReplyAlwaysShown, PTL

-----------------------------------------------------------------------------
(* Sequences joined. *)

\* Sequences joined one after the other: f[i] is the first i of them (FlattenSeq).
Joiner(f, s, n) ==
  f = [i \in 1 .. n |-> IF i = 1 THEN s[i] ELSE f[i - 1] \o s[i]]

\* The recursion of FlattenSeq goes through.
LEMMA JoinerExists ==
  ASSUME NEW s
  PROVE  \A n \in Nat : \E f : Joiner(f, s, n)
<1> DEFINE Bad == {n \in Nat : ~ \E f : Joiner(f, s, n)}
<1> SUFFICES ASSUME Bad # {} PROVE FALSE
  OBVIOUS
<1>1. PICK n \in Bad : \A l \in Bad : n <= l
  <2>1. Bad \in SUBSET Nat
    OBVIOUS
  <2> HIDE DEF Bad
  <2> QED
    BY <2>1, LeastNat
<1>2. n \in Nat
  OBVIOUS
<1>3. CASE n = 0
  <2>1. PICK f : f = [i \in 1 .. 0 |-> s[i]]
    OBVIOUS
  <2>2. 1 .. 0 = {}
    OBVIOUS
  <2>3. Joiner(f, s, 0)
    BY <2>1, <2>2, Zenon DEF Joiner
  <2> QED
    BY <2>3, <1>3
<1>4. CASE n # 0
  <2>1. n - 1 \in Nat /\ ~ (n <= n - 1)
    BY <1>2, <1>4
  <2>2. n - 1 \notin Bad
    BY <1>1, <2>1
  <2>3. PICK g : Joiner(g, s, n - 1)
    BY <2>1, <2>2
  <2>4. PICK f : f = [i \in 1 .. n |-> IF i = 1 THEN s[i] ELSE g[i - 1] \o s[i]]
    OBVIOUS
  <2>5. \A i \in 1 .. (n - 1) : f[i] = g[i]
    <3> TAKE i \in 1 .. (n - 1)
    <3>1. i \in 1 .. n
      BY <1>2
    <3>2. f[i] = IF i = 1 THEN s[i] ELSE g[i - 1] \o s[i]
      BY <2>4, <3>1
    <3>3. g[i] = IF i = 1 THEN s[i] ELSE g[i - 1] \o s[i]
      BY <2>3, Zenon DEF Joiner
    <3> QED
      BY <3>2, <3>3
  <2>6. \A i \in 1 .. n : i # 1 => i - 1 \in 1 .. (n - 1)
    BY <1>2
  <2>7. f = [i \in 1 .. n |-> IF i = 1 THEN s[i] ELSE f[i - 1] \o s[i]]
    <3>1. \A i \in 1 .. n : (IF i = 1 THEN s[i] ELSE g[i - 1] \o s[i])
                          = (IF i = 1 THEN s[i] ELSE f[i - 1] \o s[i])
      BY <2>5, <2>6
    <3> QED
      BY <2>4, <3>1, Zenon
  <2>8. Joiner(f, s, n)
    BY <2>7, Zenon DEF Joiner
  <2> QED
    BY <2>8
<1> QED
  BY <1>3, <1>4

LEMMA FlattenJoins ==
  ASSUME NEW s, Len(s) \in Nat \ {0}
  PROVE  \E f : Joiner(f, s, Len(s)) /\ FlattenSeq(s) = f[Len(s)]
<1>1. FlattenSeq(s) = (CHOOSE f : Joiner(f, s, Len(s)))[Len(s)]
  <2>1. Len(s) # 0
    OBVIOUS
  <2> QED
    BY <2>1, Zenon DEF FlattenSeq, Joiner
<1>2. \E f : Joiner(f, s, Len(s))
  BY JoinerExists
<1> QED
  BY <1>1, <1>2, Zenon


-----------------------------------------------------------------------------
(* The recursion of collect_kv. *)

\* The lines of one key, of all keys, and of a value, when L has those of the values
\* nested in it.
BlockOf(L, w, n, k) ==
  IF k \notin DOMAIN w.fields \/ (n \in {0} /\ k = "status") THEN <<>>
  ELSE IF w.fields[k].kind = "object"
    THEN <<[indent |-> n, key |-> k, header |-> TRUE]>> \o L[w.fields[k]][n + 1]
    ELSE <<[indent |-> n, key |-> k, header |-> FALSE, val |-> scalar(w.fields[k])]>>

BlocksOf(L, w, n) == [i \in DOMAIN KeyOrder |-> BlockOf(L, w, n, KeyOrder[i])]

BodyOf(L, w, n) ==
  IF w.kind # "object" THEN <<>> ELSE FlattenSeq(BlocksOf(L, w, n))

\* L has the lines of every value of S at every depth.
Fills(L, S) == L = [w \in S |-> [n \in Nat |-> BodyOf(L, w, n)]]

\* The values no deeper than d.
Shallow(d) == {w \in Values : Depth[w] <= d}

LEMMA FillsApply ==
  ASSUME NEW S, NEW L, Fills(L, S), NEW w \in S
  PROVE  L[w] = [n \in Nat |-> BodyOf(L, w, n)]
BY Zenon DEF Fills

\* The lines of a value depend on those of less deep values only.
LEMMA BodyAgrees ==
  ASSUME NEW w \in Values, NEW n \in Nat, NEW L, NEW M,
         \A c \in Values : Depth[c] < Depth[w] => L[c] = M[c]
  PROVE  BodyOf(L, w, n) = BodyOf(M, w, n)
<1>1. CASE w.kind # "object"
  BY <1>1 DEF BodyOf
<1>2. CASE w.kind = "object"
  <2>1. \A k : BlockOf(L, w, n, k) = BlockOf(M, w, n, k)
    <3> TAKE k
    <3>1. CASE k \in DOMAIN w.fields
      <4>1. w.fields[k] \in Values /\ Depth[w.fields[k]] < Depth[w]
        BY <1>2, <3>1, ValuesAssumption
      <4>2. L[w.fields[k]] = M[w.fields[k]]
        BY <4>1
      <4> QED
        BY <4>2 DEF BlockOf
    <3>2. CASE k \notin DOMAIN w.fields
      BY <3>2 DEF BlockOf
    <3> QED
      BY <3>1, <3>2
  <2>2. BlocksOf(L, w, n) = BlocksOf(M, w, n)
    BY <2>1 DEF BlocksOf
  <2> QED
    BY <2>2 DEF BodyOf
<1> QED
  BY <1>1, <1>2

\* So there is one way at most to have the lines of all values so deep,
LEMMA FillsAgree ==
  ASSUME NEW d \in Nat, NEW T \in SUBSET Values, Shallow(d) \subseteq T,
         NEW L, Fills(L, Shallow(d)), NEW M, Fills(M, T)
  PROVE  \A w \in Shallow(d) : L[w] = M[w]
<1> DEFINE Bad == {Depth[w] : w \in {x \in Shallow(d) : L[x] # M[x]}}
<1> SUFFICES ASSUME Bad # {} PROVE FALSE
  OBVIOUS
<1>0. Depth \in [Values -> Nat]
  BY ValuesAssumption
<1>1. PICK m \in Bad : \A l \in Bad : m <= l
  <2>1. Bad \in SUBSET Nat
    BY <1>0 DEF Shallow
  <2> HIDE DEF Bad
  <2> QED
    BY <2>1, LeastNat
<1>2. PICK w \in Shallow(d) : L[w] # M[w] /\ m = Depth[w]
  OBVIOUS
<1>3. w \in Values /\ Depth[w] \in Nat /\ Depth[w] <= d /\ w \in T
  BY <1>0 DEF Shallow
<1>4. ASSUME NEW c \in Values, Depth[c] < Depth[w] PROVE L[c] = M[c]
  <2>1. Depth[c] \in Nat /\ c \in Shallow(d)
    BY <1>0, <1>3, <1>4 DEF Shallow
  <2>2. Depth[c] \notin Bad
    BY <1>1, <1>2, <1>3, <1>4, <2>1
  <2> QED
    BY <2>1, <2>2
<1>5. \A n \in Nat : BodyOf(L, w, n) = BodyOf(M, w, n)
  BY <1>3, <1>4, BodyAgrees
<1>6. L[w] = [n \in Nat |-> BodyOf(L, w, n)] /\ M[w] = [n \in Nat |-> BodyOf(M, w, n)]
  BY <1>2, <1>3, FillsApply
<1> QED
  BY <1>2, <1>5, <1>6

\* there is one for each depth,
LEMMA ShallowFilled ==
  \A d \in Nat : \E L : Fills(L, Shallow(d))
<1> DEFINE Bad == {d \in Nat : ~ \E L : Fills(L, Shallow(d))}
<1> SUFFICES ASSUME Bad # {} PROVE FALSE
  OBVIOUS
<1>0. Depth \in [Values -> Nat]
  BY ValuesAssumption
<1>1. PICK d \in Bad : \A l \in Bad : d <= l
  <2>1. Bad \in SUBSET Nat
    OBVIOUS
  <2> HIDE DEF Bad
  <2> QED
    BY <2>1, LeastNat
<1>2. d \in Nat
  OBVIOUS
<1>3. PICK M : \A w \in Shallow(d), c \in Values :
                 Depth[c] < Depth[w] => M[c] = [n \in Nat |-> BodyOf(M, c, n)]
  <2>1. CASE d = 0
    BY <2>1, <1>0 DEF Shallow
  <2>2. CASE d # 0
    <3>1. d - 1 \in Nat /\ ~ (d <= d - 1)
      BY <1>2, <2>2
    <3>2. d - 1 \notin Bad
      BY <1>1, <3>1
    <3>3. PICK M : Fills(M, Shallow(d - 1))
      BY <3>1, <3>2
    <3>4. ASSUME NEW w \in Shallow(d), NEW c \in Values, Depth[c] < Depth[w]
          PROVE  M[c] = [n \in Nat |-> BodyOf(M, c, n)]
      <4>1. c \in Shallow(d - 1)
        BY <1>0, <1>2, <3>4 DEF Shallow
      <4> QED
        BY <3>3, <4>1, FillsApply
    <3> QED
      BY <3>4
  <2> QED
    BY <2>1, <2>2
<1>4. PICK L : L = [w \in Shallow(d) |-> [n \in Nat |-> BodyOf(M, w, n)]]
  OBVIOUS
<1>5. ASSUME NEW w \in Shallow(d), NEW n \in Nat
      PROVE  BodyOf(M, w, n) = BodyOf(L, w, n)
  <2>1. w \in Values /\ Depth[w] \in Nat /\ Depth[w] <= d
    BY <1>0 DEF Shallow
  <2>2. ASSUME NEW c \in Values, Depth[c] < Depth[w] PROVE M[c] = L[c]
    <3>1. c \in Shallow(d)
      BY <1>0, <1>2, <2>1, <2>2 DEF Shallow
    <3> QED
      BY <1>3, <1>4, <2>2, <3>1
  <2> QED
    BY <2>1, <2>2, BodyAgrees
<1>6. L = [w \in Shallow(d) |-> [n \in Nat |-> BodyOf(L, w, n)]]
  BY <1>4, <1>5
<1>7. Fills(L, Shallow(d))
  BY <1>6, Zenon DEF Fills
<1> QED
  BY <1>7

\* and together they have the lines of all values: the recursion of collect_kv ends.
KvLines == CHOOSE L : Fills(L, Values)

LEMMA KvLinesFilled == Fills(KvLines, Values)
<1>0. Depth \in [Values -> Nat]
  BY ValuesAssumption
<1> DEFINE Part(w) == CHOOSE L : Fills(L, Shallow(Depth[w]))
<1>1. ASSUME NEW w \in Values
      PROVE  Fills(Part(w), Shallow(Depth[w])) /\ w \in Shallow(Depth[w])
  <2>1. \E L : Fills(L, Shallow(Depth[w]))
    BY <1>0, ShallowFilled
  <2>2. w \in Shallow(Depth[w])
    BY <1>0 DEF Shallow
  <2> QED
    BY <2>1, <2>2, Zenon
<1> HIDE DEF Part
<1>2. PICK L : L = [w \in Values |-> Part(w)[w]]
  OBVIOUS
<1>3. ASSUME NEW w \in Values
      PROVE  L[w] = [n \in Nat |-> BodyOf(L, w, n)]
  <2>1. ASSUME NEW c \in Values, Depth[c] < Depth[w] PROVE Part(w)[c] = L[c]
    <3>1. Shallow(Depth[c]) \subseteq Shallow(Depth[w]) /\ Depth[c] \in Nat
      BY <1>0, <2>1 DEF Shallow
    <3>2. Shallow(Depth[w]) \in SUBSET Values
      BY DEF Shallow
    <3>3. Part(c)[c] = Part(w)[c]
      <4>1. Fills(Part(c), Shallow(Depth[c])) /\ c \in Shallow(Depth[c])
        BY <1>1
      <4>2. Fills(Part(w), Shallow(Depth[w]))
        BY <1>1
      <4>3. \A x \in Shallow(Depth[c]) : Part(c)[x] = Part(w)[x]
        BY <4>1, <4>2, <3>1, <3>2, FillsAgree
      <4> QED
        BY <4>1, <4>3
    <3> QED
      BY <1>2, <3>3
  <2>2. \A n \in Nat : BodyOf(Part(w), w, n) = BodyOf(L, w, n)
    BY <2>1, BodyAgrees
  <2>3. Part(w)[w] = [n \in Nat |-> BodyOf(Part(w), w, n)]
    BY <1>1, FillsApply
  <2> QED
    BY <1>2, <2>2, <2>3
<1>4. L = [w \in Values |-> [n \in Nat |-> BodyOf(L, w, n)]]
  <2>1. L = [w \in Values |-> L[w]]
    BY <1>2
  <2> QED
    BY <2>1, <1>3
<1>5. Fills(L, Values)
  BY <1>4, Zenon DEF Fills
<1> QED
  BY <1>5, Zenon DEF KvLines

\* collect_kv is that recursion, and its result is known by its equation.
LEMMA CollectsLines ==
  ASSUME NEW v, NEW n
  PROVE  collect_kv(v, n) = KvLines[v][n]
BY DEF collect_kv, Flattened, KvLines, Fills, BodyOf, BlocksOf, BlockOf

LEMMA KvLinesAre ==
  ASSUME NEW v \in Values, NEW n \in Nat
  PROVE  KvLines[v][n] = BodyOf(KvLines, v, n)
<1>1. KvLines[v] = [m \in Nat |-> BodyOf(KvLines, v, m)]
  BY KvLinesFilled, FillsApply
<1> QED
  BY <1>1

\* Sequences over Y, joined, make a sequence over Y.
LEMMA JoinerType ==
  ASSUME NEW Y, NEW s, NEW n \in Nat, NEW f, Joiner(f, s, n),
         \A i \in 1 .. n : s[i] \in Seq(Y)
  PROVE  \A i \in 1 .. n : f[i] \in Seq(Y)
<1> DEFINE Bad == {i \in 1 .. n : f[i] \notin Seq(Y)}
<1>1. \A i \in 1 .. n : f[i] = IF i = 1 THEN s[i] ELSE f[i - 1] \o s[i]
  BY Zenon DEF Joiner
<1>2. Bad = {}
  <2> SUFFICES ASSUME Bad # {} PROVE FALSE
    OBVIOUS
  <2>1. Bad \in SUBSET Nat
    OBVIOUS
  <2>2. PICK i \in Bad : \A l \in Bad : i <= l
    <3> HIDE DEF Bad
    <3> QED
      BY <2>1, LeastNat
  <2>3. i \in 1 .. n /\ f[i] \notin Seq(Y)
    OBVIOUS
  <2>4. i # 1
    BY <1>1, <2>3
  <2>5. i - 1 \in 1 .. n /\ ~ (i <= i - 1)
    BY <2>3, <2>4
  <2>6. i - 1 \notin Bad
    BY <2>2, <2>5
  <2>7. f[i - 1] \in Seq(Y) /\ s[i] \in Seq(Y)
    BY <2>3, <2>5, <2>6
  <2>8. f[i] = f[i - 1] \o s[i]
    BY <1>1, <2>3, <2>4
  <2> QED
    BY <2>3, <2>7, <2>8
<1> QED
  BY <1>2

\* The lines there are: headers, and keys with their values.
HeaderLine == [indent : Nat, key : DOMAIN KeyLen, header : {TRUE}]
ValueLine ==
  [indent : Nat, key : DOMAIN KeyLen, header : {FALSE},
   val : {scalar(v) : v \in Values}]
LineSet == HeaderLine \cup ValueLine

\* Those at a depth of n or more.
Deep(n) == {l \in LineSet : l.indent >= n}

LEMMA LineType ==
  \A x \in LineSet : x.indent \in Nat /\ x.key \in DOMAIN KeyLen
<1>1. \A x \in HeaderLine : x.indent \in Nat /\ x.key \in DOMAIN KeyLen
  BY Zenon DEF HeaderLine
<1>2. \A x \in ValueLine : x.indent \in Nat /\ x.key \in DOMAIN KeyLen
  BY Zenon DEF ValueLine
<1> QED
  BY <1>1, <1>2 DEF LineSet

\* A block b of lines for the i-th key at depth n.
IsBlock(b, n, i) ==
  /\ b \in Seq(Deep(n))
  /\ b # <<>> => b[1].indent = n
  /\ \A j \in 1 .. Len(b) : b[j].indent = n => b[j].key = KeyOrder[i]

LEMMA BlockIsBlock ==
  ASSUME NEW w \in Values, w.kind = "object", NEW n \in Nat, NEW i \in DOMAIN KeyOrder,
         \A c \in Values : Depth[c] < Depth[w] => KvLines[c][n + 1] \in Seq(Deep(n + 1))
  PROVE  IsBlock(BlockOf(KvLines, w, n, KeyOrder[i]), n, i)
<1>1. PICK k : k = KeyOrder[i]
  OBVIOUS
<1>2. k \in DOMAIN KeyLen
  BY <1>1, KeysAssumption
<1>3. CASE k \notin DOMAIN w.fields \/ (n \in {0} /\ k = "status")
  BY <1>1, <1>3 DEF BlockOf, IsBlock
<1>4. ASSUME k \in DOMAIN w.fields, ~ (n \in {0} /\ k = "status") 
      PROVE  IsBlock(BlockOf(KvLines, w, n, KeyOrder[i]), n, i)
  <2>1. PICK c : c = w.fields[k]
    OBVIOUS
  <2>2. c \in Values /\ Depth[c] < Depth[w]
    BY <1>4, <2>1, ValuesAssumption
  <2>3. CASE c.kind = "object"
    <3>1. PICK l : l = [indent |-> n, key |-> k, header |-> TRUE]
      OBVIOUS
    <3>2. PICK r : r = KvLines[c][n + 1]
      OBVIOUS
    <3>3. BlockOf(KvLines, w, n, KeyOrder[i]) = <<l>> \o r
      BY <1>1, <1>4, <2>1, <2>3, <3>1, <3>2 DEF BlockOf
    <3>4. l \in Deep(n) /\ l.indent = n /\ l.key = k
      <4>1. l \in HeaderLine
        BY <1>2, <3>1, Zenon DEF HeaderLine
      <4>2. l.indent = n /\ l.key = k
        BY <3>1
      <4>3. l \in LineSet
        BY <4>1, Zenon DEF LineSet
      <4> QED
        BY <4>2, <4>3 DEF Deep
    <3>5. r \in Seq(Deep(n + 1))
      BY <2>2, <3>2
    <3>6. \A x \in Deep(n + 1) : x \in Deep(n) /\ x.indent # n
      BY LineType DEF Deep
    <3>7. r \in Seq(Deep(n))
      BY <3>5, <3>6
    <3>8. <<l>> \o r \in Seq(Deep(n))
      BY <3>4, <3>7
    <3>9. /\ (<<l>> \o r)[1] = l
          /\ \A j \in 1 .. Len(<<l>> \o r) :
               (<<l>> \o r)[j] = l \/ (<<l>> \o r)[j] \in Deep(n + 1)
      BY <3>4, <3>5
    <3> QED
      BY <1>1, <3>3, <3>4, <3>6, <3>8, <3>9 DEF IsBlock
  <2>4. CASE c.kind # "object"
    <3>1. PICK l : l = [indent |-> n, key |-> k, header |-> FALSE, val |-> scalar(c)]
      OBVIOUS
    <3>2. BlockOf(KvLines, w, n, KeyOrder[i]) = <<l>>
      BY <1>1, <1>4, <2>1, <2>4, <3>1 DEF BlockOf
    <3>3. l \in Deep(n) /\ l.indent = n /\ l.key = k
      <4>0. scalar(c) \in {scalar(v) : v \in Values}
        BY <2>2
      <4>1. l \in ValueLine
        BY <1>2, <4>0, <3>1, Zenon DEF ValueLine
      <4>2. l.indent = n /\ l.key = k
        BY <3>1
      <4>3. l \in LineSet
        BY <4>1, Zenon DEF LineSet
      <4> QED
        BY <4>2, <4>3 DEF Deep
    <3> QED
      BY <1>1, <3>2, <3>3 DEF IsBlock
  <2> QED
    BY <2>3, <2>4
<1> QED
  BY <1>3, <1>4

\* The lines of an object are its blocks joined.
LEMMA BodyJoins ==
  ASSUME NEW w \in Values, w.kind = "object", NEW n \in Nat
  PROVE  /\ Len(KeyOrder) \in Nat \ {0} /\ DOMAIN KeyOrder = 1 .. Len(KeyOrder)
         /\ \E f : /\ Joiner(f, BlocksOf(KvLines, w, n), Len(KeyOrder))
                   /\ KvLines[w][n] = f[Len(KeyOrder)]
<1>1. /\ KeyOrder \in Seq(DOMAIN KeyLen)
      /\ Len(KeyOrder) \in Nat \ {0} /\ DOMAIN KeyOrder = 1 .. Len(KeyOrder)
  BY KeysAssumption
<1>2. PICK s : s = BlocksOf(KvLines, w, n)
  OBVIOUS
<1>3. Len(s) = Len(KeyOrder)
  BY <1>1, <1>2 DEF BlocksOf
<1>4. KvLines[w][n] = FlattenSeq(s)
  BY <1>2, KvLinesAre DEF BodyOf
<1>5. \E f : Joiner(f, s, Len(s)) /\ FlattenSeq(s) = f[Len(s)]
  BY <1>1, <1>3, FlattenJoins
<1> QED
  BY <1>1, <1>2, <1>3, <1>4, <1>5

\* collect_kv yields lines, none of them further out than asked for.
LEMMA KvLinesType ==
  \A w \in Values, n \in Nat : KvLines[w][n] \in Seq(Deep(n))
<1> DEFINE Odd == {x \in Values : \E n \in Nat : KvLines[x][n] \notin Seq(Deep(n))}
           Bad == {Depth[w] : w \in Odd}
<1> SUFFICES ASSUME Bad # {} PROVE FALSE
  OBVIOUS
<1>0. Depth \in [Values -> Nat]
  BY ValuesAssumption
<1>1. PICK m \in Bad : \A l \in Bad : m <= l
  <2>1. Bad \in SUBSET Nat
    BY <1>0
  <2> HIDE DEF Bad
  <2> QED
    BY <2>1, LeastNat
<1>2. PICK w \in Values, n \in Nat : m = Depth[w] /\ KvLines[w][n] \notin Seq(Deep(n))
  OBVIOUS
<1>3. ASSUME NEW c \in Values, Depth[c] < Depth[w], NEW e \in Nat
      PROVE  KvLines[c][e] \in Seq(Deep(e))
  <2>1. Depth[c] \notin Bad
    <3>1. Depth[c] \in Nat /\ Depth[w] \in Nat
      BY <1>0
    <3> HIDE DEF Bad
    <3> QED
      BY <1>1, <1>2, <1>3, <3>1
  <2> QED
    BY <2>1
<1>4. CASE w.kind # "object"
  <2>1. KvLines[w][n] = <<>>
    BY <1>4, KvLinesAre DEF BodyOf
  <2> QED
    BY <1>2, <2>1
<1>5. CASE w.kind = "object"
  <2>1. PICK f : /\ Joiner(f, BlocksOf(KvLines, w, n), Len(KeyOrder))
                 /\ KvLines[w][n] = f[Len(KeyOrder)]
    BY <1>5, BodyJoins
  <2>2. Len(KeyOrder) \in Nat \ {0} /\ DOMAIN KeyOrder = 1 .. Len(KeyOrder)
    BY <1>5, BodyJoins
  <2>3. \A i \in 1 .. Len(KeyOrder) : IsBlock(BlockOf(KvLines, w, n, KeyOrder[i]), n, i)
    <3>1. \A c \in Values :
            Depth[c] < Depth[w] => KvLines[c][n + 1] \in Seq(Deep(n + 1))
      BY <1>3
    <3> QED
      BY <1>5, <2>2, <3>1, BlockIsBlock
  <2>4. \A i \in 1 .. Len(KeyOrder) : BlocksOf(KvLines, w, n)[i] \in Seq(Deep(n))
    BY <2>2, <2>3 DEF BlocksOf, IsBlock
  <2>5. f[Len(KeyOrder)] \in Seq(Deep(n))
    BY <2>1, <2>2, <2>4, JoinerType
  <2> QED
    BY <1>2, <2>1, <2>5
<1> QED
  BY <1>4, <1>5

-----------------------------------------------------------------------------
(* The column of keys. *)

LEMMA KeyWidthType ==
  ASSUME NEW x \in LineSet
  PROVE  KeyWidth(x) \in Nat
<1>1. PICK n, k : n = x.indent /\ k = KeyLen[x.key]
  OBVIOUS
<1>2. n \in Nat /\ k \in Nat
  BY <1>1, LineType, KeysAssumption
<1> QED
  BY <1>1, <1>2 DEF KeyWidth

\* No key is wider than the column of keys, so padding fills each up to it.
LEMMA KeyColumn ==
  ASSUME NEW lines \in Seq(LineSet), NEW i \in DOMAIN lines, ~ lines[i].header
  PROVE  /\ Padded(KeyWidth(lines[i]), key_width(lines)) = key_width(lines)
         /\ key_width(lines) \in Nat
<1> DEFINE valued == {j \in DOMAIN lines : ~ lines[j].header}
           widths == {KeyWidth(lines[j]) : j \in valued}
<1>0. PICK W : W = {0} \cup widths
  OBVIOUS
<1>1. \A j \in DOMAIN lines : KeyWidth(lines[j]) \in Nat
  BY KeyWidthType
<1>2. W \in SUBSET Nat /\ W # {} /\ KeyWidth(lines[i]) \in W
  BY <1>0, <1>1
<1>3. IsFiniteSet(W)
  <2>1. IsFiniteSet(valued)
    <3>1. Len(lines) \in Nat /\ DOMAIN lines = 1 .. Len(lines)
      OBVIOUS
    <3>2. IsFiniteSet(1 .. Len(lines))
      BY <3>1, FS_Interval
    <3>3. valued \in SUBSET (1 .. Len(lines))
      BY <3>1
    <3> QED
      BY <3>2, <3>3, FS_Subset
  <2>2. PICK f : f = [j \in valued |-> KeyWidth(lines[j])]
    OBVIOUS
  <2>3. f \in Surjection(valued, widths)
    BY <2>2 DEF Surjection
  <2>4. IsFiniteSet(widths)
    <3> HIDE DEF valued, widths
    <3> QED
      BY <2>1, <2>3, FS_Surjection
  <2>5. IsFiniteSet(widths \cup {0})
    <3> HIDE DEF widths
    <3> QED
      BY <2>4, FS_AddElement
  <2> QED
    BY <1>0, <2>5
<1>4. PICK w : w = key_width(lines)
  OBVIOUS
<1>5. w = Max(W)
  BY <1>0, <1>4, Zenon DEF key_width
<1>6. PICK c : c = KeyWidth(lines[i])
  OBVIOUS
<1>7. w \in Nat /\ c \in Nat /\ c <= w
  BY <1>2, <1>3, <1>5, <1>6, MaxIsGreatest
<1>8. Max({c, w}) = w
  <2>1. \E x \in {c, w} : \A y \in {c, w} : x >= y
    BY <1>7
  <2>2. Max({c, w}) \in {c, w} /\ \A y \in {c, w} : Max({c, w}) >= y
    BY <2>1 DEF Max
  <2> QED
    BY <1>7, <2>2
<1> QED
  BY <1>4, <1>6, <1>7, <1>8 DEF Padded

\* Every value stands in the column after the widest key.
LEMMA KvIsAligned ==
  ASSUME NEW v \in Values, render_kv(v).view = "kv",
         NEW i \in DOMAIN render_kv(v).starts, NEW j \in DOMAIN render_kv(v).starts
  PROVE  render_kv(v).starts[i] = render_kv(v).starts[j]
<1>1. PICK lines : lines = collect_kv(v, 0)
  OBVIOUS
<1>2. lines \in Seq(LineSet)
  <2>1. lines = KvLines[v][0]
    BY <1>1, CollectsLines
  <2>2. lines \in Seq(Deep(0))
    BY <2>1, KvLinesType
  <2>3. Deep(0) \subseteq LineSet
    BY DEF Deep
  <2> QED
    BY <2>2, <2>3
<1>3. lines # <<>>
  BY <1>1 DEF render_kv
<1>4. PICK valued : valued = {l \in DOMAIN lines : ~ lines[l].header}
  OBVIOUS
<1>5. render_kv(v).starts =
        [l \in valued |-> Padded(KeyWidth(lines[l]), key_width(lines)) + 3]
  <2>1. render_kv(v) =
          [view |-> "kv", lines |-> lines,
           starts |-> [l \in valued |->
                         Padded(KeyWidth(lines[l]), key_width(lines)) + 3]]
    BY <1>1, <1>3, <1>4, Zenon DEF render_kv
  <2> QED
    BY <2>1
<1>6. \A l \in valued : render_kv(v).starts[l] = key_width(lines) + 3
  BY <1>2, <1>4, <1>5, KeyColumn
<1>7. i \in valued /\ j \in valued
  BY <1>5
<1> QED
  BY <1>6, <1>7

-----------------------------------------------------------------------------
(* What lines tell. *)

\* The blocks s of all keys, joined one after the other as f.
LaidOut(f, s, n, m) ==
  Joiner(f, s, m) /\ \A i \in 1 .. m : IsBlock(s[i], n, i)

\* Blocks joined up to the i-th have at depth n none but the first i keys.
LEMMA JoinedKeys ==
  ASSUME NEW n \in Nat, NEW m \in Nat, NEW s, NEW f, LaidOut(f, s, n, m)
  PROVE  \A i \in 1 .. m : \A l \in 1 .. Len(f[i]) :
           f[i][l].indent = n => \E j \in 1 .. i : f[i][l].key = KeyOrder[j]
<1> DEFINE Known(i) == \A l \in 1 .. Len(f[i]) :
             f[i][l].indent = n => \E j \in 1 .. i : f[i][l].key = KeyOrder[j]
           Bad == {i \in 1 .. m : ~ Known(i)}
<1>1. \A i \in 1 .. m : f[i] = IF i = 1 THEN s[i] ELSE f[i - 1] \o s[i]
  BY Zenon DEF LaidOut, Joiner
<1>2. \A i \in 1 .. m : s[i] \in Seq(Deep(n)) /\ f[i] \in Seq(Deep(n))
  <2>1. \A i \in 1 .. m : s[i] \in Seq(Deep(n))
    BY DEF IsBlock, LaidOut
  <2> QED
    BY <2>1, JoinerType DEF LaidOut
<1>3. Bad = {}
  <2> SUFFICES ASSUME Bad # {} PROVE FALSE
    OBVIOUS
  <2>1. PICK i \in Bad : \A l \in Bad : i <= l
    <3>1. Bad \in SUBSET Nat
      OBVIOUS
    <3> HIDE DEF Bad
    <3> QED
      BY <3>1, LeastNat
  <2>2. i \in 1 .. m /\ ~ Known(i)
    OBVIOUS
  <2>3. PICK l \in 1 .. Len(f[i]) :
          f[i][l].indent = n /\ \A j \in 1 .. i : f[i][l].key # KeyOrder[j]
    BY <2>2
  <2>4. i \in 1 .. i
    BY <2>2
  <2>5. CASE i = 1
    <3>1. f[i] = s[i]
      BY <1>1, <2>2, <2>5
    <3> QED
      BY <2>2, <2>3, <2>4, <3>1 DEF IsBlock, LaidOut
  <2>6. CASE i # 1
    <3>1. i - 1 \in 1 .. m /\ ~ (i <= i - 1)
      BY <2>2, <2>6
    <3>2. i - 1 \notin Bad
      BY <2>1, <3>1
    <3>3. Known(i - 1)
      BY <3>1, <3>2
    <3>4. f[i] = f[i - 1] \o s[i]
      BY <1>1, <2>2, <2>6
    <3>5. PICK a, b : a = f[i - 1] /\ b = s[i]
      OBVIOUS
    <3>6. a \in Seq(Deep(n)) /\ b \in Seq(Deep(n))
      BY <1>2, <2>2, <3>1, <3>5
    <3>7. CASE l <= Len(a)
      <4>1. l \in 1 .. Len(a) /\ f[i][l] = a[l]
        BY <2>3, <3>4, <3>5, <3>6, <3>7
      <4>2. \E j \in 1 .. (i - 1) : a[l].key = KeyOrder[j]
        BY <2>3, <3>3, <3>5, <4>1
      <4>3. \A j \in 1 .. (i - 1) : j \in 1 .. i
        BY <2>2
      <4> QED
        BY <2>3, <4>1, <4>2, <4>3
    <3>8. CASE ~ (l <= Len(a))
      <4>1. l - Len(a) \in 1 .. Len(b) /\ f[i][l] = b[l - Len(a)]
        <5>1. f[i] = a \o b
          BY <3>4, <3>5
        <5>2. l \in 1 .. (Len(a) + Len(b))
          BY <2>3, <3>6, <5>1, ConcatProperties
        <5>3. Len(a) \in Nat /\ Len(b) \in Nat
          BY <3>6
        <5>4. (a \o b)[l] = b[l - Len(a)]
          BY <3>6, <3>8, <5>2, ConcatProperties
        <5> QED
          BY <3>8, <5>1, <5>2, <5>3, <5>4
      <4>2. b[l - Len(a)].indent = n => b[l - Len(a)].key = KeyOrder[i]
        BY <2>2, <3>5, <4>1 DEF IsBlock, LaidOut
      <4> QED
        BY <2>3, <2>4, <4>1, <4>2
    <3> QED
      BY <3>7, <3>8
  <2> QED
    BY <2>5, <2>6
<1> QED
  BY <1>3

\* A block that begins with its key cannot begin within lines without that key.
LEMMA JoinedLonger ==
  ASSUME NEW n \in Nat, NEW i, NEW a \in Seq(Deep(n)), NEW b \in Seq(Deep(n)),
         NEW c \in Seq(Deep(n)), NEW d \in Seq(Deep(n)),
         IsBlock(b, n, i), a \o b = c \o d,
         \A l \in 1 .. Len(c) : c[l].indent = n => c[l].key # KeyOrder[i]
  PROVE  ~ (Len(a) < Len(c))
<1> SUFFICES ASSUME Len(a) < Len(c) PROVE FALSE
  OBVIOUS
<1>1. Len(a \o b) = Len(a) + Len(b) /\ Len(c \o d) = Len(c) + Len(d)
  OBVIOUS
<1>2. Len(b) > 0
  BY <1>1
<1>3. (a \o b)[Len(a) + 1] = b[1]
  BY <1>2
<1>4. (c \o d)[Len(a) + 1] = c[Len(a) + 1] /\ Len(a) + 1 \in 1 .. Len(c)
  OBVIOUS
<1>5. b[1].indent = n /\ b[1].key = KeyOrder[i]
  <2>1. b # <<>> /\ 1 \in 1 .. Len(b)
    BY <1>2
  <2> QED
    BY <2>1 DEF IsBlock
<1> QED
  BY <1>3, <1>4, <1>5

LEMMA SameSplit ==
  ASSUME NEW Y, NEW a \in Seq(Y), NEW b \in Seq(Y), NEW c \in Seq(Y), NEW d \in Seq(Y),
         Len(a) = Len(c), a \o b = c \o d
  PROVE  a = c /\ b = d
<1>1. Len(a \o b) = Len(a) + Len(b) /\ Len(c \o d) = Len(c) + Len(d)
  BY ConcatProperties
<1>2. Len(b) = Len(d)
  BY <1>1
<1>3. \A l \in 1 .. Len(a) : (a \o b)[l] = a[l] /\ (c \o d)[l] = c[l]
  OBVIOUS
<1>4. \A l \in 1 .. Len(b) : (a \o b)[Len(a) + l] = b[l] /\ (c \o d)[Len(a) + l] = d[l]
  <2> TAKE l \in 1 .. Len(b)
  <2>1. /\ Len(a) \in Nat /\ Len(b) \in Nat /\ l \in Nat
        /\ Len(a) + l \in 1 .. (Len(a) + Len(b)) /\ ~ (Len(a) + l <= Len(a))
        /\ (Len(a) + l) - Len(a) = l
    OBVIOUS
  <2>2. (a \o b)[Len(a) + l] = b[l]
    BY <2>1, ConcatProperties
  <2>3. (c \o d)[Len(c) + l] = d[l]
    BY <1>2, <2>1, ConcatProperties
  <2> QED
    BY <2>2, <2>3
<1>5. a = c
  BY <1>3
<1>6. b = d
  BY <1>2, <1>4
<1> QED
  BY <1>5, <1>6

\* Where the lines up to the i-th key are the same, its block is and so are the lines
\* before it.
LEMMA LastBlocksAlike ==
  ASSUME NEW n \in Nat, NEW m \in Nat, DOMAIN KeyOrder = 1 .. m,
         NEW s, NEW f, LaidOut(f, s, n, m),
         NEW t, NEW g, LaidOut(g, t, n, m),
         NEW i \in 1 .. m, f[i] = g[i]
  PROVE  s[i] = t[i] /\ (i # 1 => f[i - 1] = g[i - 1])
<1>1. /\ f[i] = IF i = 1 THEN s[i] ELSE f[i - 1] \o s[i]
      /\ g[i] = IF i = 1 THEN t[i] ELSE g[i - 1] \o t[i]
  BY Zenon DEF LaidOut, Joiner
<1>2. CASE i = 1
  BY <1>1, <1>2
<1>3. CASE i # 1
  <2>1. PICK a, b, c, d : a = f[i - 1] /\ b = s[i] /\ c = g[i - 1] /\ d = t[i]
    OBVIOUS
  <2>2. i - 1 \in 1 .. m
    BY <1>3
  <2>3. /\ \A j \in 1 .. m : s[j] \in Seq(Deep(n)) /\ t[j] \in Seq(Deep(n))
        /\ \A j \in 1 .. m : f[j] \in Seq(Deep(n)) /\ g[j] \in Seq(Deep(n))
    <3>1. \A j \in 1 .. m : s[j] \in Seq(Deep(n)) /\ t[j] \in Seq(Deep(n))
      BY DEF IsBlock, LaidOut
    <3>2. \A j \in 1 .. m : f[j] \in Seq(Deep(n))
      BY <3>1, JoinerType DEF LaidOut
    <3>3. \A j \in 1 .. m : g[j] \in Seq(Deep(n))
      BY <3>1, JoinerType DEF LaidOut
    <3> QED
      BY <3>1, <3>2, <3>3
  <2>4. /\ a \in Seq(Deep(n)) /\ b \in Seq(Deep(n))
        /\ c \in Seq(Deep(n)) /\ d \in Seq(Deep(n))
    BY <2>1, <2>2, <2>3
  <2>5. a \o b = c \o d
    BY <1>1, <1>3, <2>1
  <2>6. \A j \in 1 .. (i - 1) : KeyOrder[j] # KeyOrder[i]
    BY KeysAssumption
  <2>7. \A l \in 1 .. Len(a) : a[l].indent = n => a[l].key # KeyOrder[i]
    <3>1. \A j \in 1 .. m : \A l \in 1 .. Len(f[j]) :
            f[j][l].indent = n => \E h \in 1 .. j : f[j][l].key = KeyOrder[h]
      BY JoinedKeys
    <3> QED
      BY <2>1, <2>2, <2>6, <3>1
  <2>8. \A l \in 1 .. Len(c) : c[l].indent = n => c[l].key # KeyOrder[i]
    <3>1. \A j \in 1 .. m : \A l \in 1 .. Len(g[j]) :
            g[j][l].indent = n => \E h \in 1 .. j : g[j][l].key = KeyOrder[h]
      BY JoinedKeys
    <3> QED
      BY <2>1, <2>2, <2>6, <3>1
  <2>9. IsBlock(b, n, i) /\ IsBlock(d, n, i)
    BY <2>1 DEF LaidOut
  <2>10. ~ (Len(a) < Len(c))
    BY <2>4, <2>5, <2>8, <2>9, JoinedLonger
  <2>11. ~ (Len(c) < Len(a))
    BY <2>4, <2>5, <2>7, <2>9, JoinedLonger
  <2>12. Len(a) = Len(c)
    BY <2>4, <2>10, <2>11
  <2>13. a = c /\ b = d
    BY <2>4, <2>5, <2>12, SameSplit
  <2> QED
    BY <2>1, <2>13
<1> QED
  BY <1>2, <1>3

\* The same lines are the same blocks: where each begins can be read off the lines.
LEMMA BlocksAlike ==
  ASSUME NEW n \in Nat, NEW m \in Nat, DOMAIN KeyOrder = 1 .. m,
         NEW s, NEW f, LaidOut(f, s, n, m),
         NEW t, NEW g, LaidOut(g, t, n, m),
         f[m] = g[m]
  PROVE  \A i \in 1 .. m : s[i] = t[i]
<1> DEFINE Bad == {k \in 0 .. (m - 1) : f[m - k] # g[m - k]}
<1>1. Bad = {}
  <2> SUFFICES ASSUME Bad # {} PROVE FALSE
    OBVIOUS
  <2>1. PICK k \in Bad : \A l \in Bad : k <= l
    <3>1. Bad \in SUBSET Nat
      OBVIOUS
    <3> HIDE DEF Bad
    <3> QED
      BY <3>1, LeastNat
  <2>2. k \in 0 .. (m - 1) /\ f[m - k] # g[m - k]
    OBVIOUS
  <2>3. k # 0
    BY <2>2
  <2>4. k - 1 \in 0 .. (m - 1) /\ ~ (k <= k - 1) /\ m - (k - 1) \in 1 .. m
        /\ m - (k - 1) # 1 /\ (m - (k - 1)) - 1 = m - k
    BY <2>2, <2>3
  <2>5. k - 1 \notin Bad
    BY <2>1, <2>4
  <2>6. PICK i : i = m - (k - 1)
    OBVIOUS
  <2>7. f[i] = g[i]
    BY <2>4, <2>5, <2>6
  <2>8. f[i - 1] = g[i - 1]
    <3>1. i \in 1 .. m /\ i # 1
      BY <2>4, <2>6
    <3> QED
      BY <2>7, <3>1, LastBlocksAlike
  <2> QED
    BY <2>2, <2>4, <2>6, <2>8
<1>2. ASSUME NEW i \in 1 .. m PROVE f[i] = g[i]
  <2>1. m - i \in 0 .. (m - 1) /\ m - (m - i) = i
    OBVIOUS
  <2> QED
    BY <1>1, <2>1
<1> QED
  BY <1>2, LastBlocksAlike

LEMMA BodyLaidOut ==
  ASSUME NEW w \in Values, w.kind = "object", NEW n \in Nat
  PROVE  \E f : /\ LaidOut(f, BlocksOf(KvLines, w, n), n, Len(KeyOrder))
                /\ KvLines[w][n] = f[Len(KeyOrder)]
<1>1. /\ Len(KeyOrder) \in Nat \ {0} /\ DOMAIN KeyOrder = 1 .. Len(KeyOrder)
      /\ \E f : /\ Joiner(f, BlocksOf(KvLines, w, n), Len(KeyOrder))
                /\ KvLines[w][n] = f[Len(KeyOrder)]
  BY BodyJoins
<1>2. \A i \in 1 .. Len(KeyOrder) : IsBlock(BlocksOf(KvLines, w, n)[i], n, i)
  BY <1>1, KvLinesType, BlockIsBlock DEF BlocksOf
<1> QED
  BY <1>1, <1>2 DEF LaidOut

\* What two values say under the key k.
AlikeAt(w, x, k) ==
  /\ k \in DOMAIN w.fields <=> k \in DOMAIN x.fields
  /\ k \in DOMAIN w.fields => w.fields[k] = x.fields[k]

\* The lines of objects less deep than w tell them apart.
TellBelow(w, n) ==
  \A c, d \in Values :
    Depth[c] < Depth[w] /\ c.kind = "object" /\ d.kind = "object" =>
      (KvLines[c][n + 1] = KvLines[d][n + 1] => c = d)

\* One block tells what is under its key.
LEMMA BlockTells ==
  ASSUME NEW w \in Values, w.kind = "object", NEW x \in Values, x.kind = "object",
         NEW n \in Nat, NEW k, ~ (n \in {0} /\ k = "status"),
         TellBelow(w, n),
         BlockOf(KvLines, w, n, k) = BlockOf(KvLines, x, n, k)
  PROVE  AlikeAt(w, x, k)
<1> DEFINE header == [indent |-> n, key |-> k, header |-> TRUE]
           line(c) == [indent |-> n, key |-> k, header |-> FALSE, val |-> scalar(c)]
<1>1. ASSUME NEW v \in Values, v.kind = "object"
      PROVE  /\ k \notin DOMAIN v.fields => BlockOf(KvLines, v, n, k) = <<>>
             /\ k \in DOMAIN v.fields /\ v.fields[k].kind = "object" =>
                  BlockOf(KvLines, v, n, k) = <<header>> \o KvLines[v.fields[k]][n + 1]
             /\ k \in DOMAIN v.fields /\ v.fields[k].kind # "object" =>
                  BlockOf(KvLines, v, n, k) = <<line(v.fields[k])>>
  BY DEF BlockOf
<1>2. \A v \in Values : v.kind = "object" /\ k \in DOMAIN v.fields =>
        v.fields[k] \in Values /\ Depth[v.fields[k]] < Depth[v]
  BY ValuesAssumption
<1>3. ASSUME NEW c \in Values
      PROVE  /\ <<header>> \o KvLines[c][n + 1] # <<>>
             /\ (<<header>> \o KvLines[c][n + 1])[1].header = TRUE
             /\ (<<header>> \o KvLines[c][n + 1])[1] = header
             /\ Tail(<<header>> \o KvLines[c][n + 1]) = KvLines[c][n + 1]
  <2>1. PICK h, r : h = header /\ r = KvLines[c][n + 1]
    OBVIOUS
  <2>2. r \in Seq(LineSet \cup {h}) /\ <<h>> \in Seq(LineSet \cup {h})
    <3>1. r \in Seq(Deep(n + 1))
      BY <2>1, KvLinesType
    <3>2. Deep(n + 1) \subseteq LineSet \cup {h}
      BY DEF Deep
    <3> QED
      BY <3>1, <3>2
  <2>3. <<h>> \o r # <<>> /\ (<<h>> \o r)[1] = h /\ Tail(<<h>> \o r) = r
    BY <2>2
  <2>4. h.header = TRUE
    BY <2>1
  <2> QED
    BY <2>1, <2>3, <2>4
<1>4. \A c : /\ <<line(c)>> # <<>> /\ <<line(c)>>[1] = line(c)
             /\ line(c).header = FALSE /\ line(c).val = scalar(c)
  OBVIOUS
<1> HIDE DEF header, line
<1>5. CASE k \notin DOMAIN w.fields
  <2>1. k \notin DOMAIN x.fields
    BY <1>1, <1>2, <1>3, <1>4, <1>5
  <2> QED
    BY <1>5, <2>1 DEF AlikeAt
<1>6. CASE k \in DOMAIN w.fields
  <2>1. k \in DOMAIN x.fields
    BY <1>1, <1>2, <1>3, <1>4, <1>6
  <2>2. PICK c, d : c = w.fields[k] /\ d = x.fields[k]
    OBVIOUS
  <2>3. c \in Values /\ d \in Values /\ Depth[c] < Depth[w]
    BY <1>2, <1>6, <2>1, <2>2
  <2>4. c.kind = "object" <=> d.kind = "object"
    <3>1. c.kind = "object" /\ d.kind # "object" =>
            <<header>> \o KvLines[c][n + 1] = <<line(d)>>
      BY <1>1, <1>6, <2>1, <2>2
    <3>2. c.kind # "object" /\ d.kind = "object" =>
            <<line(c)>> = <<header>> \o KvLines[d][n + 1]
      BY <1>1, <1>6, <2>1, <2>2
    <3>3. \A v \in Values : \A u : <<header>> \o KvLines[v][n + 1] # <<line(u)>>
      <4> SUFFICES ASSUME NEW v \in Values, NEW u,
                          <<header>> \o KvLines[v][n + 1] = <<line(u)>>
                   PROVE  FALSE
        OBVIOUS
      <4>1. <<line(u)>>[1].header = TRUE
        BY <1>3
      <4>2. <<line(u)>>[1].header = FALSE
        BY <1>4
      <4> QED
        BY <4>1, <4>2
    <3> QED
      BY <2>3, <3>1, <3>2, <3>3
  <2>5. CASE c.kind = "object"
    <3>1. <<header>> \o KvLines[c][n + 1] = <<header>> \o KvLines[d][n + 1]
      BY <1>1, <1>6, <2>1, <2>2, <2>4, <2>5
    <3>2. KvLines[c][n + 1] = KvLines[d][n + 1]
      BY <1>3, <2>3, <3>1
    <3> QED
      BY <1>6, <2>1, <2>2, <2>3, <2>4, <2>5, <3>2 DEF AlikeAt, TellBelow
  <2>6. CASE c.kind # "object"
    <3>1. <<line(c)>> = <<line(d)>>
      BY <1>1, <1>6, <2>1, <2>2, <2>4, <2>6
    <3>2. scalar(c) = scalar(d)
      BY <1>4, <3>1
    <3>3. c = d
      BY <1>6, <2>1, <2>2, <2>4, <2>6, <3>2, ScalarsAssumption
    <3> QED
      BY <1>6, <2>1, <2>2, <3>3 DEF AlikeAt
  <2> QED
    BY <2>5, <2>6
<1> QED
  BY <1>5, <1>6

\* The lines of an object tell what is under each key, `status` apart at depth 0.
LEMMA LinesTell ==
  ASSUME NEW w \in Values, w.kind = "object", NEW x \in Values, x.kind = "object",
         NEW n \in Nat, KvLines[w][n] = KvLines[x][n],
         TellBelow(w, n)
  PROVE  \A k : ~ (n \in {0} /\ k = "status") => AlikeAt(w, x, k)
<1>1. Len(KeyOrder) \in Nat /\ DOMAIN KeyOrder = 1 .. Len(KeyOrder)
  BY KeysAssumption
<1>2. PICK f : /\ LaidOut(f, BlocksOf(KvLines, w, n), n, Len(KeyOrder))
               /\ KvLines[w][n] = f[Len(KeyOrder)]
  BY BodyLaidOut
<1>3. PICK g : /\ LaidOut(g, BlocksOf(KvLines, x, n), n, Len(KeyOrder))
               /\ KvLines[x][n] = g[Len(KeyOrder)]
  BY BodyLaidOut
<1>4. f[Len(KeyOrder)] = g[Len(KeyOrder)]
  BY <1>2, <1>3
<1>5. \A i \in 1 .. Len(KeyOrder) :
        BlocksOf(KvLines, w, n)[i] = BlocksOf(KvLines, x, n)[i]
  <2>1. PICK s, t, m : /\ s = BlocksOf(KvLines, w, n) /\ t = BlocksOf(KvLines, x, n)
                       /\ m = Len(KeyOrder)
    OBVIOUS
  <2>2. /\ LaidOut(f, s, n, m) /\ LaidOut(g, t, n, m) /\ f[m] = g[m]
        /\ m \in Nat /\ DOMAIN KeyOrder = 1 .. m
    BY <1>1, <1>2, <1>3, <1>4, <2>1
  <2>3. \A i \in 1 .. m : s[i] = t[i]
    BY <2>2, BlocksAlike
  <2> QED
    BY <2>1, <2>3
<1>6. \A i \in 1 .. Len(KeyOrder) :
        BlockOf(KvLines, w, n, KeyOrder[i]) = BlockOf(KvLines, x, n, KeyOrder[i])
  BY <1>1, <1>5 DEF BlocksOf
<1> TAKE k
<1> SUFFICES ASSUME ~ (n \in {0} /\ k = "status") PROVE AlikeAt(w, x, k)
  OBVIOUS
<1>7. CASE \E i \in DOMAIN KeyOrder : KeyOrder[i] = k
  <2>1. BlockOf(KvLines, w, n, k) = BlockOf(KvLines, x, n, k)
    BY <1>1, <1>6, <1>7
  <2> QED
    BY <2>1, BlockTells
<1>8. CASE ~ \E i \in DOMAIN KeyOrder : KeyOrder[i] = k
  <2>1. k \notin DOMAIN w.fields /\ k \notin DOMAIN x.fields
    BY <1>8, ValuesAssumption
  <2> QED
    BY <2>1 DEF AlikeAt
<1> QED
  BY <1>7, <1>8

\* The lines of a nested object tell all of it.
LEMMA NestedTell ==
  \A w, x \in Values, n \in Nat \ {0} :
    w.kind = "object" /\ x.kind = "object" /\ KvLines[w][n] = KvLines[x][n] => w = x
<1> DEFINE Mistaken(w) == w.kind = "object" /\ \E x \in Values, n \in Nat \ {0} :
                 x.kind = "object" /\ KvLines[w][n] = KvLines[x][n] /\ w # x
           Bad == {Depth[w] : w \in {v \in Values : Mistaken(v)}}
<1> SUFFICES ASSUME Bad # {} PROVE FALSE
  OBVIOUS
<1>0. Depth \in [Values -> Nat]
  BY ValuesAssumption
<1>1. PICK m \in Bad : \A l \in Bad : m <= l
  <2>1. Bad \in SUBSET Nat
    BY <1>0
  <2> HIDE DEF Bad
  <2> QED
    BY <2>1, LeastNat
<1>2. PICK w \in Values : m = Depth[w] /\ Mistaken(w)
  OBVIOUS
<1>3. PICK x \in Values, n \in Nat \ {0} :
        w.kind = "object" /\ x.kind = "object" /\ KvLines[w][n] = KvLines[x][n] /\ w # x
  BY <1>2
<1>4. ASSUME NEW c \in Values, NEW d \in Values,
             Depth[c] < Depth[w], c.kind = "object", d.kind = "object",
             KvLines[c][n + 1] = KvLines[d][n + 1]
      PROVE  c = d
  <2>1. Depth[c] \notin Bad
    <3>1. Depth[c] \in Nat /\ Depth[w] \in Nat
      BY <1>0
    <3> HIDE DEF Bad
    <3> QED
      BY <1>1, <1>2, <1>4, <3>1
  <2>2. ~ Mistaken(c)
    BY <2>1
  <2>3. n + 1 \in Nat \ {0}
    OBVIOUS
  <2> QED
    BY <1>4, <2>2, <2>3
<1>5. \A k : AlikeAt(w, x, k)
  <2>1. n \in Nat /\ n \notin {0}
    OBVIOUS
  <2> HIDE DEF Mistaken, Bad
  <2>2. \A k : ~ (n \in {0} /\ k = "status") => AlikeAt(w, x, k)
    <3>1. TellBelow(w, n)
      <4> SUFFICES ASSUME NEW c \in Values, NEW d \in Values,
                          Depth[c] < Depth[w], c.kind = "object", d.kind = "object",
                          KvLines[c][n + 1] = KvLines[d][n + 1]
                   PROVE  c = d
        BY Zenon DEF TellBelow
      <4> QED
        BY <1>4
    <3> QED
      BY <1>3, <2>1, <3>1, LinesTell
  <2> QED
    BY <2>1, <2>2
<1>6. w.fields = x.fields
  <2>1. PICK f, g : f = w.fields /\ g = x.fields
    OBVIOUS
  <2>2. f = [k \in DOMAIN f |-> f[k]] /\ g = [k \in DOMAIN g |-> g[k]]
    BY <1>3, <2>1, ValuesAssumption
  <2>3. \A k : (k \in DOMAIN f <=> k \in DOMAIN g) /\ (k \in DOMAIN f => f[k] = g[k])
    BY <1>5, <2>1 DEF AlikeAt
  <2>4. DOMAIN f = DOMAIN g
    BY <2>3
  <2> QED
    BY <2>1, <2>2, <2>3, <2>4
<1>7. /\ w = [kind |-> "object", fields |-> w.fields]
      /\ x = [kind |-> "object", fields |-> x.fields]
  BY <1>3, ValuesAssumption
<1> QED
  BY <1>3, <1>6, <1>7

-----------------------------------------------------------------------------
(* What is on the terminal. *)

\* Neither an error nor a list is rendered as key/value lines.
LEMMA OnlyPlainAsKv ==
  ASSUME NEW v, render_table(v).view \in {"kv", "ok"}
  PROVE  /\ ~ Has(v, "streams", "array")
         /\ render_table(v) = render_kv(v)
<1>1. ~ IsError(v)
  <2> SUFFICES ASSUME IsError(v) PROVE FALSE
    OBVIOUS
  <2>1. PICK text : text = IF Has(v, "message", "string")
                             THEN v.fields["message"].text ELSE "(no message)"
    OBVIOUS
  <2>2. render_table(v) = [view |-> "error", message |-> text]
    BY <2>1 DEF render_table
  <2> QED
    BY <2>2
<1>2. ~ Has(v, "streams", "array")
  <2> SUFFICES ASSUME Has(v, "streams", "array") PROVE FALSE
    OBVIOUS
  <2>1. PICK rows : rows = v.fields["streams"].rows
    OBVIOUS
  <2>2. render_table(v) = render_streams(rows)
    BY <1>1, <2>1 DEF render_table
  <2>3. render_streams(rows).view \in {"no streams", "table"}
    BY DEF render_streams
  <2> QED
    BY <2>2, <2>3
<1> QED
  BY <1>1, <1>2 DEF render_table

\* Only a table makes the operator ask again.
FirstReply == ShowsTable \/ reply \in Replies

\* The answer to the same question is a table again.
LEMMA AskedAgainShowsTable ==
  ASSUME ReplyShown, QueryAgain
  PROVE  ShowsTable'
<1>1. /\ printed' = render(reply') /\ output' = output /\ ShowsTable
      /\ reply' = [reply EXCEPT !.fields["streams"].rows = Grown(Streams)]
  BY DEF QueryAgain, Grown
<1>2. /\ Streams \in Seq(Row) /\ Streams # <<>>
      /\ reply = [kind |-> "object", fields |-> reply.fields]
      /\ "streams" \in DOMAIN reply.fields
      /\ reply.fields["streams"] \in [kind : {"array"}, rows : Seq(Row)]
      /\ printed = render_streams(Streams)
  BY <1>1, TableIsOfReply
<1>3. ~ IsError(reply) /\ output # "json"
  <2>1. printed = render(reply) /\ render(reply).view = "table"
    BY <1>1 DEF ReplyShown, ShowsTable, Nothing
  <2> QED
    BY <2>1, OnlyStreamsAsTable
<1>4. PICK old, new : /\ old = reply.fields
                      /\ new = [old EXCEPT !["streams"].rows = Grown(Streams)]
  OBVIOUS
<1>5. reply' = [kind |-> "object", fields |-> new]
  <2>1. reply = [kind |-> "object", fields |-> old]
    BY <1>2, <1>4
  <2> QED
    BY <1>1, <1>4, <2>1
<1>6. /\ DOMAIN new = DOMAIN old
      /\ "status" \in DOMAIN old => new["status"] = old["status"]
  BY <1>4
<1>7. ~ IsError(reply')
  <2>1. IsError(reply) <=> /\ "status" \in DOMAIN old
                           /\ old["status"].kind = "string"
                           /\ old["status"].text = "error"
    BY <1>4 DEF IsError, Has
  <2>2. IsError(reply') <=> /\ "status" \in DOMAIN new
                            /\ new["status"].kind = "string"
                            /\ new["status"].text = "error"
    BY <1>5 DEF IsError, Has
  <2> QED
    BY <1>3, <1>6, <2>1, <2>2
<1>8. /\ Has(reply', "streams", "array")
      /\ reply'.fields["streams"].rows = Grown(Streams)
  <2>1. PICK list : list = old["streams"]
    OBVIOUS
  <2>2. list = [kind |-> "array", rows |-> list.rows]
    BY <1>2, <1>4, <2>1
  <2>3. new["streams"] = [list EXCEPT !.rows = Grown(Streams)]
    BY <1>2, <1>4, <2>1
  <2>4. new["streams"] = [kind |-> "array", rows |-> Grown(Streams)]
    BY <2>2, <2>3
  <2> QED
    BY <1>2, <1>4, <1>5, <1>6, <2>4 DEF Has
<1>9. Grown(Streams) # <<>>
  <2>1. 1 \in DOMAIN Streams
    BY <1>2
  <2>2. DOMAIN Grown(Streams) = DOMAIN Streams
    BY <1>2, RowsGrow
  <2> QED
    BY <2>1, <2>2
<1>10. render(reply') = render_streams(Grown(Streams))
  <2>1. PICK v, rows : v = reply' /\ rows = Grown(Streams)
    OBVIOUS
  <2>2. /\ v.kind # "garbage" /\ ~ IsError(v)
        /\ Has(v, "streams", "array") /\ v.fields["streams"].rows = rows
    BY <1>5, <1>7, <1>8, <2>1
  <2>3. render(v) = render_table(v)
    BY <1>3, <2>2 DEF render
  <2>4. render_table(v) = render_streams(rows)
    BY <2>2 DEF render_table
  <2> QED
    BY <2>1, <2>3, <2>4
<1> QED
  BY <1>1, <1>9, <1>10 DEF ShowsTable, render_streams

LEMMA InitFirstReply == Init => FirstReply
  BY DEF Init, FirstReply

LEMMA NextFirstReply == ReplyShown /\ FirstReply /\ [Next]_vars => FirstReply'
<1> SUFFICES ASSUME ReplyShown, FirstReply, [Next]_vars PROVE FirstReply'
  OBVIOUS
<1>1. CASE Query
  <2>1. ~ ShowsTable /\ reply' = reply
    BY <1>1 DEF Query, ShowsTable, Nothing
  <2> QED
    BY <2>1 DEF FirstReply
<1>2. CASE QueryAgain
  BY <1>2, AskedAgainShowsTable DEF FirstReply
<1>3. CASE UNCHANGED vars
  BY <1>3 DEF vars, FirstReply, ShowsTable
<1> QED
  BY <1>1, <1>2, <1>3 DEF Next

LEMMA AlwaysFirstReply == Spec => []FirstReply
  BY InitFirstReply, NextFirstReply, ReplyAlwaysShown, PTL DEF Spec

\* Where key/value lines are on the terminal, they are those of a value.
LEMMA KvIsOfReply ==
  ASSUME ReplyShown, FirstReply, printed.view \in {"kv", "ok"}
  PROVE  /\ reply \in Values /\ reply.kind = "object"
         /\ printed = render_kv(reply)
<1>1. printed = render(reply) /\ ~ ShowsTable
  BY DEF ReplyShown, Nothing, ShowsTable
<1>2. reply.kind # "garbage" /\ printed = render_table(reply)
  <2>1. reply.kind = "garbage" => render(reply).view = "raw"
    BY DEF render
  <2>2. reply.kind # "garbage" /\ output = "json" => render(reply).view = "json"
    BY DEF render
  <2>3. reply.kind # "garbage" /\ output # "json" => render(reply) = render_table(reply)
    BY DEF render
  <2> QED
    BY <1>1, <2>1, <2>2, <2>3
<1>3. ~ Has(reply, "streams", "array") /\ render_table(reply) = render_kv(reply)
  BY <1>2, OnlyPlainAsKv
<1>4. reply \in Replies
  BY <1>1 DEF FirstReply
<1> QED
  BY <1>2, <1>3, <1>4, RepliesAssumption

\* The values of every reply printed as key/value lines line up (render_kv), for
\* objects nested to any depth and keys of any length.
THEOREM ValuesAlwaysAligned == Spec => []ValuesAligned
<1>1. ReplyShown /\ FirstReply => ValuesAligned
  <2> SUFFICES ASSUME ReplyShown, FirstReply, printed.view = "kv",
                      NEW i \in DOMAIN printed.starts, NEW j \in DOMAIN printed.starts
               PROVE  printed.starts[i] = printed.starts[j]
    BY DEF ValuesAligned
  <2>1. reply \in Values /\ printed = render_kv(reply)
    BY KvIsOfReply
  <2> QED
    BY <2>1, KvIsAligned
<1> QED
  BY <1>1, ReplyAlwaysShown, AlwaysFirstReply, PTL

\* What is printed has the lines.
LEMMA SameLines ==
  ASSUME NEW v, NEW w, render_kv(v) = render_kv(w)
  PROVE  KvLines[v][0] = KvLines[w][0]
<1>1. PICK a, b : a = collect_kv(v, 0) /\ b = collect_kv(w, 0)
  OBVIOUS
<1>2. /\ a = <<>> => render_kv(v).view = "ok"
      /\ a # <<>> => render_kv(v).view = "kv" /\ render_kv(v).lines = a
  BY <1>1 DEF render_kv
<1>3. /\ b = <<>> => render_kv(w).view = "ok"
      /\ b # <<>> => render_kv(w).view = "kv" /\ render_kv(w).lines = b
  BY <1>1 DEF render_kv
<1>4. a = b
  BY <1>2, <1>3
<1> QED
  BY <1>1, <1>4, CollectsLines

\* The lines of a reply tell its data.
LEMMA SameData ==
  ASSUME NEW v \in Values, v.kind = "object", NEW w \in Values, w.kind = "object",
         KvLines[v][0] = KvLines[w][0]
  PROVE  Data(v) = Data(w)
<1>1. TellBelow(v, 0)
  BY NestedTell DEF TellBelow
<1>2. \A k : k # "status" => AlikeAt(v, w, k)
  BY <1>1, LinesTell
<1>3. DOMAIN v.fields \ {"status"} = DOMAIN w.fields \ {"status"}
  BY <1>2 DEF AlikeAt
<1>4. \A k \in DOMAIN v.fields \ {"status"} : v.fields[k] = w.fields[k]
  BY <1>2 DEF AlikeAt
<1> QED
  BY <1>3, <1>4 DEF Data

\* Replies printed as the same key/value lines say the same (collect_kv), for objects
\* nested to any depth: no field is lost, and none moves to another object.
THEOREM RepliesAlwaysToldApart == Spec => []RepliesToldApart
<1>1. ReplyShown /\ FirstReply => RepliesToldApart
  <2> SUFFICES ASSUME ReplyShown, FirstReply, printed.view \in {"kv", "ok"},
                      NEW other \in Replies, other.kind = "object",
                      render_table(other) = printed
               PROVE  Data(other) = Data(reply)
    BY DEF RepliesToldApart
  <2>1. reply \in Values /\ reply.kind = "object" /\ printed = render_kv(reply)
    BY KvIsOfReply
  <2>2. ~ Has(other, "streams", "array") /\ render_table(other) = render_kv(other)
    BY OnlyPlainAsKv
  <2>3. other \in Values
    BY <2>2, RepliesAssumption
  <2>4. KvLines[other][0] = KvLines[reply][0]
    BY <2>1, <2>2, SameLines
  <2> QED
    BY <2>1, <2>3, <2>4, SameData
<1> QED
  BY <1>1, ReplyAlwaysShown, AlwaysFirstReply, PTL
=============================================================================
