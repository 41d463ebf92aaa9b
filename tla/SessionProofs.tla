---------------------------- MODULE SessionProofs ---------------------------
(***************************************************************************)
(* Theorems about Sessions for any sessions, any ttl and any number of     *)
(* ticks in a second.  First, texts: that no two times have the same one,  *)
(* which is an induction over the digits of the fraction, and that their   *)
(* order is right between seconds.  Then the table.                        *)
(***************************************************************************)
EXTENDS Sessions, WellFoundedInduction, FiniteSetTheorems, TLAPS

(* Induction here is the choice of a least counterexample.                 *)
LEMMA LeastElement ==
    ASSUME NEW S \in SUBSET Nat, S # {}
    PROVE  \E n \in S : \A m \in S : n <= m
<1> DEFINE R == OpToRel(<, Nat)
<1>1. IsWellFoundedOn(R, Nat)
    BY NatLessThanWellFounded
<1>2. \A x, y \in Nat : x < y => << x, y >> \in R
    BY DEF OpToRel
<1> HIDE DEF R
<1>3. PICK n \in S : \A m \in S : ~ (<< m, n >> \in R)
    BY <1>1, WFMin
<1>4. ASSUME NEW m \in S
      PROVE  n <= m
    <2>1. m \in Nat /\ n \in Nat
        OBVIOUS
    <2>2. ~ (m < n)
        BY <1>2, <1>3, <2>1, Zenon
    <2> QED
        BY <2>1, <2>2
<1> QED
    BY <1>4

(***************************************************************************)
(* Powers of the base.  Power is a recursive definition: that there is     *)
(* such a function is shown from its beginnings, the powers up to n.       *)
(***************************************************************************)
IsPowers(h, n) ==
    /\ h \in [0..n -> Nat]
    /\ h[0] = 1
    /\ \A i \in 1..n : h[i] = Base * h[i - 1]

(* There is a table of the powers up to any n.                             *)
LEMMA PowersExist ==
    ASSUME NEW n \in Nat
    PROVE  \E h : IsPowers(h, n)
<1> DEFINE Bad == { k \in Nat : ~ \E h : IsPowers(h, k) }
<1> SUFFICES ASSUME Bad # {}
             PROVE  FALSE
    OBVIOUS
<1>1. PICK m \in Bad : \A k \in Bad : m <= k
    BY LeastElement
<1>2. m # 0
    <2>1. IsPowers([i \in 0..0 |-> 1], 0)
        BY DEF IsPowers
    <2> QED
        BY <2>1
<1>3. m - 1 \in Nat /\ m - 1 \notin Bad
    BY <1>1, <1>2
<1>4. PICK h : IsPowers(h, m - 1)
    BY <1>3
<1> DEFINE g == [i \in 0..m |-> IF i = m THEN Base * h[m - 1] ELSE h[i]]
<1>5. IsPowers(g, m)
    <2>1. h \in [0 .. m - 1 -> Nat] /\ h[m - 1] \in Nat
        BY <1>3, <1>4 DEF IsPowers
    <2>2. Base * h[m - 1] \in Nat
        BY <2>1, TimeAssumption
    <2>3. g \in [0..m -> Nat]
        BY <1>3, <2>1, <2>2
    <2>4. g[0] = 1
        BY <1>2, <1>4 DEF IsPowers
    <2>5. ASSUME NEW i \in 1..m
          PROVE  g[i] = Base * g[i - 1]
        BY <1>4, <2>5 DEF IsPowers
    <2> QED
        BY <2>3, <2>4, <2>5 DEF IsPowers
<1> QED
    BY <1>5

(* Two such tables agree where both have an entry.                         *)
LEMMA PowersAgree ==
    ASSUME NEW n \in Nat, NEW m \in Nat, NEW g, NEW h,
           IsPowers(g, n), IsPowers(h, m),
           NEW i \in Nat, i <= n, i <= m
    PROVE  g[i] = h[i]
<1> DEFINE Bad == { k \in Nat : k <= n /\ k <= m /\ g[k] # h[k] }
<1> SUFFICES ASSUME Bad # {}
             PROVE  FALSE
    OBVIOUS
<1>1. PICK k \in Bad : \A l \in Bad : k <= l
    BY LeastElement
<1>2. k # 0
    BY DEF IsPowers
<1>3. k - 1 \in Nat /\ k - 1 \notin Bad
    BY <1>1, <1>2
<1>4. g[k - 1] = h[k - 1]
    BY <1>3
<1>5. k \in 1..n /\ k \in 1..m
    BY <1>2
<1> QED
    BY <1>4, <1>5 DEF IsPowers

(* Power is what its definition says.                                      *)
LEMMA PowerDef ==
    /\ Power \in [Nat -> Nat]
    /\ Power[0] = 1
    /\ \A n \in Nat : Power[n + 1] = Base * Power[n]
<1> DEFINE Table(n) == CHOOSE h : IsPowers(h, n)
           F == [n \in Nat |-> Table(n)[n]]
           Body(g) == [n \in Nat |-> IF n = 0 THEN 1 ELSE Base * g[n - 1]]
<1>1. \A n \in Nat : IsPowers(Table(n), n)
    BY PowersExist
<1> HIDE DEF Table
<1>2. \A n \in Nat : F[n] \in Nat
    BY <1>1 DEF IsPowers
<1>3. F[0] = 1
    BY <1>1 DEF IsPowers
<1>4. ASSUME NEW n \in Nat, n # 0
      PROVE  F[n] = Base * F[n - 1]
    <2>1. n - 1 \in Nat /\ n \in 1..n
        BY <1>4
    <2>2. Table(n)[n] = Base * Table(n)[n - 1]
        BY <1>1, <2>1 DEF IsPowers
    <2>3. Table(n)[n - 1] = Table(n - 1)[n - 1]
        BY <1>1, <2>1, PowersAgree
    <2> QED
        BY <2>1, <2>2, <2>3
<1>5. F = Body(F)
    BY <1>3, <1>4
<1>6. Power = CHOOSE g : g = Body(g)
    BY DEF Power
<1>7. Power = Body(Power)
    <2> HIDE DEF F, Body
    <2> QED
        BY <1>5, <1>6
<1>8. Power[0] = 1
    BY <1>7
<1>9. ASSUME NEW n \in Nat
      PROVE  Power[n + 1] = Base * Power[n]
    BY <1>7
<1>10. ASSUME NEW n \in Nat
       PROVE  Power[n] = F[n]
    <2> DEFINE Bad == { k \in Nat : Power[k] # F[k] }
    <2> HIDE DEF F
    <2> SUFFICES ASSUME Bad # {}
                 PROVE  FALSE
        OBVIOUS
    <2>1. PICK k \in Bad : \A l \in Bad : k <= l
        BY LeastElement
    <2>2. k # 0
        BY <1>3, <1>8
    <2>3. k - 1 \in Nat /\ Power[k - 1] = F[k - 1]
        BY <2>1, <2>2
    <2>4. Power[(k - 1) + 1] = Base * Power[k - 1]
        BY <1>9, <2>3
    <2> QED
        BY <1>4, <2>2, <2>3, <2>4
<1>11. Power \in [Nat -> Nat]
    <2>1. Power = [n \in Nat |-> Power[n]]
        BY <1>7
    <2> HIDE DEF F
    <2> QED
        BY <1>2, <1>10, <2>1
<1> QED
    BY <1>8, <1>9, <1>11

(* No power is 0, so that one can divide by it.                            *)
LEMMA PowerPositive ==
    ASSUME NEW n \in Nat
    PROVE  Power[n] \in Nat /\ Power[n] > 0
<1> DEFINE Bad == { k \in Nat : Power[k] = 0 }
<1>1. CASE Bad # {}
    <2>1. PICK k \in Bad : \A l \in Bad : k <= l
        BY <1>1, LeastElement
    <2>2. k # 0
        BY PowerDef
    <2>3. k - 1 \in Nat /\ Power[k - 1] # 0
        BY <2>1, <2>2
    <2>4. Power[(k - 1) + 1] = Base * Power[k - 1]
        BY <2>3, PowerDef
    <2>5. Power[k - 1] \in Nat /\ Power[k] = Base * Power[k - 1]
        BY <2>2, <2>3, <2>4, PowerDef
    <2> QED
        BY <2>1, <2>3, <2>5, TimeAssumption
<1>2. CASE Bad = {}
    BY <1>2, PowerDef
<1> QED
    BY <1>1, <1>2

(***************************************************************************)
(* Texts.                                                                  *)
(***************************************************************************)

(* Facts about division.                                                   *)
LEMMA DivisionType ==
    ASSUME NEW t \in Nat, NEW p \in Nat, p > 0
    PROVE  t \div p \in Nat /\ t % p \in 0 .. p - 1 /\ t = p * (t \div p) + (t % p)
    OBVIOUS

LEMMA DivisionOrder ==
    ASSUME NEW t \in Nat, NEW u \in Nat, NEW p \in Nat, p > 0, t <= u
    PROVE  t \div p <= u \div p
    OBVIOUS

LEMMA DivisionTwice ==
    ASSUME NEW t \in Nat, NEW p \in Nat, NEW b \in Nat, p > 0, b > 0
    PROVE  t \div (b * p) = (t \div p) \div b
    OBVIOUS

(* Seconds are numbers, and do not run backwards.                          *)
LEMMA SecondType ==
    /\ Second \in Nat /\ Second > 0
    /\ \A t \in Nat : SecondOf(t) \in Nat
    /\ \A t, u \in Nat : t <= u => SecondOf(t) <= SecondOf(u)
<1>1. Second \in Nat /\ Second > 0
    BY PowerPositive, TimeAssumption DEF Second
<1> QED
    BY <1>1, DivisionType, DivisionOrder DEF SecondOf

(* A digit is less than the base.                                          *)
LEMMA DigitType ==
    ASSUME NEW t \in Nat, NEW i \in 1..Places
    PROVE  Digit(t, i) \in 0 .. Base - 1
<1>1. Places - i \in Nat
    BY TimeAssumption
<1>2. Power[Places - i] \in Nat /\ Power[Places - i] > 0
    BY <1>1, PowerPositive
<1>3. t \div Power[Places - i] \in Nat
    BY <1>2, DivisionType
<1> QED
    BY <1>3, DivisionType, TimeAssumption DEF Digit

(* How many digits of the fraction are written.                            *)
Width(t) == Cardinality(Written(t))

(* The places that are written are the first so and so many.               *)
LEMMA WrittenPlaces ==
    ASSUME NEW t \in Nat
    PROVE  /\ Width(t) \in 0..Places
           /\ Written(t) = 1 .. Width(t)
<1> DEFINE Rest == { k \in 0..Places : \A i \in 1..Places : i > k => Digit(t, i) = 0 }
<1>1. Places \in Rest /\ Rest \subseteq Nat
    BY TimeAssumption
<1>2. PICK k \in Rest : \A l \in Rest : k <= l
    BY <1>1, LeastElement
<1>3. Written(t) = 1..k
    <2>1. ASSUME NEW i \in Written(t)
          PROVE  i \in 1..k
        <3>1. PICK l \in i..Places : Digit(t, l) # 0
            BY DEF Written
        <3>2. i \in 1..Places /\ l \in 1..Places
            BY <3>1, TimeAssumption DEF Written
        <3>3. ~ (l > k)
            BY <1>2, <3>1, <3>2
        <3> QED
            BY <1>2, <3>2, <3>3, TimeAssumption
    <2>2. ASSUME NEW i \in 1..k
          PROVE  i \in Written(t)
        <3>1. k - 1 \in 0..Places /\ k - 1 \notin Rest
            BY <1>2, <2>2, TimeAssumption
        <3>2. PICK l \in 1..Places : l > k - 1 /\ Digit(t, l) # 0
            BY <3>1
        <3>3. i \in 1..Places /\ l \in i..Places
            BY <1>2, <2>2, <3>2, TimeAssumption
        <3> QED
            BY <3>2, <3>3 DEF Written
    <2> QED
        BY <2>1, <2>2
<1>4. Cardinality(1..k) = k
    BY <1>2, FS_Interval, TimeAssumption
<1> QED
    BY <1>2, <1>3, <1>4 DEF Width

(* Beyond them there are only zeros.                                       *)
LEMMA UnwrittenDigits ==
    ASSUME NEW t \in Nat, NEW i \in 1..Places, i > Width(t)
    PROVE  Digit(t, i) = 0
<1>1. i \notin Written(t)
    BY WrittenPlaces
<1> QED
    BY <1>1, TimeAssumption DEF Written

(* A text begins with the second, goes on with the digits that are written *)
(* and ends with the Z.                                                    *)
LEMMA TextShape ==
    ASSUME NEW t \in Nat
    PROVE  /\ formatTime(t) \in Seq(Nat)
           /\ Len(formatTime(t)) = Width(t) + 2
           /\ formatTime(t)[1] = SecondOf(t)
           /\ \A i \in 1..Width(t) : formatTime(t)[i + 1] = Digit(t, i)
<1> DEFINE n == Width(t)
           digits == [i \in 1..n |-> Digit(t, i)]
<1>1. n \in Nat /\ n <= Places
    BY WrittenPlaces, TimeAssumption
<1>2. \A i \in 1..n : Digit(t, i) \in Nat
    BY <1>1, DigitType, TimeAssumption
<1> HIDE DEF n
<1>3. digits \in Seq(Nat) /\ Len(digits) = n
    BY <1>1, <1>2
<1>4. << SecondOf(t) >> \in Seq(Nat) /\ << Z >> \in Seq(Nat)
    BY SecondType, TimeAssumption DEF Z
<1>5. formatTime(t) = (<< SecondOf(t) >> \o digits) \o << Z >>
    BY DEF formatTime, SecondOf, Width, n
<1> HIDE DEF digits
<1>6. /\ << SecondOf(t) >> \o digits \in Seq(Nat)
      /\ Len(<< SecondOf(t) >> \o digits) = n + 1
      /\ (<< SecondOf(t) >> \o digits)[1] = SecondOf(t)
      /\ \A i \in 1..n : (<< SecondOf(t) >> \o digits)[i + 1] = digits[i]
    BY <1>1, <1>3, <1>4
<1>7. /\ formatTime(t) \in Seq(Nat)
      /\ Len(formatTime(t)) = n + 2
      /\ \A i \in 1 .. n + 1 : formatTime(t)[i] = (<< SecondOf(t) >> \o digits)[i]
    BY <1>1, <1>4, <1>5, <1>6
<1>8. \A i \in 1..n : digits[i] = Digit(t, i)
    BY DEF digits
<1>9. 1 \in 1 .. n + 1 /\ \A i \in 1..n : i + 1 \in 1 .. n + 1
    BY <1>1
<1>10. /\ formatTime(t)[1] = SecondOf(t)
       /\ \A i \in 1..n : formatTime(t)[i + 1] = Digit(t, i)
    BY <1>6, <1>7, <1>8, <1>9
<1> QED
    BY <1>7, <1>10 DEF n

(* A time is known by its second and the digits of its fraction.           *)
LEMMA SameDigits ==
    ASSUME NEW t \in Nat, NEW u \in Nat, SecondOf(t) = SecondOf(u),
           \A i \in 1..Places : Digit(t, i) = Digit(u, i)
    PROVE  t = u
<1> DEFINE Unit(k) == Power[Places - k]
           Bad == { k \in 0..Places : t \div Unit(k) # u \div Unit(k) }
<1>1. \A k \in 0..Places : Unit(k) \in Nat /\ Unit(k) > 0
    BY PowerPositive, TimeAssumption
<1>2. CASE Bad # {}
    <2>1. PICK k \in Bad : \A l \in Bad : k <= l
        <3>1. Bad \subseteq Nat
            BY TimeAssumption
        <3> QED
            BY <1>2, <3>1, LeastElement
    <2>2. k # 0
        <3>1. Unit(0) = Second
            BY TimeAssumption DEF Second
        <3> QED
            BY <3>1 DEF SecondOf
    <2>3. k \in 1..Places /\ k - 1 \in 0..Places
        BY <2>2, TimeAssumption
    <2>4. t \div Unit(k - 1) = u \div Unit(k - 1)
        BY <2>1, <2>3, TimeAssumption
    <2>5. Unit(k - 1) = Base * Unit(k)
        <3>1. Places - k \in Nat /\ Places - (k - 1) = (Places - k) + 1
            BY <2>3, TimeAssumption
        <3> QED
            BY <3>1, PowerDef
    <2> DEFINE x == t \div Unit(k)
               y == u \div Unit(k)
    <2>6. x \in Nat /\ y \in Nat
        BY <1>1, <2>3, DivisionType
    <2>7. x \div Base = y \div Base
        <3>1. Unit(k) \in Nat /\ Unit(k) > 0 /\ Base \in Nat /\ Base > 0
            BY <1>1, <2>3, TimeAssumption
        <3> HIDE DEF Unit
        <3> QED
            BY <2>4, <2>5, <3>1, DivisionTwice
    <2>8. x % Base = y % Base
        BY <2>3 DEF Digit
    <2>9. x = y
        <3> HIDE DEF x, y
        <3>1. Base \in Nat /\ Base > 0
            BY TimeAssumption
        <3>2. x = Base * (x \div Base) + (x % Base)
            BY <2>6, <3>1, DivisionType
        <3>3. y = Base * (y \div Base) + (y % Base)
            BY <2>6, <3>1, DivisionType
        <3> QED
            BY <2>7, <2>8, <3>2, <3>3
    <2> QED
        BY <2>9
<1>3. CASE Bad = {}
    <2>1. Unit(Places) = 1
        BY PowerDef, TimeAssumption
    <2>2. Places \in 0..Places /\ Places \notin Bad
        BY <1>3, TimeAssumption
    <2>3. t \div Unit(Places) = u \div Unit(Places)
        BY <2>2
    <2> QED
        BY <2>1, <2>3
<1> QED
    BY <1>2, <1>3

(* No two times have the same text.                                        *)
LEMMA TextsDiffer ==
    ASSUME NEW t \in Nat, NEW u \in Nat, formatTime(t) = formatTime(u)
    PROVE  t = u
<1>1. SecondOf(t) = SecondOf(u)
    BY TextShape
<1>2. Width(t) \in Nat /\ Width(u) \in Nat
    BY WrittenPlaces, TimeAssumption
<1>3. Width(t) = Width(u)
    BY <1>2, TextShape
<1>4. ASSUME NEW i \in 1..Places
      PROVE  Digit(t, i) = Digit(u, i)
    <2>1. CASE i <= Width(t)
        <3>1. i \in 1..Width(t)
            BY <1>2, <2>1, TimeAssumption
        <3> QED
            BY <1>3, <3>1, TextShape
    <2>2. CASE i > Width(t)
        BY <1>3, <2>2, UnwrittenDigits
    <2> QED
        BY <1>2, <2>1, <2>2, TimeAssumption
<1> QED
    BY <1>1, <1>4, SameDigits

(* Between seconds the order of texts is that of times; so what is not     *)
(* after a text is of no later second.                                     *)
LEMMA TextsOrdered ==
    ASSUME NEW t \in Nat, NEW u \in Nat
    PROVE  /\ SecondOf(t) < SecondOf(u) => Before(formatTime(t), formatTime(u))
           /\ NotAfter(formatTime(t), formatTime(u)) => SecondOf(t) <= SecondOf(u)
<1> DEFINE a == formatTime(t)
           b == formatTime(u)
<1>1. /\ a[1] = SecondOf(t) /\ b[1] = SecondOf(u)
      /\ SecondOf(t) \in Nat /\ SecondOf(u) \in Nat
    BY TextShape, SecondType
<1>2. 1 \in DOMAIN a \cap DOMAIN b /\ DOMAIN a \subseteq Nat \ {0}
    <2>1. Width(t) \in Nat /\ Width(u) \in Nat
        BY WrittenPlaces, TimeAssumption
    <2>2. DOMAIN a = 1 .. Width(t) + 2 /\ DOMAIN b = 1 .. Width(u) + 2
        BY TextShape
    <2> QED
        BY <2>1, <2>2
<1> HIDE DEF a, b
<1>3. SecondOf(t) < SecondOf(u) => Before(a, b)
    BY <1>1, <1>2 DEF Before
<1>4. ASSUME Before(a, b)
      PROVE  SecondOf(t) <= SecondOf(u)
    <2>1. PICK i \in DOMAIN a \cap DOMAIN b :
                a[i] < b[i] /\ \A k \in 1 .. i - 1 : a[k] = b[k]
        BY <1>4 DEF Before
    <2>2. CASE i = 1
        BY <1>1, <2>1, <2>2
    <2>3. CASE i # 1
        <3>1. 1 \in 1 .. i - 1
            BY <1>2, <2>3
        <3> QED
            BY <1>1, <2>1, <3>1
    <2> QED
        BY <2>2, <2>3
<1>5. a = b => SecondOf(t) <= SecondOf(u)
    BY <1>1
<1> QED
    BY <1>3, <1>4, <1>5 DEF NotAfter, a, b

(* What is parsed is what was formatted.                                   *)
LEMMA ParsedBack ==
    ASSUME NEW t \in 0 .. MaxTime + ttl
    PROVE  parseTime(formatTime(t)) = t
<1>1. \A u \in 0 .. MaxTime + ttl : formatTime(u) = formatTime(t) => u = t
    BY TextsDiffer, SessionAssumption
<1> QED
    BY <1>1 DEF parseTime

(***************************************************************************)
(* The table.  An entry is the text of the end of a session that somebody  *)
(* has; a session that has none any more ended no later than the second    *)
(* in which the pruner last ran; and what the pruner has left ended no     *)
(* earlier.                                                                *)
(***************************************************************************)
EndOf(s) == loggedIn[s] + ttl

Entry(s) ==
    /\ loggedIn[s] = Never => sessions[s] = None /\ s \notin loggedOut
    /\ loggedIn[s] # Never => loggedIn[s] <= now
    /\ sessions[s] # None => Lives(s) /\ sessions[s] = formatTime(EndOf(s))
    /\ Lives(s) /\ sessions[s] = None =>
          pruned # Never /\ SecondOf(EndOf(s)) <= SecondOf(pruned)
    /\ sessions[s] # None /\ pruned # Never /\ loggedIn[s] <= pruned =>
          SecondOf(EndOf(s)) >= SecondOf(pruned)

SessionInv ==
    /\ now \in Times
    /\ DOMAIN sessions = Sids
    /\ loggedIn \in [Sids -> Times \cup { Never }]
    /\ loggedOut \subseteq Sids
    /\ pruned \in Times \cup { Never } /\ pruned <= now
    /\ \A s \in Sids : Entry(s)

(* Times are numbers, Never is not one, no text is empty.                  *)
LEMMA TimeTypes ==
    /\ Times \subseteq Nat /\ Never \notin Nat /\ Never \in Int
    /\ \A t \in Nat : t + ttl \in Nat /\ t <= t + ttl /\ t < t + ttl
    /\ \A t \in Times : t + ttl \in 0 .. MaxTime + ttl
    /\ \A t \in Nat : formatTime(t) # None
<1>1. \A t \in Nat : formatTime(t) # None
    <2> TAKE t \in Nat
    <2>1. Len(formatTime(t)) = Width(t) + 2 /\ Width(t) \in Nat
        BY TextShape, WrittenPlaces, TimeAssumption
    <2> QED
        BY <2>1 DEF None
<1> QED
    BY <1>1, SessionAssumption DEF Times, Never

(* An empty table.                                                         *)
LEMMA SessionInit == Init => SessionInv
    BY TimeTypes, SessionAssumption DEF Init, SessionInv, Entry, Lives, Times, Never

(* An entry that does not change stays right while the clock and the       *)
(* pruner stand still.                                                     *)
LEMMA SameEntry ==
    ASSUME NEW s \in Sids, Entry(s), UNCHANGED << now, pruned >>,
           sessions'[s] = sessions[s], loggedIn'[s] = loggedIn[s],
           s \in loggedOut' <=> s \in loggedOut
    PROVE  Entry(s)'
    BY DEF Entry, EndOf, Lives

(* A new session ends a ttl later; had the pruner just run, it would have  *)
(* left it.                                                                *)
LEMMA LoginEntries ==
    ASSUME SessionInv, NEW s \in Sids, Login(s)
    PROVE  SessionInv'
<1>1. /\ UNCHANGED << now, loggedOut, pruned >>
      /\ DOMAIN sessions' = Sids /\ loggedIn' \in [Sids -> Times \cup { Never }]
      /\ sessions'[s] = formatTime(now + ttl) /\ loggedIn'[s] = now
      /\ s \notin loggedOut
      /\ \A r \in Sids \ {s} :
            sessions'[r] = sessions[r] /\ loggedIn'[r] = loggedIn[r]
    BY DEF SessionInv, Login, ExpiresAt, Entry
<1>2. now \in Nat /\ pruned \in Int /\ pruned <= now
    BY TimeTypes DEF SessionInv
<1>3. Entry(s)'
    <2>1. pruned # Never => pruned \in Nat
        BY TimeTypes DEF SessionInv
    <2>2. pruned # Never => SecondOf(now + ttl) >= SecondOf(pruned)
        BY <1>2, <2>1, TimeTypes, SecondType
    <2>3. EndOf(s)' = now + ttl
        BY <1>1 DEF EndOf
    <2> QED
        BY <1>1, <1>2, <2>2, <2>3, TimeTypes DEF Entry, Lives
<1>4. \A r \in Sids \ {s} : Entry(r)'
    BY <1>1, SameEntry DEF SessionInv
<1> QED
    BY <1>1, <1>3, <1>4 DEF SessionInv

(* A session that is logged out has no entry and does not come back.       *)
LEMMA LogoutEntries ==
    ASSUME SessionInv, NEW s \in Sids, Logout(s)
    PROVE  SessionInv'
<1>1. /\ UNCHANGED << now, loggedIn, pruned >> /\ loggedIn[s] # Never
      /\ DOMAIN sessions' = Sids /\ loggedOut' = loggedOut \cup {s}
      /\ sessions'[s] = None
      /\ \A r \in Sids \ {s} : sessions'[r] = sessions[r]
    BY DEF SessionInv, Logout
<1>2. Entry(s)'
    BY <1>1 DEF SessionInv, Entry, Lives
<1>3. \A r \in Sids \ {s} : Entry(r)'
    BY <1>1, SameEntry DEF SessionInv
<1> QED
    BY <1>1, <1>2, <1>3 DEF SessionInv

(* The pruner deletes by text what has ended, or ends in this very second. *)
LEMMA PruneEntries ==
    ASSUME SessionInv, PruneExpiredQBitSessions
    PROVE  SessionInv'
<1>1. /\ UNCHANGED << now, loggedIn, loggedOut >> /\ pruned' = now
      /\ DOMAIN sessions' = Sids
      /\ \A s \in Sids :
            sessions'[s] = IF sessions[s] # None /\ Expired(s)
                           THEN None ELSE sessions[s]
    BY DEF PruneExpiredQBitSessions
<1>2. now \in Times /\ now \in Nat /\ now # Never /\ now <= now
    BY TimeTypes DEF SessionInv
<1>3. ASSUME NEW s \in Sids
      PROVE  Entry(s)'
    <2>1. Entry(s)
        BY DEF SessionInv
    <2>2. EndOf(s)' = EndOf(s) /\ Lives(s)' = Lives(s)
        BY <1>1 DEF EndOf, Lives
    <2>3. loggedIn[s] # Never => EndOf(s) \in Nat
        BY TimeTypes DEF SessionInv, EndOf
    <2>4. CASE sessions[s] # None
        <3>1. sessions[s] = formatTime(EndOf(s)) /\ EndOf(s) \in Nat /\ Lives(s)
            BY <2>1, <2>3, <2>4 DEF Entry, Lives
        <3>2. Expired(s) => SecondOf(EndOf(s)) <= SecondOf(now)
            BY <1>2, <3>1, TextsOrdered DEF Expired
        <3>3. ~ Expired(s) => SecondOf(EndOf(s)) >= SecondOf(now)
            BY <1>2, <3>1, TextsOrdered, SecondType DEF Expired, NotAfter
        <3> QED
            BY <1>1, <1>2, <2>1, <2>2, <2>4, <3>1, <3>2, <3>3 DEF Entry, Lives
    <2>5. CASE sessions[s] = None
        <3>1. sessions'[s] = None
            BY <1>1, <2>5
        <3>2. Lives(s) => SecondOf(EndOf(s)) <= SecondOf(now)
            <4>1. Lives(s) => pruned \in Nat /\ SecondOf(EndOf(s)) <= SecondOf(pruned)
                BY <2>1, <2>5, TimeTypes DEF Entry, SessionInv
            <4>2. pruned \in Nat => SecondOf(pruned) <= SecondOf(now)
                BY <1>2, SecondType DEF SessionInv
            <4>3. Lives(s) => EndOf(s) \in Nat
                BY <2>3 DEF Lives
            <4> QED
                BY <1>2, <4>1, <4>2, <4>3, SecondType
        <3> QED
            BY <1>1, <1>2, <2>1, <2>2, <3>1, <3>2 DEF Entry, Lives
    <2> QED
        BY <2>4, <2>5
<1> QED
    BY <1>1, <1>2, <1>3 DEF SessionInv

(* The clock only makes sessions older.                                    *)
LEMMA AdvanceEntries ==
    ASSUME SessionInv, Advance
    PROVE  SessionInv'
<1>1. /\ UNCHANGED << sessions, loggedIn, loggedOut, pruned >>
      /\ now' = now + 1 /\ now < MaxTime /\ now \in Nat
    BY TimeTypes DEF Advance, SessionInv
<1>2. now' \in Times /\ pruned' <= now'
    BY <1>1, SessionAssumption, TimeTypes DEF Times, SessionInv
<1>3. ASSUME NEW s \in Sids
      PROVE  Entry(s)'
    <2>1. loggedIn[s] # Never => loggedIn[s] <= now + 1
        <3>1. Entry(s) /\ loggedIn[s] \in Times \cup { Never }
            BY DEF SessionInv
        <3>2. loggedIn[s] # Never => loggedIn[s] <= now
            BY <3>1 DEF Entry
        <3>3. loggedIn[s] # Never => loggedIn[s] \in Nat
            BY <3>1, TimeTypes
        <3> QED
            BY <1>1, <3>2, <3>3
    <2> QED
        BY <1>1, <2>1 DEF SessionInv, Entry, EndOf, Lives
<1> QED
    BY <1>1, <1>2, <1>3 DEF SessionInv

(* Every step keeps the invariant.                                         *)
LEMMA SessionStep == SessionInv /\ [Next]_vars => SessionInv'
<1> SUFFICES ASSUME SessionInv, [Next]_vars
             PROVE  SessionInv'
    OBVIOUS
<1>1. CASE \E s \in Sids : Login(s) \/ Logout(s)
    BY <1>1, LoginEntries, LogoutEntries
<1>2. CASE PruneExpiredQBitSessions
    BY <1>2, PruneEntries
<1>3. CASE Advance
    BY <1>3, AdvanceEntries
<1>4. CASE UNCHANGED vars
    BY <1>4 DEF vars, SessionInv, Entry, EndOf, Lives
<1> QED
    BY <1>1, <1>2, <1>3, <1>4 DEF Next

LEMMA SessionInvHolds == Spec => []SessionInv
    BY SessionInit, SessionStep, PTL DEF Spec

(* The table holds texts of ends of sessions and nothing else.             *)
THEOREM SessionTyping == Spec => []TypeOK
<1>1. SessionInv => TypeOK
    <2> SUFFICES ASSUME SessionInv, NEW s \in Sids, sessions[s] # None
                 PROVE  sessions[s] \in { formatTime(t + ttl) : t \in Times }
        BY DEF SessionInv, TypeOK
    <2> QED
        BY DEF SessionInv, Entry, Lives, EndOf
<1> QED
    BY <1>1, SessionInvHolds, PTL

(* A request is let in on a session exactly as long as it should be, but   *)
(* for the second in which it expires (Middleware, runPruner).             *)
THEOREM LetInRight == Spec => []LetIn
<1>1. SessionInv => LetIn
    <2> SUFFICES ASSUME SessionInv, NEW s \in Sids
                 PROVE  /\ Valid(s) => Lives(s) /\ now < loggedIn[s] + ttl
                        /\ Lives(s) /\ SecondOf(now) < SecondOf(loggedIn[s] + ttl)
                              => Valid(s)
        BY DEF LetIn
    <2>1. Entry(s) /\ now \in Nat
        BY TimeTypes DEF SessionInv
    <2>2. ASSUME sessions[s] # None
          PROVE  /\ Lives(s) /\ EndOf(s) \in Nat
                 /\ parseTime(sessions[s]) = EndOf(s)
        <3>1. Lives(s) /\ sessions[s] = formatTime(EndOf(s))
            BY <2>1, <2>2 DEF Entry
        <3>2. loggedIn[s] \in Times
            BY <3>1 DEF Lives, SessionInv
        <3>3. EndOf(s) \in Nat /\ EndOf(s) \in 0 .. MaxTime + ttl
            BY <3>2, TimeTypes DEF EndOf
        <3> QED
            BY <3>1, <3>3, ParsedBack
    <2>3. Valid(s) => Lives(s) /\ now < loggedIn[s] + ttl
        BY <2>1, <2>2 DEF Valid, EndOf
    <2>4. ASSUME Lives(s), SecondOf(now) < SecondOf(EndOf(s))
          PROVE  Valid(s)
        <3>1. EndOf(s) \in Nat
            BY <2>4, TimeTypes DEF SessionInv, EndOf, Lives
        <3>2. sessions[s] # None
            <4> SUFFICES ASSUME sessions[s] = None
                         PROVE  FALSE
                OBVIOUS
            <4>1. pruned \in Nat /\ pruned <= now
                  /\ SecondOf(EndOf(s)) <= SecondOf(pruned)
                BY <2>1, <2>4, TimeTypes DEF Entry, SessionInv
            <4> QED
                BY <2>1, <2>4, <3>1, <4>1, SecondType
        <3>3. now < EndOf(s)
            BY <2>1, <2>4, <3>1, SecondType
        <3> QED
            BY <2>1, <2>2, <3>2, <3>3 DEF Valid
    <2> QED
        BY <2>3, <2>4 DEF EndOf
<1> QED
    BY <1>1, SessionInvHolds, PTL

(* What the pruner leaves is good, or expired in the second it ran.        *)
THEOREM SweptClean == Spec => []Swept
<1>1. SessionInv => Swept
    BY DEF SessionInv, Entry, EndOf, Swept
<1> QED
    BY <1>1, SessionInvHolds, PTL

(* Text order is time order between seconds, and no two times have one     *)
(* text: claims by next_run_at, the pruner's cutoff and expires_at.        *)
THEOREM TextOrderRight == Spec => []TextOrder
<1>1. SessionInv => TextOrder
    <2>1. now \in Times => TextOrder
        BY TextsOrdered, TextsDiffer, TimeTypes DEF TextOrder
    <2> QED
        BY <2>1 DEF SessionInv
<1> QED
    BY <1>1, SessionInvHolds, PTL
=============================================================================
