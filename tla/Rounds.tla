--------------------------------- MODULE Rounds -----------------------------
(***************************************************************************)
(* Counting round a ring: n buffers or entries, of which the count a falls *)
(* on number a % n.  Used for the ring of audio and video (RtpSession) and *)
(* the ring of the last packets (UdpServer).                               *)
(***************************************************************************)
EXTENDS Integers, TLAPS

LEMMA DivMod ==
  ASSUME NEW n \in Nat \ {0}, NEW a \in Nat
  PROVE  /\ a % n \in 0 .. n - 1
         /\ a = n * (a \div n) + (a % n)
         /\ a \div n \in Nat
BY SMTT(30)

LEMMA ModUnique ==
  ASSUME NEW n \in Nat \ {0}, NEW q \in Nat, NEW r \in 0 .. n - 1
  PROVE  (n * q + r) % n = r
BY SMTT(30)

\* Counting up and taking the remainder is stepping round the ring.
LEMMA ModNext ==
  ASSUME NEW n \in Nat \ {0}, NEW a \in Nat
  PROVE  (a + 1) % n = ((a % n) + 1) % n
<1> DEFINE q == a \div n
           r == a % n
<1>1. r \in 0 .. n - 1 /\ a = n * q + r /\ q \in Nat
  BY DivMod
<1> HIDE DEF q, r
<1>2. CASE r + 1 < n
  <2>1. (n * q + (r + 1)) % n = r + 1 /\ (n * 0 + (r + 1)) % n = r + 1
    BY <1>1, <1>2, ModUnique
  <2>2. a + 1 = n * q + (r + 1) /\ n * 0 + (r + 1) = r + 1
    BY <1>1
  <2> QED BY <2>1, <2>2 DEF r
<1>3. CASE r + 1 = n
  <2>1. (n * (q + 1) + 0) % n = 0 /\ (n * 1 + 0) % n = 0
    BY <1>1, ModUnique
  <2>2. a + 1 = n * (q + 1) + 0 /\ r + 1 = n * 1 + 0
    BY <1>1, <1>3
  <2> QED BY <2>1, <2>2 DEF r
<1> QED BY <1>1, <1>2, <1>3

\* Less than a round apart, two counts are in different buffers.
LEMMA ModApart ==
  ASSUME NEW n \in Nat \ {0}, NEW a \in Nat, NEW b \in Nat, a < b, b < a + n
  PROVE  a % n # b % n
<1> DEFINE q == a \div n
           r == a % n
           p == b \div n
           s == b % n
<1>1. r \in 0 .. n - 1 /\ a = n * q + r /\ q \in Nat
  BY DivMod
<1>2. s \in 0 .. n - 1 /\ b = n * p + s /\ p \in Nat
  BY DivMod
<1> HIDE DEF q, r, p, s
<1>3. SUFFICES ASSUME r = s PROVE FALSE
  BY DEF r, s
<1>4. n * p > n * q /\ n * p < n * q + n
  BY <1>1, <1>2, <1>3
<1>5. n * q + n = n * (q + 1)
  BY <1>1
<1>6. p >= q + 1
  BY <1>4, <1>1, <1>2
<1>7. n * p >= n * (q + 1)
  BY <1>6, <1>1, <1>2
<1> QED BY <1>4, <1>5, <1>7, <1>1, <1>2
=============================================================================
