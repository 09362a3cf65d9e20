------------------------- MODULE RateLimiterProofs -------------------------
(***************************************************************************)
(* AdmissionBound, RetryAfterKept and TableAgrees for every set of         *)
(* clients, rate, burst and table size.  The first two rest on what a      *)
(* bucket's tokens are worth: Credit says that tokens spent and tokens     *)
(* left together never exceed a full bucket plus the refill since any      *)
(* earlier admission; how the list picks the client to evict plays no      *)
(* part.  That map and list agree is an argument of its own, TableInv.     *)
(***************************************************************************)
EXTENDS RateLimiter, FiniteSetTheorems, TLAPS

LimiterTypes ==
    /\ now \in Nat
    /\ \A k \in DOMAIN buckets : /\ k \in Clients
                                 /\ buckets[k].tokens \in Nat
                                 /\ buckets[k].tokens <= Full
                                 /\ buckets[k].last \in Nat
                                 /\ buckets[k].last <= now
    /\ admitted \in [Clients -> Seq(Nat)]
    /\ retryAt \in [Clients -> Nat]
    /\ \A k \in Clients : k \notin DOMAIN buckets => admitted[k] = <<>>

\* What was admitted since the i-th admission, and what is left, was paid for.
Credit ==
    \A k \in DOMAIN buckets : \A i \in 1..Len(admitted[k]) :
        /\ admitted[k][i] <= buckets[k].last
        /\ (Len(admitted[k]) - i + 1) * Token + buckets[k].tokens
             <= Full + Refill(admitted[k][i], buckets[k].last)

\* The refill until retryAt makes a token.
RetryFunded ==
    \A k \in DOMAIN buckets :
        retryAt[k] # 0 =>
            /\ buckets[k].last <= retryAt[k]
            /\ Token <= buckets[k].tokens
                          + Refill(buckets[k].last, retryAt[k])

IInv == LimiterTypes /\ Credit /\ RetryFunded /\ AdmissionBound

-----------------------------------------------------------------------------
(* Arithmetic.                                                             *)

\* Full is a number, at least one token.
LEMMA FullFact == Full \in Nat /\ Token <= Full
  BY RateLimiterAssumption, SMT DEF Full, Token

\* A refill over two intervals is the refill over both.
LEMMA RefillAdds ==
  ASSUME NEW a \in Nat, NEW b \in Nat, NEW c \in Nat, a <= b, b <= c
  PROVE  /\ Refill(a, b) \in Nat /\ Refill(b, c) \in Nat /\ Refill(a, c) \in Nat
         /\ Refill(a, c) = Refill(a, b) + Refill(b, c)
         /\ Refill(a, a) = 0
  <1>1. PerMinute \in Nat
    BY RateLimiterAssumption
  <1> QED
    BY <1>1, SMT DEF Refill

\* Rounding down and adding one is never short.
LEMMA DivUp ==
  ASSUME NEW d \in Nat
  PROVE  d \div PerMinute \in Nat /\ d <= PerMinute * (d \div PerMinute + 1)
  BY RateLimiterAssumption, SMT

-----------------------------------------------------------------------------
\* The refilled bucket: at most full, and no more than time paid for.
LEMMA RefilledFact ==
  ASSUME LimiterTypes, NEW c \in Clients
  PROVE  /\ Refilled(c) \in Nat
         /\ Refilled(c) <= Full
         /\ Known(c) => Refilled(c) <= buckets[c].tokens
                                         + Refill(buckets[c].last, now)
  <1>1. CASE Known(c)
    <2>1. Refill(buckets[c].last, now) \in Nat
      <3>1. buckets[c].last \in Nat /\ now \in Nat /\ buckets[c].last <= now
        BY <1>1 DEF LimiterTypes, Known
      <3>2. now <= now
        BY <3>1
      <3> QED
        BY <3>1, <3>2, RefillAdds
    <2> QED
      BY <1>1, <2>1, FullFact, SMT DEF LimiterTypes, Known, Refilled
  <1>2. CASE ~Known(c)
    BY <1>2, FullFact DEF Refilled
  <1> QED
    BY <1>1, <1>2

\* The refill over the Retry-After of a denial makes up for the missing part.
LEMMA RetryAfterFact ==
  ASSUME NEW t \in Nat, t < Token
  PROVE  /\ RetryAfter(t) \in Nat
         /\ Token <= t + PerMinute * RetryAfter(t)
         /\ PerMinute * RetryAfter(t) \in Nat
  <1>1. Token - t \in Nat
    BY SMT DEF Token
  <1>2. /\ (Token - t) \div PerMinute \in Nat
        /\ Token - t <= PerMinute * ((Token - t) \div PerMinute + 1)
    BY <1>1, DivUp
  <1> DEFINE r == (Token - t) \div PerMinute + 1
  <1>3. r \in Nat /\ Token - t <= PerMinute * r
    BY <1>2
  <1>4. RetryAfter(t) = r
    BY DEF RetryAfter
  <1> HIDE DEF r
  <1>5. PerMinute * r \in Nat
    BY <1>3, RateLimiterAssumption, SMT
  <1> QED
    BY <1>3, <1>4, <1>5, SMT DEF Token

-----------------------------------------------------------------------------
\* What Check(c) does to the variables, t being the refilled bucket.
LEMMA CheckFacts ==
  ASSUME LimiterTypes, NEW c \in Clients, Check(c)
  PROVE  /\ now' = now
         /\ DOMAIN buckets' \subseteq DOMAIN buckets \cup {c}
         /\ c \in DOMAIN buckets'
         /\ buckets'[c].last = now
         /\ buckets'[c].tokens = IF Allowed(Refilled(c)) THEN Refilled(c) - Token
                                                         ELSE Refilled(c)
         /\ \A k \in DOMAIN buckets' : k # c => buckets'[k] = buckets[k]
         /\ admitted' \in [Clients -> Seq(Nat)]
         /\ \A k \in Clients : k # c => admitted'[k] \in {<<>>, admitted[k]}
         /\ \A k \in Clients : k \notin DOMAIN buckets' => admitted'[k] = <<>>
         /\ admitted'[c] = <<>> \/ admitted'[c] = IF Allowed(Refilled(c))
                                                  THEN Append(admitted[c], now)
                                                  ELSE admitted[c]
         /\ retryAt' = [retryAt EXCEPT
                ![c] = IF Allowed(Refilled(c)) THEN 0
                       ELSE now + RetryAfter(Refilled(c))]
  <1> DEFINE t == Refilled(c)
  <1>1. buckets' = [k \in KeysAfter(c) |->
                      IF k = c THEN BucketAfter(c, t) ELSE buckets[k]]
    BY DEF Check
  <1>2. /\ DOMAIN buckets' = KeysAfter(c)
        /\ KeysAfter(c) = (DOMAIN buckets \ Evicted(c)) \cup {c}
    BY <1>1 DEF KeysAfter
  <1>3. /\ buckets'[c] = BucketAfter(c, t)
        /\ \A k \in DOMAIN buckets' : k # c => buckets'[k] = buckets[k]
    BY <1>1, <1>2
  <1>4. /\ buckets'[c].last = now
        /\ buckets'[c].tokens = IF Allowed(t) THEN t - Token ELSE t
    BY <1>3 DEF BucketAfter
  <1>5. admitted' = [k \in Clients |->
                       IF k \in Evicted(c) THEN <<>>
                       ELSE IF k = c /\ Allowed(t) THEN Append(admitted[k], now)
                       ELSE admitted[k]]
    BY DEF Check
  <1>6. \A k \in Clients : Append(admitted[k], now) \in Seq(Nat)
    BY DEF LimiterTypes
  <1>7. admitted' \in [Clients -> Seq(Nat)]
    BY <1>5, <1>6 DEF LimiterTypes
  <1>8. \A k \in Clients : k # c => admitted'[k] \in {<<>>, admitted[k]}
    BY <1>5
  <1>9. \A k \in Clients : k \notin DOMAIN buckets' => admitted'[k] = <<>>
    BY <1>2, <1>5 DEF LimiterTypes
  <1>10. admitted'[c] = <<>> \/ admitted'[c] = IF Allowed(t)
                                               THEN Append(admitted[c], now)
                                               ELSE admitted[c]
    BY <1>5
  <1> QED
    BY <1>2, <1>3, <1>4, <1>7, <1>8, <1>9, <1>10 DEF Check

-----------------------------------------------------------------------------
(* Check(c) preserves the invariant.                                       *)

\* Check keeps the types.
LEMMA CheckTypes ==
  ASSUME IInv, NEW c \in Clients, Check(c)
  PROVE  LimiterTypes'
  <1>1. LimiterTypes
    BY DEF IInv
  <1>2. /\ Refilled(c) \in Nat
        /\ Refilled(c) <= Full
    BY <1>1, RefilledFact
  <1>3. now' \in Nat /\ now' = now
    BY <1>1, CheckFacts DEF LimiterTypes
  <1>4. ASSUME NEW k \in DOMAIN buckets'
        PROVE  /\ k \in Clients
               /\ buckets'[k].tokens \in Nat
               /\ buckets'[k].tokens <= Full
               /\ buckets'[k].last \in Nat
               /\ buckets'[k].last <= now'
    <2>1. CASE k = c
      <3>1. /\ buckets'[c].last = now
            /\ buckets'[c].tokens = IF Allowed(Refilled(c)) THEN Refilled(c) - Token
                                                            ELSE Refilled(c)
        BY <1>1, CheckFacts
      <3>2. buckets'[c].tokens \in Nat /\ buckets'[c].tokens <= Full
        BY <1>2, <3>1, FullFact, SMT DEF Allowed, Token
      <3> QED
        BY <1>1, <1>3, <2>1, <3>1, <3>2, SMT DEF LimiterTypes
    <2>2. CASE k # c
      <3>1. k \in DOMAIN buckets /\ buckets'[k] = buckets[k]
        BY <1>1, <2>2, CheckFacts
      <3> QED
        BY <1>1, <1>3, <3>1 DEF LimiterTypes
    <2> QED
      BY <2>1, <2>2
  <1>5. /\ admitted' \in [Clients -> Seq(Nat)]
        /\ \A k \in Clients : k \notin DOMAIN buckets' => admitted'[k] = <<>>
    BY <1>1, CheckFacts
  <1>6. retryAt' \in [Clients -> Nat]
    <2>1. retryAt' = [retryAt EXCEPT
                        ![c] = IF Allowed(Refilled(c)) THEN 0
                               ELSE now + RetryAfter(Refilled(c))]
      BY <1>1, CheckFacts
    <2>2. ~Allowed(Refilled(c)) => now + RetryAfter(Refilled(c)) \in Nat
      BY <1>1, <1>2, RetryAfterFact, SMT DEF Allowed, Token, LimiterTypes
    <2> QED
      BY <1>1, <2>1, <2>2 DEF LimiterTypes
  <1>7. Full' = Full
    BY DEF Full, Token
  <1> QED
    BY <1>3, <1>4, <1>5, <1>6, <1>7 DEF LimiterTypes

\* Check keeps the account of every admission: it adds what time paid for and
\* spends a token only when it admits.
LEMMA CheckCredit ==
  ASSUME IInv, NEW c \in Clients, Check(c)
  PROVE  Credit'
  <1> SUFFICES ASSUME NEW k \in DOMAIN buckets', NEW i \in 1..Len(admitted'[k])
               PROVE  /\ admitted'[k][i] <= buckets'[k].last
                      /\ (Len(admitted'[k]) - i + 1) * Token + buckets'[k].tokens
                           <= Full + Refill(admitted'[k][i], buckets'[k].last)
    BY DEF Credit, Full, Token
  <1>1. LimiterTypes /\ Credit
    BY DEF IInv
  <1>2. LimiterTypes'
    BY CheckTypes
  <1>3. /\ admitted'[k] \in Seq(Nat)
        /\ i \in Nat /\ 1 <= i /\ i <= Len(admitted'[k])
        /\ admitted'[k] # <<>>
    BY <1>2 DEF LimiterTypes
  <1>4. CASE k # c
    <2>1. k \in DOMAIN buckets /\ buckets'[k] = buckets[k]
      BY <1>1, <1>4, CheckFacts
    <2>2. k \in Clients
      BY <1>1, <2>1 DEF LimiterTypes
    <2>3. admitted'[k] = admitted[k]
      BY <1>1, <1>3, <1>4, <2>2, CheckFacts
    <2> QED
      BY <1>1, <2>1, <2>3 DEF Credit
  <1>5. CASE k = c
    <2> DEFINE t == Refilled(c)
               n == Len(admitted[c])
    <2>1. t \in Nat /\ t <= Full
      BY <1>1, RefilledFact
    <2>2. /\ buckets'[c].last = now
          /\ buckets'[c].tokens = IF Allowed(t) THEN t - Token ELSE t
      BY <1>1, CheckFacts
    <2>3. admitted'[c] = IF Allowed(t) THEN Append(admitted[c], now) ELSE admitted[c]
      BY <1>1, <1>3, <1>5, CheckFacts
    <2>4. admitted[c] \in Seq(Nat) /\ n \in Nat /\ now \in Nat
      BY <1>1 DEF LimiterTypes
    \* an earlier admission: the bucket was there, and its credit grew by time
    <2>5. ASSUME i <= n
          PROVE  /\ admitted[c][i] \in Nat
                 /\ admitted[c][i] <= now
                 /\ Refill(admitted[c][i], now) \in Nat
                 /\ (n - i + 1) * Token + t <= Full + Refill(admitted[c][i], now)
      <3> DEFINE a == admitted[c][i]
                 b == buckets[c].last
                 s == buckets[c].tokens
                 d == n - i + 1
      <3>1. i \in 1..n /\ d \in Nat
        BY <1>3, <2>4, <2>5
      <3>2. c \in DOMAIN buckets
        BY <1>1, <3>1 DEF LimiterTypes
      <3>3. a \in Nat /\ b \in Nat /\ b <= now /\ s \in Nat
        BY <1>1, <2>4, <3>1, <3>2 DEF LimiterTypes
      <3>4. a <= b /\ d * Token + s <= Full + Refill(a, b)
        BY <1>1, <3>1, <3>2 DEF Credit
      <3>5. t <= s + Refill(b, now)
        BY <1>1, <3>2, RefilledFact DEF Known
      <3> HIDE DEF a, b, s, d, t, n
      <3>6. /\ Refill(a, now) = Refill(a, b) + Refill(b, now)
            /\ Refill(a, b) \in Nat
        BY <2>4, <3>3, <3>4, RefillAdds
      <3>7. now <= now /\ Refill(b, now) \in Nat
        <4>1. now <= now
          BY <2>4
        <4> QED
          BY <2>4, <3>3, <4>1, RefillAdds
      <3>8. a <= now
        BY <2>4, <3>3, <3>4
      <3>9. d * Token + t <= Full + Refill(a, now)
        BY <2>1, <3>1, <3>3, <3>4, <3>5, <3>6, <3>7, FullFact, SMT DEF Token
      <3>10. Refill(a, now) \in Nat
        BY <3>6, <3>7, SMT
      <3> USE DEF a, d
      <3> QED
        BY <3>3, <3>8, <3>9, <3>10
    <2>6. CASE ~Allowed(t)
      <3>1. admitted'[c] = admitted[c] /\ i <= n /\ buckets'[c].tokens = t
        BY <1>3, <1>5, <2>2, <2>3, <2>6
      <3> QED
        BY <1>5, <2>2, <2>5, <3>1
    <2>7. CASE Allowed(t)
      <3>1. /\ Len(admitted'[c]) = n + 1
            /\ admitted'[c][n + 1] = now
            /\ i <= n => admitted'[c][i] = admitted[c][i]
            /\ buckets'[c].tokens = t - Token
        BY <1>3, <2>2, <2>3, <2>4, <2>7
      <3>2. CASE i <= n
        <4> DEFINE a == admitted[c][i]
                   p == Refill(a, now)
        <4>1. a <= now /\ p \in Nat /\ (n - i + 1) * Token + t <= Full + p
          BY <2>5, <3>2
        <4> HIDE DEF p, t, n
        <4>2. (n + 1 - i + 1) * Token + (t - Token) <= Full + p
          BY <1>3, <2>1, <2>4, <4>1, FullFact, SMT DEF Token
        <4>3. /\ admitted'[k][i] = a /\ buckets'[k].last = now
              /\ Len(admitted'[k]) = n + 1 /\ buckets'[k].tokens = t - Token
          BY <1>5, <2>2, <3>1, <3>2
        <4>4. Refill(admitted'[k][i], buckets'[k].last) = p
          BY <4>3 DEF p
        <4> HIDE DEF a
        <4> QED
          BY <1>3, <2>1, <2>4, <4>1, <4>2, <4>3, <4>4, FullFact, SMT DEF Token
      <3>3. CASE i = n + 1
        <4>1. Refill(now, now) = 0
          <5>1. now <= now
            BY <2>4
          <5> QED
            BY <2>4, <5>1, RefillAdds
        <4>2. now <= now
          BY <2>4
        <4> HIDE DEF t, n
        <4>3. (n + 1 - (n + 1) + 1) * Token + (t - Token) <= Full + 0
          BY <2>1, <2>4, FullFact, SMT DEF Token
        <4>4. /\ admitted'[k][i] = now /\ buckets'[k].last = now
              /\ Len(admitted'[k]) = n + 1 /\ buckets'[k].tokens = t - Token
          BY <1>5, <2>2, <3>1, <3>3
        <4>5. Refill(admitted'[k][i], buckets'[k].last) = 0
          BY <4>1, <4>4
        <4> QED
          BY <1>3, <2>1, <2>4, <3>3, <4>2, <4>3, <4>4, <4>5, FullFact, SMT DEF Token
      <3> QED
        BY <1>3, <1>5, <2>4, <3>1, <3>2, <3>3, SMT
    <2> QED
      BY <2>6, <2>7
  <1> QED
    BY <1>4, <1>5

\* A denial leaves a Retry-After that the refill will have funded.
LEMMA CheckRetryFunded ==
  ASSUME IInv, NEW c \in Clients, Check(c)
  PROVE  RetryFunded'
  <1> SUFFICES ASSUME NEW k \in DOMAIN buckets', retryAt'[k] # 0
               PROVE  /\ buckets'[k].last <= retryAt'[k]
                      /\ Token <= buckets'[k].tokens
                                    + Refill(buckets'[k].last, retryAt'[k])
    BY DEF RetryFunded, Token
  <1>1. LimiterTypes /\ RetryFunded
    BY DEF IInv
  <1>2. retryAt' = [retryAt EXCEPT
                      ![c] = IF Allowed(Refilled(c)) THEN 0
                             ELSE now + RetryAfter(Refilled(c))]
    BY <1>1, CheckFacts
  <1>3. CASE k # c
    <2>1. k \in DOMAIN buckets /\ buckets'[k] = buckets[k]
      BY <1>1, <1>3, CheckFacts
    <2>2. retryAt'[k] = retryAt[k]
      BY <1>1, <1>2, <1>3, <2>1 DEF LimiterTypes
    <2> QED
      BY <1>1, <2>1, <2>2 DEF RetryFunded
  <1>4. CASE k = c
    <2> DEFINE t == Refilled(c)
               r == RetryAfter(t)
    <2>1. t \in Nat /\ now \in Nat
      BY <1>1, RefilledFact DEF LimiterTypes
    <2>2. retryAt'[c] = IF Allowed(t) THEN 0 ELSE now + r
      BY <1>1, <1>2 DEF LimiterTypes
    <2>3. ~Allowed(t) /\ t < Token /\ retryAt'[k] = now + r
      BY <1>4, <2>1, <2>2 DEF Allowed, Token
    <2>4. /\ buckets'[k].last = now
          /\ buckets'[k].tokens = t
      BY <1>1, <1>4, <2>3, CheckFacts
    <2>5. /\ r \in Nat
          /\ Token <= t + PerMinute * r
          /\ PerMinute * r \in Nat
      BY <2>1, <2>3, RetryAfterFact
    <2> HIDE DEF t, r
    <2>6. (now + r) - now = r
      BY <2>1, <2>5
    <2>7. Refill(now, now + r) = PerMinute * r
      BY <2>6 DEF Refill
    <2>8. now <= now + r
      BY <2>1, <2>5
    <2> QED
      BY <2>3, <2>4, <2>5, <2>7, <2>8
  <1> QED
    BY <1>3, <1>4

\* An admission that Check grants is within the bound, by the account.
LEMMA CheckBound ==
  ASSUME IInv, NEW c \in Clients, Check(c)
  PROVE  AdmissionBound'
  <1> SUFFICES ASSUME NEW k \in Clients,
                      NEW i \in 1..Len(admitted'[k]), NEW j \in 1..Len(admitted'[k]),
                      i <= j
               PROVE  (j - i + 1) * Token
                        <= Full + Refill(admitted'[k][i], admitted'[k][j])
    BY DEF AdmissionBound, Full, Token, Refill
  <1>1. LimiterTypes /\ AdmissionBound
    BY DEF IInv
  <1>2. LimiterTypes' /\ Credit'
    BY CheckTypes, CheckCredit
  <1>3. admitted'[k] \in Seq(Nat) /\ admitted'[k] # <<>>
    BY <1>2 DEF LimiterTypes
  <1>4. CASE admitted'[k] = admitted[k]
    BY <1>1, <1>4 DEF AdmissionBound
  <1>5. CASE admitted'[k] # admitted[k]
    <2> DEFINE n == Len(admitted[k])
    <2>1. k = c /\ admitted'[k] = Append(admitted[k], now)
      BY <1>1, <1>3, <1>5, CheckFacts
    <2>2. admitted[k] \in Seq(Nat) /\ n \in Nat /\ now \in Nat
      BY <1>1 DEF LimiterTypes
    <2>3. /\ Len(admitted'[k]) = n + 1
          /\ \A m \in 1..n : admitted'[k][m] = admitted[k][m]
          /\ admitted'[k][n + 1] = now
      BY <2>1, <2>2
    <2>4. CASE j <= n
      <3>1. i \in 1..n /\ j \in 1..n
        BY <2>2, <2>4
      <3> QED
        BY <1>1, <2>3, <3>1 DEF AdmissionBound
    <2>5. CASE j = n + 1
      <3>1. /\ k \in DOMAIN buckets'
            /\ buckets'[k].last = now
        BY <1>1, <2>1, CheckFacts
      <3>2. buckets'[k].tokens \in Nat
        BY <1>2, <3>1 DEF LimiterTypes
      <3>3. (Len(admitted'[k]) - i + 1) * Token + buckets'[k].tokens
              <= Full + Refill(admitted'[k][i], now)
        BY <1>2, <3>1 DEF Credit, Full, Token, Refill
      <3> DEFINE p == Refill(admitted'[k][i], now)
      <3>4. admitted'[k][i] \in Nat /\ admitted'[k][i] <= now
        BY <1>2, <1>3, <3>1, SMTT(30) DEF Credit
      <3>5. now <= now
        BY <2>2
      <3>6. p \in Nat
        BY <2>2, <3>4, <3>5, RefillAdds
      <3>7. j = Len(admitted'[k]) /\ admitted'[k][j] = now
        BY <2>3, <2>5
      <3> HIDE DEF p, n
      <3>8. (j - i + 1) * Token <= Full + p
        <4>1. (j - i + 1) * Token + buckets'[k].tokens <= Full + p
          BY <3>3, <3>7 DEF p
        <4> QED
          BY <3>2, <3>6, <4>1, FullFact, SMT DEF Token
      <3> QED
        BY <3>7, <3>8 DEF p
    <2> QED
      BY <2>2, <2>3, <2>4, <2>5
  <1> QED
    BY <1>4, <1>5

-----------------------------------------------------------------------------
\* The invariant holds in an empty table.
LEMMA InvInit == Init => IInv
  <1> SUFFICES ASSUME Init PROVE IInv
    OBVIOUS
  <1>1. DOMAIN buckets = {}
    BY DEF Init
  <1>2. \A c \in Clients : admitted[c] = <<>> /\ Len(admitted[c]) = 0
    BY DEF Init
  <1>3. LimiterTypes
    BY <1>1 DEF Init, LimiterTypes
  <1>4. Credit /\ RetryFunded
    BY <1>1 DEF Credit, RetryFunded
  <1>5. AdmissionBound
    BY <1>2 DEF AdmissionBound
  <1> QED
    BY <1>3, <1>4, <1>5 DEF IInv

\* Every step keeps the invariant.
LEMMA InvStep == IInv /\ [Next]_vars => IInv'
  <1> SUFFICES ASSUME IInv, [Next]_vars PROVE IInv'
    OBVIOUS
  <1>1. CASE Request
    <2>1. PICK xff \in Clients \cup {NoXFF}, addr \in Clients :
                 Check(ClientIDFor(xff, addr))
      BY <1>1 DEF Request
    <2>2. ClientIDFor(xff, addr) \in Clients
      BY DEF ClientIDFor
    <2> QED
      BY <2>1, <2>2, CheckTypes, CheckCredit, CheckRetryFunded, CheckBound DEF IInv
  <1>2. CASE Tick
    <2>1. now' = now + 1 /\ UNCHANGED <<buckets, lru, admitted, retryAt>>
      BY <1>2 DEF Tick
    <2>2. LimiterTypes'
      BY <2>1, SMT DEF IInv, LimiterTypes, Full, Token
    <2>3. Credit' /\ RetryFunded' /\ AdmissionBound'
      BY <2>1 DEF IInv, Credit, RetryFunded, AdmissionBound, Full, Token, Refill
    <2> QED
      BY <2>2, <2>3 DEF IInv
  <1>3. CASE UNCHANGED vars
    BY <1>3 DEF vars, IInv, LimiterTypes, Credit, RetryFunded, AdmissionBound,
                Full, Token, Refill
  <1> QED
    BY <1>1, <1>2, <1>3 DEF Next

\* When the time named has come, the refilled bucket holds a token.
LEMMA InvKeepsRetry == IInv => RetryAfterKept
  <1> SUFFICES ASSUME IInv, NEW c \in Clients, retryAt[c] # 0, retryAt[c] <= now
               PROVE  Allowed(Refilled(c))
    BY DEF RetryAfterKept
  <1>1. LimiterTypes /\ RetryFunded
    BY DEF IInv
  <1>2. CASE ~Known(c)
    BY <1>2, FullFact DEF Refilled, Allowed, Token
  <1>3. CASE Known(c)
    <2> DEFINE b == buckets[c].last
               s == buckets[c].tokens
               r == retryAt[c]
    <2>1. b \in Nat /\ s \in Nat /\ r \in Nat /\ now \in Nat /\ r <= now
      BY <1>1, <1>3 DEF LimiterTypes, Known
    <2>2. b <= r /\ Token <= s + Refill(b, r)
      BY <1>1, <1>3 DEF RetryFunded, Known
    <2>3. Refilled(c) = IF s + Refill(b, now) < Full THEN s + Refill(b, now) ELSE Full
      BY <1>3 DEF Refilled
    <2> HIDE DEF b, s, r
    <2>4. /\ Refill(b, now) = Refill(b, r) + Refill(r, now)
          /\ Refill(b, r) \in Nat /\ Refill(r, now) \in Nat
      BY <2>1, <2>2, RefillAdds, SMTT(30)
    <2>5. Token <= s + Refill(b, now)
      BY <2>1, <2>2, <2>4, SMT DEF Token
    <2> QED
      BY <2>3, <2>5, FullFact DEF Allowed
  <1> QED
    BY <1>2, <1>3

-----------------------------------------------------------------------------
\* Limiter.Check never lets a client through more often than burst and refill
\* allow, in any interval of its bucket's life, for any rate, burst, table
\* size and number of clients.
THEOREM AdmissionAlwaysBounded == Spec => []AdmissionBound
  <1>1. IInv => AdmissionBound
    BY DEF IInv
  <1> QED
    BY <1>1, InvInit, InvStep, PTL DEF Spec

\* The Retry-After that Limiter.Check computes is never too short, for any
\* rate, burst, table size and number of clients.
THEOREM RetryAfterAlwaysKept == Spec => []RetryAfterKept
  BY InvInit, InvStep, InvKeepsRetry, PTL DEF Spec

-----------------------------------------------------------------------------
(* Map and list.  The list holds each client of the map once; Check moves  *)
(* or appends one place and removes at most the first.                     *)

Distinct(s) == \A i, j \in 1..Len(s) : s[i] = s[j] => i = j
Lists(s, S) == /\ \A i \in 1..Len(s) : s[i] \in S
               /\ \A c \in S : \E i \in 1..Len(s) : s[i] = c

\* The clients of a list of buckets, longest unchecked first.
Ordered(s, b) == \A i, j \in 1..Len(s) : i < j => b[s[i]].last <= b[s[j]].last

TableSound ==
    /\ lru \in Seq(Clients)
    /\ Distinct(lru) /\ Lists(lru, DOMAIN buckets)
    /\ Len(lru) <= MaxKeys
    /\ Ordered(lru, buckets)

TableInv == LimiterTypes /\ TableSound

\* A list without repetition is as long as its set is large.
LEMMA DistinctCount ==
  ASSUME NEW s \in Seq(Clients), NEW S, Distinct(s), Lists(s, S)
  PROVE  Cardinality(S) = Len(s) /\ S = {s[i] : i \in 1..Len(s)}
  <1>1. Len(s) \in Nat /\ s \in [1..Len(s) -> S]
    BY DEF Lists
  <1>2. s \in Bijection(1..Len(s), S)
    BY <1>1 DEF Distinct, Lists, Bijection, Injection, Surjection, IsInjective
  <1>3. ExistsBijection(1..Len(s), S)
    BY <1>2 DEF ExistsBijection
  <1> QED
    BY <1>1, <1>3, FS_CountingElements DEF Lists

\* The list without its i-th element.
LEMMA RemoveAtFacts ==
  ASSUME NEW s \in Seq(Clients), NEW i \in 1..Len(s)
  PROVE  /\ RemoveAt(s, i) \in Seq(Clients)
         /\ Len(RemoveAt(s, i)) = Len(s) - 1
         /\ \A j \in 1..(Len(s) - 1) : RemoveAt(s, i)[j] = IF j < i THEN s[j] ELSE s[j + 1]
  <1> DEFINE a == SubSeq(s, 1, i - 1)
             b == SubSeq(s, i + 1, Len(s))
  <1>1. Len(s) \in Nat /\ i \in Nat /\ 1 <= i /\ i <= Len(s)
    OBVIOUS
  <1>2. /\ a \in Seq(Clients) /\ Len(a) = i - 1
        /\ \A j \in 1..(i - 1) : a[j] = s[j]
    BY <1>1
  <1>3. /\ b \in Seq(Clients) /\ Len(b) = Len(s) - i
        /\ \A j \in 1..(Len(s) - i) : b[j] = s[j + i]
    BY <1>1
  <1>4. RemoveAt(s, i) = a \o b
    BY DEF RemoveAt
  <1> HIDE DEF a, b
  <1>5. a \o b \in Seq(Clients) /\ Len(a \o b) = Len(s) - 1
    <2>1. a \o b \in Seq(Clients)
      BY <1>2, <1>3
    <2>2. Len(a \o b) = Len(a) + Len(b)
      <3>1. a \in Seq(Clients) /\ b \in Seq(Clients)
        BY <1>2, <1>3
      <3> QED
        BY <3>1
    <2> QED
      BY <1>1, <1>2, <1>3, <2>1, <2>2
  <1>6. ASSUME NEW j \in 1..(Len(s) - 1)
        PROVE  (a \o b)[j] = IF j < i THEN s[j] ELSE s[j + 1]
    <2>1. CASE j < i
      BY <1>1, <1>2, <1>3, <2>1
    <2>2. CASE ~(j < i)
      <3>1. (a \o b)[j] = b[j - (i - 1)]
        BY <1>1, <1>2, <1>3, <2>2
      <3>2. j - (i - 1) \in 1..(Len(s) - i) /\ (j - (i - 1)) + i = j + 1
        BY <1>1, <2>2
      <3> QED
        BY <1>3, <2>2, <3>1, <3>2
    <2> QED
      BY <2>1, <2>2
  <1> QED
    BY <1>4, <1>5, <1>6

\* A list of S without c, to which c is appended, lists S and c, each once,
\* in order if c was checked last.
LEMMA AppendClient ==
  ASSUME NEW s \in Seq(Clients), NEW c \in Clients, NEW S, c \notin S,
         Distinct(s), Lists(s, S), NEW b, Ordered(s, b),
         \A k \in S : b[k].last <= b[c].last
  PROVE  /\ Append(s, c) \in Seq(Clients) /\ Len(Append(s, c)) = Len(s) + 1
         /\ Distinct(Append(s, c)) /\ Lists(Append(s, c), S \cup {c})
         /\ Ordered(Append(s, c), b)
  <1> DEFINE r == Append(s, c)
  <1>1. /\ r \in Seq(Clients) /\ Len(s) \in Nat /\ Len(r) = Len(s) + 1 /\ r[Len(s) + 1] = c
        /\ \A i \in 1..Len(s) : r[i] = s[i]
    OBVIOUS
  <1> HIDE DEF r
  <1>2. \A i \in 1..Len(r) : i \in 1..Len(s) \/ i = Len(s) + 1
    BY <1>1
  <1>3. \A i \in 1..Len(s) : i \in 1..Len(r) /\ s[i] \in S /\ s[i] # c
    BY <1>1 DEF Lists
  <1>4. Distinct(r)
    BY <1>1, <1>2, <1>3 DEF Distinct
  <1>5. Lists(r, S \cup {c})
    <2>1. Len(s) + 1 \in 1..Len(r)
      BY <1>1
    <2> QED
      BY <1>1, <1>2, <1>3, <2>1 DEF Lists
  <1>6. ASSUME NEW i \in 1..Len(r), NEW j \in 1..Len(r), i < j
        PROVE  b[r[i]].last <= b[r[j]].last
    <2>1. i \in 1..Len(s)
      BY <1>1, <1>6
    <2>2. CASE j \in 1..Len(s)
      BY <1>1, <1>6, <2>1, <2>2 DEF Ordered
    <2>3. CASE j = Len(s) + 1
      BY <1>1, <1>3, <2>1, <2>3
    <2> QED
      BY <1>2, <2>2, <2>3
  <1> QED
    BY <1>1, <1>4, <1>5, <1>6 DEF Ordered, r

\* The list without its i-th element lists the rest, in the same order.
LEMMA RemoveClient ==
  ASSUME NEW s \in Seq(Clients), NEW S, Distinct(s), Lists(s, S), NEW b, Ordered(s, b),
         NEW i \in 1..Len(s)
  PROVE  /\ Distinct(RemoveAt(s, i)) /\ Lists(RemoveAt(s, i), S \ {s[i]})
         /\ Ordered(RemoveAt(s, i), b)
  <1> DEFINE r == RemoveAt(s, i)
             At(j) == IF j < i THEN j ELSE j + 1
  <1>1. /\ r \in Seq(Clients) /\ Len(s) \in Nat /\ Len(r) = Len(s) - 1
        /\ \A j \in 1..Len(r) : r[j] = s[At(j)]
    <2>1. /\ r \in Seq(Clients) /\ Len(r) = Len(s) - 1
          /\ \A j \in 1..(Len(s) - 1) : r[j] = IF j < i THEN s[j] ELSE s[j + 1]
      BY RemoveAtFacts
    <2> HIDE DEF r
    <2> QED
      BY <2>1
  <1> HIDE DEF r
  <1>2. \A j \in 1..Len(r) : At(j) \in 1..Len(s) /\ At(j) # i
    BY <1>1
  <1>3. \A j, k \in 1..Len(r) : /\ At(j) = At(k) => j = k
                                /\ j < k => At(j) < At(k)
    BY <1>1
  <1>4. ASSUME NEW n \in 1..Len(s), n # i PROVE \E j \in 1..Len(r) : At(j) = n
    <2>1. CASE n < i
      BY <1>1, <2>1
    <2>2. CASE ~(n < i)
      <3>1. n - 1 \in 1..Len(r) /\ ~(n - 1 < i) /\ (n - 1) + 1 = n
        BY <1>1, <1>4, <2>2
      <3> QED
        BY <3>1
    <2> QED
      BY <2>1, <2>2
  <1> HIDE DEF At
  <1>5. Distinct(r)
    BY <1>1, <1>2, <1>3 DEF Distinct
  <1>6. Ordered(r, b)
    BY <1>1, <1>2, <1>3 DEF Ordered
  <1>7. Lists(r, S \ {s[i]})
    <2>1. ASSUME NEW j \in 1..Len(r) PROVE r[j] \in S \ {s[i]}
      BY <1>1, <1>2 DEF Lists, Distinct
    <2>2. ASSUME NEW k \in S \ {s[i]} PROVE \E j \in 1..Len(r) : r[j] = k
      <3>1. PICK n \in 1..Len(s) : s[n] = k /\ n # i
        BY <2>2 DEF Lists
      <3>2. PICK j \in 1..Len(r) : At(j) = n
        BY <1>4, <3>1
      <3> QED
        BY <1>1, <3>1, <3>2
    <2> QED
      BY <2>1, <2>2 DEF Lists
  <1> QED
    BY <1>5, <1>6, <1>7 DEF r

\* Remove(Front) is the removal of the first element.
LEMMA TailRemoves ==
  ASSUME NEW s \in Seq(Clients), s # <<>>
  PROVE  /\ Tail(s) = RemoveAt(s, 1) /\ Head(s) = s[1] /\ 1 \in 1..Len(s)
         /\ Tail(s) \in Seq(Clients) /\ Len(Tail(s)) = Len(s) - 1
  <1>1. /\ Len(s) \in Nat /\ 1 \in 1..Len(s) /\ Head(s) = s[1]
        /\ Tail(s) \in Seq(Clients) /\ Len(Tail(s)) = Len(s) - 1
        /\ \A j \in 1..(Len(s) - 1) : Tail(s)[j] = s[j + 1]
    BY SMTT(30)
  <1>2. /\ RemoveAt(s, 1) \in Seq(Clients) /\ Len(RemoveAt(s, 1)) = Len(s) - 1
        /\ \A j \in 1..(Len(s) - 1) : RemoveAt(s, 1)[j] = IF j < 1 THEN s[j] ELSE s[j + 1]
    BY <1>1, RemoveAtFacts
  <1>3. \A j \in 1..(Len(s) - 1) : RemoveAt(s, 1)[j] = Tail(s)[j]
    BY <1>1, <1>2
  <1> DEFINE a == Tail(s)
             b == RemoveAt(s, 1)
  <1>4. a = b
    <2>1. /\ a \in Seq(Clients) /\ b \in Seq(Clients) /\ Len(a) = Len(b)
          /\ \A j \in 1..Len(a) : a[j] = b[j]
      BY <1>1, <1>2, <1>3
    <2> HIDE DEF a, b
    <2> QED
      BY <2>1
  <1> QED
    BY <1>1, <1>4

\* Check keeps the table: what is left of the list, and the client at its end.
LEMMA CheckTable ==
  ASSUME TableInv, NEW c \in Clients, Check(c), LimiterTypes'
  PROVE  TableSound'
  <1> DEFINE S == DOMAIN buckets
             rest == IF Known(c) THEN RemoveAt(lru, Place(c)) ELSE Unevicted(c)
             R == KeysAfter(c) \ {c}
  <1>1. /\ LimiterTypes /\ lru \in Seq(Clients) /\ Distinct(lru) /\ Lists(lru, S)
        /\ Len(lru) <= MaxKeys /\ Len(lru) \in Nat /\ Ordered(lru, buckets)
        /\ MaxKeys \in Nat \ {0}
    BY RateLimiterAssumption DEF TableInv, TableSound
  <1>2. Cardinality(S) = Len(lru)
    BY <1>1, DistinctCount
  <1>3. /\ DOMAIN buckets' = KeysAfter(c) /\ lru' = Append(rest, c)
        /\ KeysAfter(c) = (S \ Evicted(c)) \cup {c}
    BY DEF Check, LruAfter, KeysAfter
  <1>4. /\ buckets'[c].last = now /\ now \in Nat
        /\ \A k \in DOMAIN buckets' : k # c => buckets'[k] = buckets[k]
        /\ \A k \in S : k \in Clients /\ buckets[k].last <= now
    BY <1>1, CheckFacts DEF LimiterTypes
  <1>5. /\ rest \in Seq(Clients) /\ Distinct(rest) /\ Lists(rest, R)
        /\ Ordered(rest, buckets) /\ Len(rest) \in Nat /\ Len(rest) + 1 <= MaxKeys
    <2>1. CASE Known(c)
      <3>1. Place(c) \in 1..Len(lru) /\ lru[Place(c)] = c
        BY <1>1, <2>1 DEF Known, Lists, Place
      <3>2. Evicted(c) = {} /\ R = S \ {c}
        BY <1>3, <2>1 DEF Evicted
      <3>3. rest = RemoveAt(lru, Place(c))
        BY <2>1
      <3>4. rest \in Seq(Clients) /\ Len(rest) = Len(lru) - 1
        BY <1>1, <3>1, <3>3, RemoveAtFacts
      <3>5. Distinct(rest) /\ Lists(rest, S \ {lru[Place(c)]}) /\ Ordered(rest, buckets)
        BY <1>1, <3>1, <3>3, RemoveClient
      <3> HIDE DEF rest, R
      <3>6. Lists(rest, R)
        BY <3>1, <3>2, <3>5
      <3>7. Len(rest) \in Nat /\ Len(rest) + 1 <= MaxKeys
        BY <1>1, <3>1, <3>4
      <3> QED
        BY <3>4, <3>5, <3>6, <3>7
    <2>2. CASE ~Known(c) /\ Evicted(c) = {}
      <3>1. rest = lru
        BY <2>2 DEF Unevicted
      <3>2. R = S
        BY <1>3, <2>2 DEF Known
      <3>3. Len(lru) < MaxKeys
        <4>1. CASE lru = <<>>
          BY <1>1, <4>1
        <4>2. CASE lru # <<>>
          <5>1. ~(Cardinality(S) >= MaxKeys)
            BY <2>2, <4>2 DEF Evicted
          <5> QED
            BY <1>1, <1>2, <5>1
        <4> QED
          BY <4>1, <4>2
      <3> QED
        BY <1>1, <3>1, <3>2, <3>3
    <2>3. CASE ~Known(c) /\ Evicted(c) # {}
      <3>1. rest = Tail(lru) /\ lru # <<>> /\ Evicted(c) = {Head(lru)}
        BY <2>3 DEF Unevicted, Evicted
      <3>2. R = S \ {Head(lru)}
        BY <1>3, <2>3, <3>1 DEF Known
      <3>3. /\ rest = RemoveAt(lru, 1) /\ Head(lru) = lru[1] /\ 1 \in 1..Len(lru)
            /\ rest \in Seq(Clients) /\ Len(rest) = Len(lru) - 1
        BY <1>1, <3>1, TailRemoves
      <3>4. Distinct(rest) /\ Lists(rest, S \ {lru[1]}) /\ Ordered(rest, buckets)
        BY <1>1, <3>3, RemoveClient
      <3> HIDE DEF rest, R
      <3>5. Lists(rest, R)
        BY <3>2, <3>3, <3>4
      <3>6. Len(rest) \in Nat /\ Len(rest) + 1 <= MaxKeys
        BY <1>1, <3>3
      <3> QED
        BY <3>3, <3>4, <3>5, <3>6
    <2> QED
      BY <2>1, <2>2, <2>3
  <1> HIDE DEF rest
  <1>6. c \notin R /\ R \cup {c} = DOMAIN buckets' /\ R \subseteq S
    BY <1>3
  <1> HIDE DEF R
  <1>7. \A k \in R : buckets'[k] = buckets[k] /\ k \in S
    BY <1>4, <1>6
  <1>8. Ordered(rest, buckets')
    <2>1. \A i \in 1..Len(rest) : rest[i] \in R
      BY <1>5 DEF Lists
    <2> QED
      BY <1>5, <1>7, <2>1 DEF Ordered
  <1>9. \A k \in R : buckets'[k].last <= buckets'[c].last
    BY <1>4, <1>7
  <1>10. /\ lru' \in Seq(Clients) /\ Len(lru') = Len(rest) + 1
         /\ Distinct(lru') /\ Lists(lru', R \cup {c}) /\ Ordered(lru', buckets')
    BY <1>3, <1>5, <1>6, <1>8, <1>9, AppendClient
  <1> QED
    BY <1>1, <1>5, <1>6, <1>10 DEF TableSound, Distinct, Lists, Ordered

\* Map and list agree in every state of the limiter.
LEMMA TableInvariant == Spec => []TableInv
  <1>1. Init => TableInv
    <2> SUFFICES ASSUME Init PROVE TableInv
      OBVIOUS
    <2>1. LimiterTypes
      BY InvInit DEF IInv
    <2>2. lru = <<>> /\ DOMAIN buckets = {} /\ Len(lru) = 0 /\ lru \in Seq(Clients)
      BY DEF Init
    <2>3. Distinct(lru) /\ Lists(lru, DOMAIN buckets) /\ Ordered(lru, buckets) /\ Len(lru) <= MaxKeys
      BY <2>2, RateLimiterAssumption DEF Distinct, Lists, Ordered
    <2> QED
      BY <2>1, <2>2, <2>3 DEF TableInv, TableSound
  <1>2. TableInv /\ LimiterTypes' /\ [Next]_vars => TableInv'
    <2> SUFFICES ASSUME TableInv, LimiterTypes', [Next]_vars PROVE TableSound'
      BY DEF TableInv
    <2>1. CASE Request
      <3>1. PICK xff \in Clients \cup {NoXFF}, addr \in Clients :
                   Check(ClientIDFor(xff, addr))
        BY <2>1 DEF Request
      <3>2. ClientIDFor(xff, addr) \in Clients
        BY DEF ClientIDFor
      <3> QED
        BY <3>1, <3>2, CheckTable
    <2>2. CASE UNCHANGED <<buckets, lru>>
      BY <2>2 DEF TableInv, TableSound, Distinct, Lists, Ordered
    <2> QED
      BY <2>1, <2>2 DEF Next, Tick, vars
  <1>3. IInv => LimiterTypes
    BY Zenon DEF IInv
  <1> QED
    BY <1>1, <1>2, <1>3, InvInit, InvStep, PTL DEF Spec

\* The table never grows beyond maxKeys, and the client that Limiter.Check
\* evicts is in it and is the one not checked for longest, for any rate,
\* burst, table size and number of clients.
THEOREM TableAlwaysAgrees == Spec => []TableAgrees
  <1>1. TableInv => TableAgrees
    <2> SUFFICES ASSUME TableInv PROVE TableAgrees
      OBVIOUS
    <2>1. /\ lru \in Seq(Clients) /\ Distinct(lru) /\ Lists(lru, DOMAIN buckets)
          /\ Len(lru) <= MaxKeys /\ Ordered(lru, buckets)
      BY DEF TableInv, TableSound
    <2>2. /\ Cardinality(DOMAIN buckets) = Len(lru)
          /\ DOMAIN buckets = {lru[i] : i \in 1..Len(lru)}
      BY <2>1, DistinctCount
    <2> QED
      BY <2>1, <2>2 DEF TableAgrees, Ordered
  <1> QED
    BY <1>1, TableInvariant, PTL
=============================================================================
