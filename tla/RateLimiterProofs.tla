------------------------- MODULE RateLimiterProofs -------------------------
(***************************************************************************)
(* The token bucket keeps its bound for every rate, clock resolution and   *)
(* set of callers.  The bound on pairs of acquisitions is not inductive:   *)
(* Balance ties each acquisition to the shares left in the bucket, and     *)
(* SleepsLongEnough makes sure that a caller that wakes finds a token.     *)
(***************************************************************************)
EXTENDS RateLimiter, TLAPS, SequenceTheorems

\* Since the i-th acquisition, what was taken and what is left were in the
\* bucket or have been replenished.
Balance ==
  \A i \in 1..Len(granted) :
    (Len(granted) - i + 1) * Token + tokens
      <= Capacity + (last - granted[i]) * Rate

\* The shares a sleeper misses are there when it wakes.
SleepsLongEnough ==
  wake # NotAsleep =>
    lock # <<>> /\ wake >= last /\ tokens + (wake - last) * Rate >= Token

\* No acquisition is later than the last look at the clock.
GrantsArePast == \A i \in 1..Len(granted) : granted[i] <= last

IInv == TypeOK /\ Balance /\ SleepsLongEnough /\ GrantsArePast /\ BucketBound

-----------------------------------------------------------------------------
\* The products the capacity and the elapsed time stand for are numbers.
LEMMA Amounts ==
  ASSUME TypeOK
  PROVE  /\ Rate \in Nat /\ Rate >= 1 /\ Token \in Nat /\ Token >= 1
         /\ Capacity \in Nat /\ Capacity >= Token
         /\ now \in Nat /\ last \in Nat /\ last <= now
         /\ tokens \in Nat /\ tokens <= Capacity
         /\ (now - last) * Rate \in Nat
<1>1. Rate \in Nat /\ Rate >= 1 /\ Token \in Nat /\ Token >= 1
  BY RateLimiterAssumption DEF Token
<1>2. Capacity \in Nat /\ Capacity >= Token
  <2>1. \A r, t \in Nat : r >= 1 => r * t \in Nat /\ r * t >= t
    OBVIOUS
  <2> QED BY <1>1, <2>1 DEF Capacity, Token
<1>3. now \in Nat /\ last \in Nat /\ last <= now /\ tokens \in Nat /\ tokens <= Capacity
  BY <1>2, RateLimiterAssumption DEF TypeOK
<1>4. (now - last) * Rate \in Nat
  <2>1. \A e, r \in Nat : e * r \in Nat
    OBVIOUS
  <2>2. now - last \in Nat
    BY <1>3
  <2> QED BY <2>1, <2>2, <1>1
<1> QED BY <1>1, <1>2, <1>3, <1>4

\* A refilled bucket is no fuller than its capacity, nor than what it held
\* plus what the elapsed time brought.
LEMMA RefillBounds ==
  ASSUME TypeOK
  PROVE  /\ Refilled \in 0..Capacity
         /\ Refilled <= tokens + (now - last) * Rate
         /\ Refilled = Capacity \/ Refilled = tokens + (now - last) * Rate
BY Amounts DEF Refilled, Least

\* Products of whole numbers are whole.
LEMMA ProductType == \A a, b \in Int : a * b \in Int
OBVIOUS

\* Elapsed times add up.
LEMMA ElapsedAddsUp ==
  ASSUME NEW a \in Int, NEW b \in Int, NEW c \in Int, NEW r \in Int
  PROVE  (c - b) * r + (b - a) * r = (c - a) * r
OBVIOUS

\* More time brings no less.
LEMMA ElapsedGrows ==
  ASSUME NEW a \in Nat, NEW b \in Nat, NEW r \in Nat, a <= b
  PROVE  a * r <= b * r
OBVIOUS

-----------------------------------------------------------------------------
LEMMA InitIInv == Init => IInv
<1> SUFFICES ASSUME Init PROVE IInv
  OBVIOUS
<1>1. Rate * TicksPerSecond \in Nat
  <2>1. \A r, t \in Nat : r * t \in Nat
    OBVIOUS
  <2> QED BY <2>1, RateLimiterAssumption
<1>2. TypeOK
  BY <1>1, RateLimiterAssumption DEF Init, TypeOK, Capacity, NotAsleep, Token
<1> QED BY <1>2 DEF Init, IInv, Balance, SleepsLongEnough, GrantsArePast, BucketBound

\* Both ways to take a token: with the refilled bucket holding one.
LEMMA GrantKeepsIInv ==
  ASSUME IInv, NEW c \in Callers, Holds(c), Refilled >= Token, Grant(Refilled)
  PROVE  IInv'
<1> DEFINE n == Len(granted)
<1>1. TypeOK
  BY DEF IInv
<1>a. now \in 0..MaxTime /\ lock \in Seq(Callers) /\ lock # <<>>
        /\ granted \in Seq(0..now) /\ n \in Nat
  BY <1>1 DEF TypeOK, Holds
<1>2. /\ tokens' = Refilled - Token /\ last' = now /\ now' = now
      /\ lock' = Tail(lock) /\ wake' = NotAsleep /\ granted' = Append(granted, now)
  BY DEF Grant
<1>3. Len(granted') = n + 1 /\ granted'[n + 1] = now
      /\ \A i \in 1..n : granted'[i] = granted[i]
  BY <1>a, <1>2
<1>4. TypeOK'
  <2>1. tokens' \in 0..Capacity
    BY <1>1, <1>2, Amounts, RefillBounds
  <2>2. last' \in 0..now' /\ now' \in 0..MaxTime
    BY <1>1, <1>2, Amounts, <1>a
  <2>3. lock' \in Seq(Callers)
    BY <1>a, <1>2
  <2>4. wake' \in 0..NotAsleep
    BY <1>1, <1>2, Amounts, RateLimiterAssumption DEF NotAsleep
  <2>6. granted' \in Seq(0..now')
    BY <1>a, <1>2
  <2> QED BY <2>1, <2>2, <2>3, <2>4, <2>6 DEF TypeOK
<1>5. \A i \in 1..n : granted[i] \in Nat /\ granted[i] <= last
  BY <1>a DEF IInv, GrantsArePast
<1>6. GrantsArePast'
  <2> SUFFICES ASSUME NEW i \in 1..(n + 1) PROVE granted'[i] <= now
    BY <1>2, <1>3 DEF GrantsArePast
  <2>1. CASE i \in 1..n
    <3>1. granted'[i] = granted[i] /\ granted[i] \in Nat /\ granted[i] <= last
      BY <2>1, <1>3, <1>5
    <3>2. last <= now /\ last \in Nat /\ now \in Nat
      BY <1>1, Amounts
    <3> QED BY <3>1, <3>2
  <2>2. CASE i = n + 1
    BY <2>2, <1>3, <1>1, Amounts
  <2> QED BY <2>1, <2>2, <1>a
<1>7. Balance'
  <2> SUFFICES ASSUME NEW i \in 1..(n + 1)
               PROVE (n + 1 - i + 1) * Token + (Refilled - Token)
                       <= Capacity + (now - granted'[i]) * Rate
    BY <1>2, <1>3 DEF Balance, Token, Capacity
  <2>0. Refilled \in Int /\ Refilled <= Capacity /\ Token \in Int /\ Capacity \in Int
    BY <1>1, Amounts, RefillBounds
  <2>1. CASE i = n + 1
    <3>1. (now - granted'[i]) * Rate = 0
      BY <2>1, <1>3, <1>1, Amounts
    <3>2. (n + 1 - i + 1) * Token = Token
      BY <2>1, <1>a, <1>1, Amounts
    <3>3. Token + (Refilled - Token) <= Capacity + 0
      BY <2>0
    <3> QED BY <3>1, <3>2, <3>3
  <2>2. CASE i \in 1..n
    <3> DEFINE at     == granted[i]
               taken  == (n - i + 1) * Token
               taken1 == (n + 1 - i + 1) * Token
               then   == (last - at) * Rate
               since  == (now - last) * Rate
               all    == (now - at) * Rate
    <3>1. granted'[i] = at /\ at \in Nat /\ n - i + 1 \in Nat
      BY <2>2, <1>3, <1>5, <1>a
    <3>2. taken + tokens <= Capacity + then
      BY <2>2 DEF IInv, Balance
    <3>3. since + then = all
      BY <3>1, <1>1, Amounts, ElapsedAddsUp
    <3>4. taken1 = taken + Token
      <4>1. n + 1 - i + 1 = (n - i + 1) + 1
        BY <1>a, <2>2
      <4>2. \A a, t \in Nat : (a + 1) * t = a * t + t
        OBVIOUS
      <4> QED BY <4>1, <4>2, <3>1, <1>1, Amounts
    <3>5. taken \in Int /\ then \in Int /\ since \in Int /\ all \in Int
      <4>1. last - at \in Int /\ now - at \in Int /\ now - last \in Int
        BY <3>1, <1>1, Amounts
      <4>2. taken \in Int
        BY <3>1, <1>1, Amounts, ProductType
      <4> QED BY <4>1, <4>2, <1>1, Amounts, ProductType
    <3>6. Refilled <= tokens + since /\ tokens \in Int
      BY <1>1, RefillBounds, Amounts
    <3> HIDE DEF at, taken, taken1, then, since, all
    <3>7. taken1 + (Refilled - Token) <= Capacity + all
      BY <2>0, <3>2, <3>3, <3>4, <3>5, <3>6
    <3> QED BY <3>1, <3>7 DEF taken1, all, at
  <2> QED BY <2>1, <2>2, <1>a
<1>8. SleepsLongEnough'
  BY <1>2 DEF SleepsLongEnough, NotAsleep, Token
<1>9. BucketBound'
  <2> SUFFICES ASSUME NEW i \in 1..(n + 1), NEW j \in 1..(n + 1), i <= j
               PROVE (j - i + 1) * Token
                       <= Capacity + (granted'[j] - granted'[i]) * Rate
    BY <1>3 DEF BucketBound, Token, Capacity
  <2>1. CASE j \in 1..n
    <3>1. i \in 1..n /\ granted'[i] = granted[i] /\ granted'[j] = granted[j]
      BY <2>1, <1>3, <1>a
    <3>2. (j - i + 1) * Token <= Capacity + (granted[j] - granted[i]) * Rate
      BY <2>1, <3>1 DEF IInv, BucketBound
    <3> QED BY <3>1, <3>2
  <2>2. CASE j = n + 1
    <3> DEFINE taken == (n + 1 - i + 1) * Token
               all   == (now - granted'[i]) * Rate
    <3>1. taken + tokens' <= Capacity + all
      BY <1>7, <1>2, <1>3 DEF Balance, Token, Capacity
    <3>2. tokens' \in Nat
      BY <1>4, <1>1, Amounts DEF TypeOK, Capacity, Token
    <3>3. granted'[i] \in Nat
      <4>1. CASE i \in 1..n
        BY <4>1, <1>3, <1>5
      <4>2. CASE i = n + 1
        BY <4>2, <1>3, <1>1, Amounts
      <4> QED BY <4>1, <4>2, <1>a
    <3>4. taken \in Int /\ all \in Int
      <4>1. n + 1 - i + 1 \in Int /\ now - granted'[i] \in Int
        BY <3>3, <1>1, Amounts, <1>a
      <4> QED BY <4>1, <1>1, Amounts, ProductType
    <3>5. j - i + 1 = n + 1 - i + 1 /\ granted'[j] = now
      BY <2>2, <1>3
    <3> HIDE DEF taken, all
    <3>6. taken <= Capacity + all
      BY <3>1, <3>2, <3>4, <1>1, Amounts
    <3> QED BY <3>5, <3>6 DEF taken, all
  <2> QED BY <2>1, <2>2, <1>a
<1> QED BY <1>4, <1>6, <1>7, <1>8, <1>9 DEF IInv

LEMMA SleepKeepsIInv ==
  ASSUME IInv, NEW c \in Callers, Sleep(c)
  PROVE  IInv'
<1>1. TypeOK
  BY DEF IInv
<1>2. /\ tokens' = Refilled /\ last' = now /\ UNCHANGED <<now, lock, granted>>
      /\ lock # <<>>
  BY DEF Sleep, Holds
<1>3. PICK n \in 1..Token : n * Rate >= Token - Refilled /\ wake' = now + n
  BY DEF Sleep
<1>4. TypeOK'
  <2>1. tokens' \in 0..Capacity /\ last' \in 0..now'
    BY <1>1, <1>2, Amounts, RefillBounds
  <2>2. wake' \in 0..NotAsleep
    BY <1>1, <1>3, Amounts, RateLimiterAssumption DEF NotAsleep, TypeOK
  <2> QED BY <1>1, <1>2, <2>1, <2>2 DEF TypeOK
<1>5. \A i \in 1..Len(granted) : granted[i] \in Nat /\ granted[i] <= last
  BY <1>1, Amounts DEF IInv, GrantsArePast, TypeOK
<1>6. GrantsArePast'
  BY <1>2, <1>5, <1>1, Amounts DEF GrantsArePast
<1>7. Balance'
  <2> SUFFICES ASSUME NEW i \in 1..Len(granted)
               PROVE (Len(granted) - i + 1) * Token + Refilled
                       <= Capacity + (now - granted[i]) * Rate
    BY <1>2 DEF Balance, Token, Capacity
  <2> DEFINE at    == granted[i]
             taken == (Len(granted) - i + 1) * Token
             then  == (last - at) * Rate
             since == (now - last) * Rate
             all   == (now - at) * Rate
  <2>1. at \in Nat /\ Len(granted) - i + 1 \in Int
    BY <1>5, <1>1 DEF TypeOK
  <2>2. taken + tokens <= Capacity + then
    BY DEF IInv, Balance
  <2>3. since + then = all
    BY <2>1, <1>1, Amounts, ElapsedAddsUp
  <2>4. last - at \in Int /\ now - at \in Int /\ now - last \in Int
    BY <2>1, <1>1, Amounts
  <2>5. taken \in Int /\ then \in Int /\ since \in Int /\ all \in Int
    <3>1. Token \in Int /\ Rate \in Int
      BY <1>1, Amounts
    <3>2. taken \in Int
      BY <2>1, <3>1, ProductType
    <3> QED BY <2>4, <3>1, <3>2, ProductType
  <2>6. Refilled \in Int /\ Refilled <= tokens + since /\ tokens \in Int /\ Capacity \in Int
    BY <1>1, RefillBounds, Amounts
  <2> HIDE DEF at, taken, then, since, all
  <2>7. taken + Refilled <= Capacity + all
    BY <2>2, <2>3, <2>5, <2>6
  <2> QED BY <2>7 DEF at, taken, all
<1>8. SleepsLongEnough'
  <2>1. wake' - last' = n /\ wake' >= last'
    BY <1>2, <1>3, <1>1, Amounts
  <2>2. n * Rate \in Int /\ Refilled \in Int
    BY <1>3, <1>1, Amounts, RefillBounds
  <2>3. Refilled + n * Rate >= Token
    BY <2>2, <1>3, <1>1, Amounts
  <2> QED BY <1>2, <2>1, <2>3 DEF SleepsLongEnough, Token
<1>9. BucketBound'
  BY <1>2 DEF IInv, BucketBound, Token, Capacity
<1> QED BY <1>4, <1>6, <1>7, <1>8, <1>9 DEF IInv

\* A caller whose sleep is over finds a token: no second look is needed.
LEMMA SleeperFindsToken ==
  ASSUME IInv, NEW c \in Callers, Wake(c)
  PROVE  Refilled >= Token
<1>1. TypeOK /\ wake <= now
  BY DEF IInv, Wake
<1>2. wake # NotAsleep
  BY <1>1, Amounts, RateLimiterAssumption DEF NotAsleep, TypeOK
<1>3. wake >= last /\ tokens + (wake - last) * Rate >= Token
  BY <1>2 DEF IInv, SleepsLongEnough
<1>4. wake \in Int
  BY <1>1, Amounts, RateLimiterAssumption DEF TypeOK, NotAsleep
<1>5. wake - last \in Nat /\ now - last \in Nat /\ wake - last <= now - last
  BY <1>1, <1>3, <1>4, Amounts
<1>6. (wake - last) * Rate <= (now - last) * Rate
  BY <1>5, <1>1, Amounts, ElapsedGrows
<1>7. (wake - last) * Rate \in Int
  BY <1>5, <1>1, Amounts
<1> QED BY <1>3, <1>6, <1>7, <1>1, Amounts, RefillBounds

LEMMA NextKeepsIInv == IInv /\ [Next]_vars => IInv'
<1> SUFFICES ASSUME IInv, [Next]_vars PROVE IInv'
  OBVIOUS
<1>1. CASE Tick
  <2>1. now' = now + 1 /\ now < MaxTime /\ UNCHANGED <<tokens, last, lock, wake, granted>>
    BY <1>1 DEF Tick
  <2>2. TypeOK /\ now \in Nat
    BY Amounts DEF IInv
  <2>3. granted' \in Seq(0..now')
    <3>1. 0..now \subseteq 0..now'
      BY <2>1, <2>2
    <3>2. granted \in Seq(0..now)
      BY <2>2 DEF TypeOK
    <3>3. granted \in Seq(0..now')
      BY <3>1, <3>2, SeqMonotonic
    <3> QED BY <3>3, <2>1
  <2>4. TypeOK'
    BY <2>1, <2>2, <2>3, RateLimiterAssumption DEF TypeOK, Capacity, NotAsleep, Token
  <2> QED BY <2>1, <2>4 DEF IInv, Balance, SleepsLongEnough, GrantsArePast,
                            BucketBound, NotAsleep, Token, Capacity
<1>2. ASSUME NEW c \in Callers, Call(c) PROVE IInv'
  <2>1. lock' = Append(lock, c) /\ UNCHANGED <<now, tokens, last, wake, granted>>
    BY <1>2 DEF Call
  <2>2. lock' \in Seq(Callers) /\ lock' # <<>>
    BY <2>1 DEF IInv, TypeOK
  <2>3. TypeOK'
    BY <2>1, <2>2 DEF IInv, TypeOK, Capacity, NotAsleep, Token
  <2> QED BY <2>1, <2>2, <2>3 DEF IInv, Balance, SleepsLongEnough, GrantsArePast,
                                  BucketBound, NotAsleep, Token, Capacity
<1>3. ASSUME NEW c \in Callers, Take(c) PROVE IInv'
  BY <1>3, GrantKeepsIInv DEF Take
<1>4. ASSUME NEW c \in Callers, Sleep(c) PROVE IInv'
  BY <1>4, SleepKeepsIInv
<1>5. ASSUME NEW c \in Callers, Wake(c) PROVE IInv'
  BY <1>5, GrantKeepsIInv, SleeperFindsToken DEF Wake
<1>6. CASE UNCHANGED vars
  BY <1>6 DEF vars, IInv, TypeOK, Balance, SleepsLongEnough, GrantsArePast,
              BucketBound, NotAsleep, Token, Capacity
<1> QED BY <1>1, <1>2, <1>3, <1>4, <1>5, <1>6 DEF Next

-----------------------------------------------------------------------------
\* The bucket never hands out more than a full bucket and what was replenished
\* meanwhile, whatever the rate, the clock and the pattern of calls.
THEOREM BucketBoundHolds == Spec => []BucketBound
<1>1. IInv => BucketBound
  BY DEF IInv
<1> QED BY InitIInv, NextKeepsIInv, <1>1, PTL DEF Spec

\* The count of tokens stays between nothing and a full bucket, although a
\* woken caller does not look at it again.
THEOREM TypeCorrect == Spec => []TypeOK
<1>1. IInv => TypeOK
  BY DEF IInv
<1> QED BY InitIInv, NextKeepsIInv, <1>1, PTL DEF Spec
=============================================================================
