---------------------------- MODULE RateLimiter ----------------------------
(***************************************************************************)
(* The token bucket in front of SEC EDGAR (src/shotcut/research            *)
(* rate_limit.py) and the calls EdgarClient makes through it (edgar.py).   *)
(* acquire() holds an asyncio lock while it sleeps, so that callers queue  *)
(* behind the one who waits for a token; nothing bounds how late a sleep   *)
(* ends.                                                                   *)
(*                                                                         *)
(* Time is counted in ticks, TicksPerSecond of them a second, and the      *)
(* bucket in shares of a token, one token being TicksPerSecond shares: a   *)
(* tick replenishes Rate shares and all amounts are whole.  The model      *)
(* leaves out only what floating point rounds.                             *)
(***************************************************************************)
EXTENDS Integers, Sequences

CONSTANTS
  Callers,         \* coroutines that call EdgarClient
  Rate,            \* rate_per_second
  TicksPerSecond,  \* resolution of the clock
  MaxTime,         \* ticks of a behaviour, a bound
  MaxCalls         \* calls of acquire() in a behaviour, a bound

ASSUME RateLimiterAssumption ==
  /\ Rate \in Nat \ {0}
  /\ TicksPerSecond \in Nat \ {0}
  /\ MaxTime \in Nat /\ MaxCalls \in Nat

VARIABLES
  now,      \* the monotonic clock
  tokens,   \* _tokens, in shares, as of last
  last,     \* _last
  lock,     \* _lock: its holder, if any, and behind it who waits, in order
  wake,     \* when the holder's sleep is over, if it sleeps
  granted   \* history: when tokens were acquired

vars == <<now, tokens, last, lock, wake, granted>>

-----------------------------------------------------------------------------
Token     == TicksPerSecond
Capacity  == Rate * TicksPerSecond
NotAsleep == MaxTime + Token + 1

Least(a, b) == IF a < b THEN a ELSE b

\* Mutant: the replenished bucket is not capped.
Refilled_Uncapped == tokens + (now - last) * Rate

\* _refill: what the bucket holds at this moment.
Refilled == Least(Capacity, tokens + (now - last) * Rate)

Grant(left) ==
  /\ tokens' = left - Token
  /\ last' = now
  /\ lock' = Tail(lock)
  /\ wake' = NotAsleep
  /\ granted' = Append(granted, now)
  /\ UNCHANGED now

\* A call of the client reaches acquire() and asks for the lock.
Call(c) ==
  /\ \A i \in 1..Len(lock) : lock[i] # c
  /\ Len(granted) + Len(lock) < MaxCalls
  /\ lock' = Append(lock, c)
  /\ UNCHANGED <<now, tokens, last, wake, granted>>

Holds(c) == lock # <<>> /\ Head(lock) = c

\* With the lock: take a token at once when there is one.
Take(c) ==
  /\ Holds(c)
  /\ wake = NotAsleep
  /\ Refilled >= Token
  /\ Grant(Refilled)

\* Mutant: the holder may wake one tick early.
Sleep_Short(c) ==
  /\ Holds(c) /\ wake = NotAsleep /\ Refilled < Token
  /\ tokens' = Refilled /\ last' = now
  /\ \E n \in 1..Token : (n + 1) * Rate >= Token - Refilled /\ wake' = now + n
  /\ UNCHANGED <<now, lock, granted>>

\* Or sleep, with the lock, at least as long as the missing shares take.
Sleep(c) ==
  /\ Holds(c)
  /\ wake = NotAsleep
  /\ Refilled < Token
  /\ tokens' = Refilled
  /\ last' = now
  /\ \E n \in 1..Token : n * Rate >= Token - Refilled /\ wake' = now + n
  /\ UNCHANGED <<now, lock, granted>>

\* The sleep is over: the token is taken without another look at the count.
Wake(c) ==
  /\ Holds(c)
  /\ wake <= now
  /\ Grant(Refilled)

Tick ==
  /\ now < MaxTime
  /\ now' = now + 1
  /\ UNCHANGED <<tokens, last, lock, wake, granted>>
Init ==
  /\ now = 0
  /\ tokens = Capacity
  /\ last = 0
  /\ lock = <<>>
  /\ wake = NotAsleep
  /\ granted = <<>>

Next == Tick \/ \E c \in Callers : Call(c) \/ Take(c) \/ Sleep(c) \/ Wake(c)

Spec == Init /\ [][Next]_vars

-----------------------------------------------------------------------------
\* Types; above all the count never goes below zero, although a caller that
\* wakes up takes its token unseen.
TypeOK ==
  /\ now \in 0..MaxTime
  /\ tokens \in 0..Capacity
  /\ last \in 0..now
  /\ lock \in Seq(Callers)
  /\ wake \in 0..NotAsleep
  /\ granted \in Seq(0..now)

\* What a token bucket keeps to, over every stretch of time and with every
\* pattern of calls and late wake-ups: no more acquisitions than a full bucket
\* and what was replenished meanwhile.
BucketBound ==
  \A i, j \in 1..Len(granted) :
    i <= j => (j - i + 1) * Token <= Capacity + (granted[j] - granted[i]) * Rate
=============================================================================
