---------------------------- MODULE RateLimiter ----------------------------
(***************************************************************************)
(* internal/ratelimit/ratelimit.go: a token bucket per client in a table   *)
(* of at most MaxKeys clients, the least recently checked of which makes   *)
(* room for a new one.  The table is a map and a list that must agree.     *)
(* Check holds the limiter's mutex throughout and is one step; the clock   *)
(* (Go's monotonic one) counts seconds.  Tokens are counted in sixtieths,  *)
(* so that a second refills exactly PerMinute of them: the rounding of the *)
(* code's floating point is left out.                                      *)
(***************************************************************************)
EXTENDS Naturals, Sequences, FiniteSets, SequencesExt

CONSTANTS
    Clients,        \* client identifiers
    NoXFF,          \* no usable X-Forwarded-For header
    TrustXFF,       \* settings.RateLimitTrustXFF
    PerMinute,      \* perMinute
    Burst,          \* burst
    MaxKeys,        \* maxKeys
    MaxTime         \* bound on the clock

ASSUME RateLimiterAssumption ==
    /\ NoXFF \notin Clients /\ TrustXFF \in BOOLEAN
    /\ PerMinute \in Nat \ {0} /\ Burst \in Nat \ {0} /\ MaxKeys \in Nat \ {0}
    /\ MaxTime \in Nat

Token == 60
Full  == Burst * Token

VARIABLES
    now,        \* seconds
    buckets,    \* the table: client -> [tokens, last]
    lru,        \* its keys, least recently checked first
    admitted,   \* history: when c was admitted since its bucket was made
    retryAt     \* history: now + Retry-After of c's last denial, 0 once admitted

vars == <<now, buckets, lru, admitted, retryAt>>

Init == /\ now = 0
        /\ buckets = <<>>
        /\ lru = <<>>
        /\ admitted = [c \in Clients |-> <<>>]
        /\ retryAt = [c \in Clients |-> 0]

\* The first address of X-Forwarded-For if trusted, else the peer's.
ClientIDFor(xff, addr) == IF TrustXFF /\ xff # NoXFF THEN xff ELSE addr

Known(c) == c \in DOMAIN buckets

\* elapsed * refillPerSec
Refill(from, to) == PerMinute * (to - from)

\* min(burst, tokens + elapsed * refillPerSec), or a new, full bucket
Refilled(c) ==
    IF Known(c)
    THEN LET t == buckets[c].tokens + Refill(buckets[c].last, now)
         IN  IF t < Full THEN t ELSE Full
    ELSE Full

\* A new client evicts the front of the list when the map is full.
Evicted(c) ==
    IF ~Known(c) /\ Cardinality(DOMAIN buckets) >= MaxKeys /\ lru # <<>>
    THEN {Head(lru)} ELSE {}

\* The element of the list that the map holds for c.
Place(c) == CHOOSE i \in 1..Len(lru) : lru[i] = c

\* Remove(Front), if a client is evicted
Unevicted(c) == IF Evicted(c) = {} THEN lru ELSE Tail(lru)

\* Mutant: a known client keeps its place in the list.
LruInPlace(c) == IF Known(c) THEN lru ELSE Append(Unevicted(c), c)
\* MoveToBack, or PushBack
LruAfter(c) == Append(IF Known(c) THEN RemoveAt(lru, Place(c)) ELSE Unevicted(c), c)

KeysAfter(c) == (DOMAIN buckets \ Evicted(c)) \cup {c}

Allowed(t) == t >= Token

\* Mutant: only an admission stamps the bucket, a denial keeps the refill.
BucketUnstamped(c, t) ==
    [tokens |-> IF Allowed(t) THEN t - Token ELSE t,
     last   |-> IF Known(c) /\ ~Allowed(t) THEN buckets[c].last ELSE now]
BucketAfter(c, t) ==
    [tokens |-> IF Allowed(t) THEN t - Token ELSE t, last |-> now]

\* Mutant: rounded down.
RetryAfterFloor(t) == (Token - t) \div PerMinute
\* int(secondsToOne) + 1
RetryAfter(t) == (Token - t) \div PerMinute + 1

Check(c) ==
    LET t == Refilled(c)
        gone == Evicted(c)
    IN /\ buckets' = [k \in KeysAfter(c) |->
                        IF k = c THEN BucketAfter(c, t) ELSE buckets[k]]
       /\ lru' = LruAfter(c)
       /\ admitted' = [k \in Clients |->
                        IF k \in gone THEN <<>>
                        ELSE IF k = c /\ Allowed(t) THEN Append(admitted[k], now)
                        ELSE admitted[k]]
       /\ retryAt' = [retryAt EXCEPT
                        ![c] = IF Allowed(t) THEN 0 ELSE now + RetryAfter(t)]
       /\ UNCHANGED now

\* A request arrives: Server.convert asks before it takes a job slot.
Request == \E xff \in Clients \cup {NoXFF}, addr \in Clients :
              Check(ClientIDFor(xff, addr))

Tick == /\ now < MaxTime
        /\ now' = now + 1
        /\ UNCHANGED <<buckets, lru, admitted, retryAt>>

Next == Request \/ Tick
Spec == Init /\ [][Next]_vars

-----------------------------------------------------------------------------
(* Properties.                                                             *)

\* Types; a bucket never holds more than Burst tokens.
TypeOK ==
    /\ now \in 0..MaxTime
    /\ DOMAIN buckets \subseteq Clients
    /\ \A c \in DOMAIN buckets : /\ buckets[c].tokens \in 0..Full
                                 /\ buckets[c].last \in 0..now
    /\ lru \in Seq(Clients)
    /\ admitted \in [Clients -> Seq(0..MaxTime)]
    /\ retryAt \in [Clients -> Nat]

\* Map and list hold the same clients, each once and at most MaxKeys, in the
\* order of their last checks: otherwise the table would grow, or Check would
\* evict a client that is not there or one that was active more recently than
\* another.
TableAgrees ==
    /\ DOMAIN buckets = {lru[i] : i \in 1..Len(lru)}
    /\ Cardinality(DOMAIN buckets) = Len(lru)
    /\ Len(lru) <= MaxKeys
    /\ \A i, j \in 1..Len(lru) :
          i < j => buckets[lru[i]].last <= buckets[lru[j]].last

\* The rate: while its bucket lives, a client is admitted in any interval at
\* most Burst times plus what the interval refills, however often it is
\* denied in between and whatever the other clients do.
AdmissionBound ==
    \A c \in Clients : \A i, j \in 1..Len(admitted[c]) :
        i <= j => (j - i + 1) * Token
                    <= Full + Refill(admitted[c][i], admitted[c][j])

\* Retry-After is kept: once the time that its last denial named has come, a
\* client would be admitted, whatever further denials it provoked meanwhile.
RetryAfterKept ==
    \A c \in Clients :
        retryAt[c] # 0 /\ retryAt[c] <= now => Allowed(Refilled(c))
=============================================================================
