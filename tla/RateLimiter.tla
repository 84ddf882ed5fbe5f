----------------------------- MODULE RateLimiter ----------------------------
(***************************************************************************)
(* The token bucket that the Store API and the document API keep for each  *)
(* client (rateLimiter in internal/storeapi/server.go and in               *)
(* internal/docapi/server.go). A client is what rateLimitKey makes of a    *)
(* request: the bearer token it sends, valid or not, or else its IP. allow *)
(* reads the clock before it takes the mutex: requests may get the mutex   *)
(* in another order than they read the clock, the elapsed time may be      *)
(* negative, and so may the tokens.                                        *)
(*                                                                         *)
(* Time is counted in ticks, Second of them to a second, and tokens in     *)
(* fractions: Second of them are one request.                              *)
(***************************************************************************)
EXTENDS Integers

CONSTANTS
    Clients,        \* tokens and IPs: the keys of the map
    Callers,        \* requests in progress
    Nobody,         \* marks a caller that is in no request
    Rate,           \* requests per second
    Burst,          \* capacity of a bucket, in requests
    Second,         \* ticks per second
    MaxTime         \* bound on the clock

ASSUME LimiterAssumption ==
    /\ Rate \in Nat \ {0} /\ Burst \in Nat \ {0}    \* New: neither is below 1
    /\ Second \in Nat \ {0}
    /\ MaxTime \in Nat
    /\ Nobody \notin Clients

VARIABLES
    clock,      \* time.Now()
    bucket,     \* l.clients
    ask,        \* the call of allow each caller is in: its client and its reading
    allowed,    \* history: the requests admitted, of each client
    mark,       \* history: a moment without calls, and the requests admitted before it
    refused     \* history: the clock at the first refusal since an admission, or -1

limiterVars == <<clock, bucket, ask, allowed, mark, refused>>

-----------------------------------------------------------------------------
(* allow *)

NoBucket == [known |-> FALSE, tokens |-> 0, last |-> 0]
NoAsk == [client |-> Nobody, now |-> 0]

(* now := time.Now(), before the lock. *)
Call(p, k) ==
    /\ ask[p] = NoAsk
    /\ ask' = [ask EXCEPT ![p] = [client |-> k, now |-> clock]]
    /\ UNCHANGED <<clock, bucket, allowed, mark, refused>>

(* The tokens at a reading of the clock, at most Burst requests. *)
RefilledNoCap(b, n) == b.tokens + Rate * (n - b.last)       \* mutant: no limit
Refilled(b, n) ==
    LET t == b.tokens + Rate * (n - b.last)
    IN  IF t > Burst * Second THEN Burst * Second ELSE t

(* A client's first request finds a full bucket, and is admitted. *)
Tokens(b, n) == IF b.known THEN Refilled(b, n) ELSE Burst * Second

Grant(p) ==
    LET k == ask[p].client
        n == ask[p].now
    IN  /\ ask[p] # NoAsk
        /\ Tokens(bucket[k], n) >= Second
        /\ bucket' = [bucket EXCEPT ![k] =
                        [known |-> TRUE, tokens |-> Tokens(bucket[k], n) - Second, last |-> n]]
        /\ ask' = [ask EXCEPT ![p] = NoAsk]
        /\ allowed' = [allowed EXCEPT ![k] = @ + 1]
        /\ refused' = [refused EXCEPT ![k] = -1]
        /\ UNCHANGED <<clock, mark>>

(* Too Many Requests, with Retry-After: 1. Mutant: it costs a token too. *)
RefuseCharging(p) ==
    LET k == ask[p].client
        n == ask[p].now
    IN  /\ ask[p] # NoAsk
        /\ Tokens(bucket[k], n) < Second
        /\ bucket' = [bucket EXCEPT ![k].tokens = Tokens(bucket[k], n) - Second, ![k].last = n]
        /\ ask' = [ask EXCEPT ![p] = NoAsk]
        /\ refused' = [refused EXCEPT ![k] = IF @ = -1 THEN clock ELSE @]
        /\ UNCHANGED <<clock, allowed, mark>>

Refuse(p) ==
    LET k == ask[p].client
        n == ask[p].now
    IN  /\ ask[p] # NoAsk
        /\ Tokens(bucket[k], n) < Second
        /\ bucket' = [bucket EXCEPT ![k].tokens = Tokens(bucket[k], n), ![k].last = n]
        /\ ask' = [ask EXCEPT ![p] = NoAsk]
        /\ refused' = [refused EXCEPT ![k] = IF @ = -1 THEN clock ELSE @]
        /\ UNCHANGED <<clock, allowed, mark>>

(* An observer begins to count, at a moment without calls of the client. *)
Mark(k) ==
    /\ \A p \in Callers : ask[p].client # k
    /\ mark' = [mark EXCEPT ![k] = [clock |-> clock, allowed |-> allowed[k]]]
    /\ UNCHANGED <<clock, bucket, ask, allowed, refused>>

Tick ==
    /\ clock < MaxTime
    /\ clock' = clock + 1
    /\ UNCHANGED <<bucket, ask, allowed, mark, refused>>

-----------------------------------------------------------------------------
LimiterInit ==
    /\ clock = 0
    /\ bucket = [k \in Clients |-> NoBucket]
    /\ ask = [p \in Callers |-> NoAsk]
    /\ allowed = [k \in Clients |-> 0]
    /\ mark = [k \in Clients |-> [clock |-> 0, allowed |-> 0]]
    /\ refused = [k \in Clients |-> -1]

LimiterNext ==
    \/ Tick
    \/ \E k \in Clients : Mark(k)
    \/ \E p \in Callers :
          \/ \E k \in Clients : Call(p, k)
          \/ Grant(p) \/ Refuse(p)

LimiterSpec == LimiterInit /\ [][LimiterNext]_limiterVars

-----------------------------------------------------------------------------
(* Properties *)

LimiterTypeOK ==
    /\ clock \in Nat
    /\ bucket \in [Clients -> [known : BOOLEAN, tokens : Int, last : Nat]]
    /\ ask \in [Callers -> [client : Clients \cup {Nobody}, now : Nat]]
    /\ allowed \in [Clients -> Nat]
    /\ mark \in [Clients -> [clock : Nat, allowed : Nat]]
    /\ refused \in [Clients -> Nat \cup {-1}]

(* In any time, counted from a moment without calls, a client gets at most *)
(* Burst requests and Rate more for every second, in whatever order its    *)
(* calls read the clock and take the mutex (rateLimiter.allow).            *)
WithinRate ==
    \A k \in Clients :
        Second * (allowed[k] - mark[k].allowed)
            <= Burst * Second + Rate * (clock - mark[k].clock)

(* Retry-After: 1 tells the truth: after a refusal the next request that   *)
(* reads the clock a second later is admitted, unless another was since    *)
(* (rateLimiter.allow, secure). Refusals cost nothing.                     *)
RetryAfterHonest ==
    [][\A p \in Callers :
          LET k == ask[p].client
          IN  Refuse(p) => refused[k] = -1 \/ ask[p].now < refused[k] + Second]_limiterVars
=============================================================================
