---------------------------- MODULE HttpApiProofs ---------------------------
(***************************************************************************)
(* The promises of the rate limiter, for every rate, burst and number of   *)
(* clients and requests, first of the limiter by itself and then of the    *)
(* HTTP API whose requests pass it; and those of the listings, for every   *)
(* finite set of names, page size and number of clients that list.         *)
(*                                                                         *)
(* A client's tokens follow a line of slope Rate: the key quantity is      *)
(* tokens - Rate * last, which a refusal leaves alone, an admission lowers *)
(* by a request and the cap lowers further. LimiterInv relates it to the   *)
(* requests counted since the mark and to the first refusal.               *)
(*                                                                         *)
(* A listing is right at every moment as far as its cursor: HttpInv says   *)
(* what it has of the names up to there, and what the ids that an index    *)
(* query has selected hold of the names beyond.                            *)
(***************************************************************************)
EXTENDS HttpApi, FiniteSetTheorems, NaturalsInduction, TLAPS

-----------------------------------------------------------------------------
(* Arithmetic: the products are the only non-linear terms. *)

LEMMA RateOfDifference ==
    ASSUME NEW a \in Int, NEW b \in Int
    PROVE  Rate * (a - b) = Rate * a - Rate * b
  BY LimiterAssumption

LEMMA RateMonotone ==
    ASSUME NEW a \in Int, NEW b \in Int, a <= b
    PROVE  Rate * a <= Rate * b
  BY LimiterAssumption

LEMMA OneMore ==
    ASSUME NEW a \in Int, NEW b \in Int
    PROVE  Second * (a + 1 - b) = Second * (a - b) + Second
  BY LimiterAssumption

LEMMA Products ==
    /\ Burst * Second \in Int
    /\ Second <= Burst * Second
    /\ \A a \in Int : Rate * a \in Int /\ Second * a \in Int
  BY LimiterAssumption

LEMMA SecondPays ==
    ASSUME NEW a \in Int, NEW b \in Int, a >= b + Second
    PROVE  Rate * a >= Rate * b + Second
  <1>1. Rate * (a - b) >= Second
    BY LimiterAssumption
  <1>. QED  BY <1>1, LimiterAssumption

-----------------------------------------------------------------------------
(* One bucket, as values *)

Bucket == [known : BOOLEAN, tokens : Int, last : Nat]
Moment == [clock : Nat, allowed : Nat]

(* Where the line of a bucket meets time 0. *)
Level(b) == b.tokens - Rate * b.last

(* A bucket b at time c, with a requests admitted and the mark m: either   *)
(* nothing was decided since the mark, or the requests since are paid.     *)
Paid(b, a, m, c) ==
    /\ ~b.known => a = m.allowed
    /\ b.known =>
          /\ b.tokens <= Burst * Second
          /\ Level(b) + Rate * c >= 0
          /\ \/ b.last < m.clock /\ a = m.allowed
             \/ b.last >= m.clock
                /\ Second * (a - m.allowed) + Level(b) <= Burst * Second - Rate * m.clock

(* A client refused at time r has what it needs a second later. *)
Promised(b, r) == r # -1 => b.known /\ Level(b) + Rate * r >= 0

LEMMA TokensType ==
    ASSUME NEW b \in Bucket, NEW n \in Nat
    PROVE  Tokens(b, n) \in Int
  BY LimiterAssumption, Products DEF Tokens, Refilled, Bucket

(* What allow computes: at most a full bucket, and not above the line. *)
LEMMA TokensOfKnown ==
    ASSUME NEW b \in Bucket, NEW n \in Nat, b.known
    PROVE  /\ Tokens(b, n) <= Burst * Second
           /\ Tokens(b, n) <= Level(b) + Rate * n
           /\ Tokens(b, n) < Burst * Second => Tokens(b, n) = Level(b) + Rate * n
  <1>1. Rate * (n - b.last) = Rate * n - Rate * b.last
    BY RateOfDifference DEF Bucket
  <1>. QED  BY <1>1, Products DEF Tokens, Refilled, Level, Bucket

LEMMA TokensOfNew ==
    ASSUME NEW b \in Bucket, NEW n \in Nat, ~b.known
    PROVE  Tokens(b, n) = Burst * Second
  BY DEF Tokens

LEMMA LevelType ==
    ASSUME NEW b \in Bucket
    PROVE  Level(b) \in Int
  BY Products DEF Level, Bucket

(* A request that is admitted. *)
LEMMA AdmissionPaid ==
    ASSUME NEW b \in Bucket, NEW a \in Nat, NEW m \in Moment, NEW c \in Nat, NEW n \in Nat,
           Paid(b, a, m, c), m.clock <= n, n <= c, Tokens(b, n) >= Second,
           NEW new, new = [known |-> TRUE, tokens |-> Tokens(b, n) - Second, last |-> n]
    PROVE  Paid(new, a + 1, m, c)
  <1>. DEFINE t == Tokens(b, n)
  <1>1. t \in Int /\ Second \in Nat \ {0} /\ m.clock \in Nat /\ m.allowed \in Nat
    BY TokensType, LimiterAssumption DEF Moment
  <1>2. t <= Burst * Second
    BY <1>1, TokensOfKnown, TokensOfNew, Products
  <1>3. Rate * n <= Rate * c /\ Rate * m.clock <= Rate * n
    BY <1>1, RateMonotone
  <1>4. new.known /\ new.tokens = t - Second /\ new.last = n /\ Level(new) = t - Second - Rate * n
    BY DEF Level
  <1>5. Second * (a + 1 - m.allowed) = Second * (a - m.allowed) + Second
    BY <1>1, OneMore
  <1>6. Second * (a - m.allowed) + t - Rate * n <= Burst * Second - Rate * m.clock
    <2>1. CASE a = m.allowed
      <3>1. Second * (a - m.allowed) = 0
        BY <1>1, <2>1
      <3>. QED  BY <3>1, <1>1, <1>2, <1>3, Products
    <2>2. CASE a # m.allowed
      <3>1. b.known /\ Second * (a - m.allowed) + Level(b) <= Burst * Second - Rate * m.clock
        BY <2>2 DEF Paid
      <3>2. t <= Level(b) + Rate * n
        BY <3>1, TokensOfKnown
      <3>. QED  BY <3>1, <3>2, <1>1, LevelType, Products
    <2>. QED  BY <2>1, <2>2
  <1>7. Level(new) + Rate * c >= 0
    BY <1>1, <1>3, <1>4, Products
  <1>8. Second * (a + 1 - m.allowed) + Level(new) <= Burst * Second - Rate * m.clock
    BY <1>1, <1>4, <1>5, <1>6, Products
  <1>9. new.tokens <= Burst * Second /\ new.last >= m.clock
    BY <1>1, <1>2, <1>4, Products
  <1>. QED  BY <1>1, <1>4, <1>7, <1>8, <1>9, LimiterAssumption, Products DEF Paid, Level, Moment

(* A request that is refused: the bucket was known, and stays on its line. *)
LEMMA RefusalKeepsLevel ==
    ASSUME NEW b \in Bucket, NEW n \in Nat, Tokens(b, n) < Second,
           NEW new, new = [b EXCEPT !.tokens = Tokens(b, n), !.last = n]
    PROVE  /\ b.known /\ new.known /\ new.last = n
           /\ new.tokens = Tokens(b, n) /\ Tokens(b, n) = Level(b) + Rate * n
           /\ Level(new) = Level(b)
  <1>1. Tokens(b, n) \in Int /\ Second \in Nat
    BY TokensType, LimiterAssumption
  <1>2. b.known
    BY <1>1, TokensOfNew, Products DEF Bucket
  <1>3. Tokens(b, n) = Level(b) + Rate * n
    BY <1>1, <1>2, TokensOfKnown, Products
  <1>4. new.known = b.known /\ new.tokens = Tokens(b, n) /\ new.last = n
    BY DEF Bucket
  <1>5. Level(new) = Level(b)
    BY <1>1, <1>3, <1>4, LevelType, Products DEF Level
  <1>. QED  BY <1>2, <1>3, <1>4, <1>5

LEMMA RefusalPaid ==
    ASSUME NEW b \in Bucket, NEW a \in Nat, NEW m \in Moment, NEW c \in Nat, NEW n \in Nat,
           Paid(b, a, m, c), m.clock <= n, Tokens(b, n) < Second,
           NEW new, new = [b EXCEPT !.tokens = Tokens(b, n), !.last = n]
    PROVE  Paid(new, a, m, c)
  <1>1. /\ Tokens(b, n) \in Int /\ Second \in Nat \ {0} /\ m.clock \in Nat /\ m.allowed \in Nat
        /\ Level(b) \in Int
    BY TokensType, LevelType, LimiterAssumption DEF Moment
  <1>2. /\ b.known /\ new.known /\ new.last = n /\ new.tokens = Tokens(b, n)
        /\ Tokens(b, n) = Level(b) + Rate * n /\ Level(new) = Level(b)
    BY RefusalKeepsLevel
  <1>3. Rate * m.clock <= Rate * n
    BY <1>1, RateMonotone
  <1>4. Second * (a - m.allowed) + Level(b) <= Burst * Second - Rate * m.clock
    <2>1. CASE a = m.allowed
      <3>1. Second * (a - m.allowed) = 0
        BY <1>1, <2>1
      <3>. QED  BY <3>1, <1>1, <1>2, <1>3, Products
    <2>2. CASE a # m.allowed
      BY <1>2, <2>2 DEF Paid
    <2>. QED  BY <2>1, <2>2
  <1>5. Level(b) + Rate * c >= 0
    BY <1>2 DEF Paid
  <1>. QED  BY <1>1, <1>2, <1>4, <1>5, Products, LimiterAssumption DEF Paid

(* A second after a refusal, a request is not refused again. *)
LEMMA NotRefusedAgain ==
    ASSUME NEW b \in Bucket, NEW n \in Nat, NEW r \in Nat,
           Promised(b, r), Tokens(b, n) < Second
    PROVE  n < r + Second
  <1>1. b.known /\ Level(b) + Rate * r >= 0
    BY DEF Promised
  <1>2. Tokens(b, n) = Level(b) + Rate * n
    BY RefusalKeepsLevel
  <1>. SUFFICES ASSUME n >= r + Second PROVE FALSE
    BY LimiterAssumption
  <1>3. Rate * n >= Rate * r + Second
    BY SecondPays
  <1>. QED  BY <1>1, <1>2, <1>3, LevelType, Products, LimiterAssumption

(* Time passes. *)
LEMMA TimePaid ==
    ASSUME NEW b \in Bucket, NEW a \in Nat, NEW m \in Moment, NEW c \in Nat, Paid(b, a, m, c)
    PROVE  Paid(b, a, m, c + 1)
  <1>1. Rate * c <= Rate * (c + 1)
    BY RateMonotone
  <1>2. Level(b) + Rate * c >= 0 => Level(b) + Rate * (c + 1) >= 0
    BY <1>1, LevelType, Products
  <1>. QED  BY <1>2 DEF Paid

(* A new mark, at time c. *)
LEMMA MarkPaid ==
    ASSUME NEW b \in Bucket, NEW a \in Nat, NEW m \in Moment, NEW c \in Nat, Paid(b, a, m, c),
           b.known => b.last <= c
    PROVE  Paid(b, a, [clock |-> c, allowed |-> a], c)
  <1>1. Second * (a - a) = 0
    BY LimiterAssumption
  <1>2. b.known /\ b.last >= c => Level(b) = b.tokens - Rate * c
    BY DEF Level, Bucket
  <1>. QED  BY <1>1, <1>2, LevelType, Products, LimiterAssumption DEF Paid, Bucket

(* What is counted never exceeds the rate. *)
LEMMA PaidIsWithinRate ==
    ASSUME NEW b \in Bucket, NEW a \in Nat, NEW m \in Moment, NEW c \in Nat, Paid(b, a, m, c),
           m.clock <= c
    PROVE  Second * (a - m.allowed) <= Burst * Second + Rate * (c - m.clock)
  <1>1. m.clock \in Nat /\ m.allowed \in Nat /\ Second \in Nat /\ Level(b) \in Int
    BY LevelType, LimiterAssumption DEF Moment
  <1>2. Rate * (c - m.clock) = Rate * c - Rate * m.clock /\ Rate * m.clock <= Rate * c
    <2>1. Rate * (c - m.clock) = Rate * c - Rate * m.clock
      BY <1>1, LimiterAssumption
    <2>2. Rate * m.clock <= Rate * c
      BY <1>1, RateMonotone
    <2>. QED  BY <2>1, <2>2
  <1>3. CASE a = m.allowed
    <2>1. Second * (a - m.allowed) = 0
      BY <1>1, <1>3
    <2>. QED  BY <2>1, <1>1, <1>2, Products
  <1>4. CASE a # m.allowed
    <2>1. /\ Level(b) + Rate * c >= 0
          /\ Second * (a - m.allowed) + Level(b) <= Burst * Second - Rate * m.clock
      BY <1>4 DEF Paid
    <2>. QED  BY <2>1, <1>1, <1>2, Products
  <1>. QED  BY <1>3, <1>4

-----------------------------------------------------------------------------
(* The invariant *)

(* A call has a client, and read the clock after the mark of its client. *)
Readings ==
    \A p \in Callers :
        ask[p] # NoAsk =>
            /\ ask[p].client \in Clients
            /\ mark[ask[p].client].clock <= ask[p].now
            /\ ask[p].now <= clock

ClientInv(k) ==
    /\ mark[k].clock <= clock
    /\ bucket[k].known => bucket[k].last <= clock
    /\ Paid(bucket[k], allowed[k], mark[k], clock)
    /\ Promised(bucket[k], refused[k])

LimiterInv == LimiterTypeOK /\ Readings /\ \A k \in Clients : ClientInv(k)

LEMMA LimiterTypes ==
    ASSUME LimiterTypeOK, NEW k \in Clients
    PROVE  /\ bucket[k] \in Bucket /\ mark[k] \in Moment /\ allowed[k] \in Nat
           /\ refused[k] \in Nat \cup {-1} /\ clock \in Nat
  BY DEF LimiterTypeOK, Bucket, Moment

LEMMA InitInv == LimiterInit => LimiterInv
  <1>. SUFFICES ASSUME LimiterInit PROVE LimiterInv
    OBVIOUS
  <1>1. LimiterTypeOK
    BY DEF LimiterInit, LimiterTypeOK, NoBucket, NoAsk
  <1>2. Readings
    BY LimiterAssumption DEF LimiterInit, Readings, NoAsk
  <1>3. ASSUME NEW k \in Clients PROVE ClientInv(k)
    <2>1. bucket[k].known = FALSE /\ allowed[k] = mark[k].allowed /\ refused[k] = -1
          /\ mark[k].clock = 0 /\ clock = 0
      BY DEF LimiterInit, NoBucket
    <2>2. Paid(bucket[k], allowed[k], mark[k], clock)
      BY <2>1, Zenon DEF Paid
    <2>. QED  BY <2>1, <2>2 DEF ClientInv, Promised
  <1>. QED  BY <1>1, <1>2, <1>3 DEF LimiterInv

LEMMA CallInv ==
    ASSUME LimiterInv, NEW p \in Callers, NEW k \in Clients, Call(p, k)
    PROVE  LimiterInv'
  <1>1. /\ ask' = [ask EXCEPT ![p] = [client |-> k, now |-> clock]]
        /\ UNCHANGED <<clock, bucket, allowed, mark, refused>>
    BY DEF Call
  <1>2. LimiterTypeOK'
    BY <1>1 DEF LimiterInv, LimiterTypeOK
  <1>3. Readings'
    BY <1>1 DEF LimiterInv, LimiterTypeOK, ClientInv, Readings
  <1>4. \A j \in Clients : ClientInv(j)'
    BY <1>1 DEF LimiterInv, ClientInv, Promised, Paid, Level
  <1>. QED  BY <1>2, <1>3, <1>4 DEF LimiterInv

LEMMA GrantInv ==
    ASSUME LimiterInv, NEW p \in Callers, Grant(p)
    PROVE  LimiterInv'
  <1>. DEFINE k == ask[p].client
              n == ask[p].now
  <1>1. ask[p] # NoAsk /\ k \in Clients /\ mark[k].clock <= n /\ n <= clock /\ n \in Nat
    BY DEF Grant, LimiterInv, Readings, LimiterTypeOK
  <1>2. /\ Tokens(bucket[k], n) >= Second
        /\ bucket' = [bucket EXCEPT ![k] =
                        [known |-> TRUE, tokens |-> Tokens(bucket[k], n) - Second, last |-> n]]
        /\ ask' = [ask EXCEPT ![p] = NoAsk]
        /\ allowed' = [allowed EXCEPT ![k] = allowed[k] + 1]
        /\ refused' = [refused EXCEPT ![k] = -1]
        /\ clock' = clock /\ mark' = mark
    BY DEF Grant
  <1>. HIDE DEF k, n
  <1>3. /\ bucket[k] \in Bucket /\ mark[k] \in Moment /\ allowed[k] \in Nat /\ clock \in Nat
        /\ Tokens(bucket[k], n) - Second \in Int
    BY <1>1, LimiterTypes, TokensType, LimiterAssumption DEF LimiterInv
  <1>4. LimiterTypeOK'
    <2>1. bucket' \in [Clients -> [known : BOOLEAN, tokens : Int, last : Nat]]
      BY <1>1, <1>2, <1>3 DEF LimiterInv, LimiterTypeOK
    <2>2. /\ ask' \in [Callers -> [client : Clients \cup {Nobody}, now : Nat]]
          /\ allowed' \in [Clients -> Nat] /\ refused' \in [Clients -> Nat \cup {-1}]
      BY <1>1, <1>2 DEF LimiterInv, LimiterTypeOK, NoAsk
    <2>. QED  BY <1>2, <2>1, <2>2 DEF LimiterInv, LimiterTypeOK
  <1>5. Readings'
    BY <1>2 DEF LimiterInv, LimiterTypeOK, Readings
  <1>6. ASSUME NEW j \in Clients PROVE ClientInv(j)'
    <2>1. CASE j # k
      <3>1. bucket'[j] = bucket[j] /\ allowed'[j] = allowed[j] /\ refused'[j] = refused[j]
        BY <1>1, <1>2, <2>1 DEF LimiterInv, LimiterTypeOK
      <3>. QED  BY <1>2, <3>1 DEF LimiterInv, ClientInv
    <2>2. CASE j = k
      <3>1. /\ bucket'[k] = [known |-> TRUE, tokens |-> Tokens(bucket[k], n) - Second, last |-> n]
            /\ allowed'[k] = allowed[k] + 1 /\ refused'[k] = -1
        BY <1>1, <1>2 DEF LimiterInv, LimiterTypeOK
      <3>2. Paid(bucket[k], allowed[k], mark[k], clock) /\ mark[k].clock <= clock
        BY <1>1 DEF LimiterInv, ClientInv
      <3>3. Paid(bucket'[k], allowed'[k], mark[k], clock)
        BY <3>1, <3>2, <1>1, <1>2, <1>3, AdmissionPaid
      <3>4. Promised(bucket'[k], refused'[k])
        BY <3>1 DEF Promised
      <3>5. bucket'[k].last <= clock
        BY <3>1, <1>1
      <3>. QED  BY <1>2, <2>2, <3>2, <3>3, <3>4, <3>5 DEF ClientInv
    <2>. QED  BY <2>1, <2>2
  <1>. QED  BY <1>4, <1>5, <1>6 DEF LimiterInv

LEMMA RefuseInv ==
    ASSUME LimiterInv, NEW p \in Callers, Refuse(p)
    PROVE  LimiterInv'
  <1>. DEFINE k == ask[p].client
              n == ask[p].now
  <1>1. ask[p] # NoAsk /\ k \in Clients /\ mark[k].clock <= n /\ n <= clock /\ n \in Nat
    BY DEF Refuse, LimiterInv, Readings, LimiterTypeOK
  <1>2. /\ Tokens(bucket[k], n) < Second
        /\ bucket' = [bucket EXCEPT ![k].tokens = Tokens(bucket[k], n), ![k].last = n]
        /\ ask' = [ask EXCEPT ![p] = NoAsk]
        /\ refused' = [refused EXCEPT ![k] = IF refused[k] = -1 THEN clock ELSE refused[k]]
        /\ clock' = clock /\ mark' = mark /\ allowed' = allowed
    BY DEF Refuse
  <1>. HIDE DEF k, n
  <1>3. /\ bucket[k] \in Bucket /\ mark[k] \in Moment /\ allowed[k] \in Nat /\ clock \in Nat
        /\ Tokens(bucket[k], n) \in Int /\ refused[k] \in Nat \cup {-1}
    BY <1>1, LimiterTypes, TokensType DEF LimiterInv
  <1>4. LimiterTypeOK'
    <2>1. bucket' \in [Clients -> [known : BOOLEAN, tokens : Int, last : Nat]]
      BY <1>1, <1>2, <1>3 DEF LimiterInv, LimiterTypeOK
    <2>2. /\ ask' \in [Callers -> [client : Clients \cup {Nobody}, now : Nat]]
          /\ refused' \in [Clients -> Nat \cup {-1}]
      BY <1>1, <1>2, <1>3 DEF LimiterInv, LimiterTypeOK, NoAsk
    <2>. QED  BY <1>2, <2>1, <2>2 DEF LimiterInv, LimiterTypeOK
  <1>5. Readings'
    BY <1>2 DEF LimiterInv, LimiterTypeOK, Readings
  <1>6. ASSUME NEW j \in Clients PROVE ClientInv(j)'
    <2>1. CASE j # k
      <3>1. bucket'[j] = bucket[j] /\ refused'[j] = refused[j]
        BY <1>1, <1>2, <2>1 DEF LimiterInv, LimiterTypeOK
      <3>. QED  BY <1>2, <3>1 DEF LimiterInv, ClientInv
    <2>2. CASE j = k
      <3>1. /\ bucket'[k] = [bucket[k] EXCEPT !.tokens = Tokens(bucket[k], n), !.last = n]
            /\ refused'[k] = IF refused[k] = -1 THEN clock ELSE refused[k]
        BY <1>1, <1>2, <1>3 DEF LimiterInv, LimiterTypeOK
      <3>2. /\ Paid(bucket[k], allowed[k], mark[k], clock) /\ mark[k].clock <= clock
            /\ Promised(bucket[k], refused[k])
        BY <1>1 DEF LimiterInv, ClientInv
      <3>3. Paid(bucket'[k], allowed[k], mark[k], clock)
        BY <3>1, <3>2, <1>1, <1>2, <1>3, RefusalPaid
      <3>4. /\ bucket[k].known /\ bucket'[k].known /\ bucket'[k].last = n
            /\ Level(bucket'[k]) = Level(bucket[k])
        <4>1. bucket[k].known
          BY <1>1, <1>2, <1>3, RefusalKeepsLevel
        <4>2. Tokens(bucket[k], n) = Level(bucket[k]) + Rate * n
          BY <1>1, <1>2, <1>3, RefusalKeepsLevel
        <4>3. /\ bucket'[k].known /\ bucket'[k].last = n
              /\ bucket'[k].tokens = Tokens(bucket[k], n)
          BY <3>1, <1>3, <4>1 DEF Bucket
        <4>4. Level(bucket'[k]) = Level(bucket[k])
          BY <1>1, <1>3, <4>2, <4>3, LevelType, Products DEF Level
        <4>. QED  BY <4>1, <4>3, <4>4
      <3>5. Promised(bucket'[k], refused'[k])
        <4>1. Level(bucket[k]) + Rate * clock >= 0
          BY <3>2, <3>4 DEF Paid
        <4>. QED  BY <3>1, <3>2, <3>4, <4>1 DEF Promised
      <3>. QED  BY <1>1, <1>2, <2>2, <3>2, <3>3, <3>4, <3>5 DEF ClientInv
    <2>. QED  BY <2>1, <2>2
  <1>. QED  BY <1>4, <1>5, <1>6 DEF LimiterInv

LEMMA MarkInv ==
    ASSUME LimiterInv, NEW k \in Clients, Mark(k)
    PROVE  LimiterInv'
  <1>1. /\ \A p \in Callers : ask[p].client # k
        /\ mark' = [mark EXCEPT ![k] = [clock |-> clock, allowed |-> allowed[k]]]
        /\ UNCHANGED <<clock, bucket, ask, allowed, refused>>
    BY DEF Mark
  <1>2. LimiterTypeOK'
    BY <1>1 DEF LimiterInv, LimiterTypeOK
  <1>3. Readings'
    BY <1>1 DEF LimiterInv, LimiterTypeOK, Readings
  <1>4. ASSUME NEW j \in Clients PROVE ClientInv(j)'
    <2>1. CASE j # k
      <3>1. mark'[j] = mark[j]
        BY <1>1, <2>1 DEF LimiterInv, LimiterTypeOK
      <3>. QED  BY <1>1, <3>1 DEF LimiterInv, ClientInv
    <2>2. CASE j = k
      <3>1. mark'[k] = [clock |-> clock, allowed |-> allowed[k]]
        BY <1>1 DEF LimiterInv, LimiterTypeOK
      <3>2. /\ Paid(bucket[k], allowed[k], mark[k], clock)
            /\ bucket[k].known => bucket[k].last <= clock
            /\ Promised(bucket[k], refused[k])
        BY DEF LimiterInv, ClientInv
      <3>3. bucket[k] \in Bucket /\ mark[k] \in Moment /\ allowed[k] \in Nat /\ clock \in Nat
        BY LimiterTypes DEF LimiterInv
      <3>4. Paid(bucket[k], allowed[k], mark'[k], clock)
        BY <3>1, <3>2, <3>3, MarkPaid
      <3>. QED  BY <1>1, <2>2, <3>1, <3>2, <3>3, <3>4 DEF ClientInv
    <2>. QED  BY <2>1, <2>2
  <1>. QED  BY <1>2, <1>3, <1>4 DEF LimiterInv

LEMMA TickInv ==
    ASSUME LimiterInv, Tick
    PROVE  LimiterInv'
  <1>1. clock' = clock + 1 /\ UNCHANGED <<bucket, ask, allowed, mark, refused>>
    BY DEF Tick
  <1>2. LimiterTypeOK'
    BY <1>1 DEF LimiterInv, LimiterTypeOK
  <1>3. Readings'
    BY <1>1 DEF LimiterInv, LimiterTypeOK, Readings
  <1>4. ASSUME NEW j \in Clients PROVE ClientInv(j)'
    <2>1. /\ bucket[j] \in Bucket /\ mark[j] \in Moment /\ allowed[j] \in Nat /\ clock \in Nat
          /\ bucket[j].last \in Nat /\ mark[j].clock \in Nat
      BY LimiterTypes DEF LimiterInv, Bucket, Moment
    <2>2. ClientInv(j)
      BY DEF LimiterInv
    <2>3. Paid(bucket[j], allowed[j], mark[j], clock + 1)
      BY <2>1, <2>2, TimePaid DEF ClientInv
    <2>. QED  BY <1>1, <2>1, <2>2, <2>3 DEF ClientInv
  <1>. QED  BY <1>2, <1>3, <1>4 DEF LimiterInv

LEMMA StutterInv ==
    ASSUME LimiterInv, UNCHANGED limiterVars
    PROVE  LimiterInv'
  BY DEF LimiterInv, LimiterTypeOK, Readings, ClientInv, limiterVars

LEMMA LimiterStepInv == LimiterInv /\ [LimiterNext]_limiterVars => LimiterInv'
  <1>. SUFFICES ASSUME LimiterInv, [LimiterNext]_limiterVars PROVE LimiterInv'
    OBVIOUS
  <1>1. CASE Tick
    BY <1>1, TickInv
  <1>2. ASSUME NEW k \in Clients, Mark(k) PROVE LimiterInv'
    BY <1>2, MarkInv
  <1>3. ASSUME NEW p \in Callers, NEW k \in Clients, Call(p, k) PROVE LimiterInv'
    BY <1>3, CallInv
  <1>4. ASSUME NEW p \in Callers, Grant(p) PROVE LimiterInv'
    BY <1>4, GrantInv
  <1>5. ASSUME NEW p \in Callers, Refuse(p) PROVE LimiterInv'
    BY <1>5, RefuseInv
  <1>6. CASE UNCHANGED limiterVars
    BY <1>6, StutterInv
  <1>. QED  BY <1>1, <1>2, <1>3, <1>4, <1>5, <1>6 DEF LimiterNext

(* The inductive invariant of the limiter (rateLimiter.allow). *)
THEOREM LimiterInvariant == LimiterSpec => []LimiterInv
  BY InitInv, LimiterStepInv, PTL DEF LimiterSpec

LEMMA InvIsWithinRate == LimiterInv => WithinRate
  <1>. SUFFICES ASSUME LimiterInv, NEW k \in Clients
                PROVE  Second * (allowed[k] - mark[k].allowed)
                          <= Burst * Second + Rate * (clock - mark[k].clock)
    BY DEF WithinRate
  <1>1. bucket[k] \in Bucket /\ mark[k] \in Moment /\ allowed[k] \in Nat /\ clock \in Nat
    BY LimiterTypes DEF LimiterInv
  <1>2. Paid(bucket[k], allowed[k], mark[k], clock) /\ mark[k].clock <= clock
    BY DEF LimiterInv, ClientInv
  <1>. QED  BY <1>1, <1>2, PaidIsWithinRate

(* The condition of RetryAfterHonest, of one step. *)
RefusesOnTime ==
    \A p \in Callers :
        LET k == ask[p].client
        IN  Refuse(p) => refused[k] = -1 \/ ask[p].now < refused[k] + Second

LEMMA InvIsHonest == LimiterInv => RefusesOnTime
  <1>. SUFFICES ASSUME LimiterInv, NEW p \in Callers, Refuse(p), refused[ask[p].client] # -1
                PROVE  ask[p].now < refused[ask[p].client] + Second
    BY DEF RefusesOnTime
  <1>. DEFINE k == ask[p].client
              n == ask[p].now
  <1>1. k \in Clients /\ n \in Nat /\ Tokens(bucket[k], n) < Second
    BY DEF Refuse, LimiterInv, Readings, LimiterTypeOK
  <1>. HIDE DEF n
  <1>2. bucket[k] \in Bucket /\ refused[k] \in Nat
    BY <1>1, LimiterTypes DEF LimiterInv
  <1>3. Promised(bucket[k], refused[k])
    BY <1>1 DEF LimiterInv, ClientInv
  <1>4. n < refused[k] + Second
    BY <1>1, <1>2, <1>3, NotRefusedAgain
  <1>. QED  BY <1>4 DEF n

-----------------------------------------------------------------------------
(* The HTTP API *)

LEMMA HttpStepIsLimiterStep == [HttpNext]_httpVars => [LimiterNext]_limiterVars
  <1>. SUFFICES ASSUME [HttpNext]_httpVars PROVE [LimiterNext]_limiterVars
    OBVIOUS
  <1>1. CASE UNCHANGED httpVars
    BY <1>1 DEF httpVars
  <1>2. CASE Tick
    BY <1>2 DEF LimiterNext
  <1>3. ASSUME NEW k \in Clients, Mark(k) PROVE LimiterNext
    BY <1>3 DEF LimiterNext
  <1>4. ASSUME NEW n \in Names, NEW state \in {"absent", "hidden", "visible"}, Change(n, state)
        PROVE  UNCHANGED limiterVars
    BY <1>4 DEF Change
  <1>5. ASSUME NEW p \in Callers \ Walkers, Other(p) PROVE LimiterNext
    <2>1. KeyOf[p] \in Clients
      BY HttpAssumption
    <2>. QED  BY <1>5, <2>1 DEF Other, LimiterNext
  <1>6. ASSUME NEW p \in Walkers,
               \/ \E kind \in Kinds : Begin(p, kind)
               \/ Scan(p) \/ List(p) \/ FindIds(p) \/ FindDocs(p)
        PROVE  UNCHANGED limiterVars
    BY <1>6 DEF Begin, Scan, List, FindIds, FindDocs, Receive
  <1>7. ASSUME NEW p \in Walkers, Request(p) \/ Admitted(p) \/ TooManyRequests(p)
        PROVE  LimiterNext
    <2>1. p \in Callers /\ KeyOf[p] \in Clients
      BY HttpAssumption
    <2>. QED  BY <1>7, <2>1 DEF Request, Admitted, TooManyRequests, LimiterNext
  <1>. QED  BY <1>1, <1>2, <1>3, <1>4, <1>5, <1>6, <1>7 DEF HttpNext

(* Every request of the HTTP API passes the limiter, and nothing else      *)
(* touches it: the API implements the limiter (secure).                    *)
THEOREM HttpPassesLimiter == HttpSpec => LimiterSpec
  <1>1. HttpInit => LimiterInit
    BY DEF HttpInit
  <1>. QED  BY <1>1, HttpStepIsLimiterStep, PTL DEF HttpSpec, LimiterSpec

(* Every state of the limiter has its type, under every caller.            *)
THEOREM LimiterTypeCorrect == HttpSpec => []LimiterTypeOK
  <1>1. LimiterInv => LimiterTypeOK
    BY DEF LimiterInv
  <1>. QED  BY <1>1, HttpPassesLimiter, LimiterInvariant, PTL

(* No client exceeds Burst requests and Rate more for every second, in     *)
(* whatever order its requests read the clock and take the mutex           *)
(* (rateLimiter.allow).                                                    *)
THEOREM RateHolds == HttpSpec => []WithinRate
  BY HttpPassesLimiter, LimiterInvariant, InvIsWithinRate, PTL

(* A refused client that asks again a second later is admitted, unless     *)
(* another request with its token or IP was (Retry-After: 1 in secure).    *)
THEOREM RetryAfterHolds == HttpSpec => RetryAfterHonest
  <1>1. LimiterInv => RefusesOnTime
    BY InvIsHonest
  <1>2. RetryAfterHonest <=> [][RefusesOnTime]_limiterVars
    BY DEF RetryAfterHonest, RefusesOnTime
  <1>. QED  BY <1>1, <1>2, HttpPassesLimiter, LimiterInvariant, PTL

-----------------------------------------------------------------------------
(* Pages *)

(* A set of numbers that is not empty has a least element, and a greatest  *)
(* if it is finite: the one with the fewest elements above it.             *)
LEMMA Least ==
    ASSUME NEW S \in SUBSET Nat, S # {}
    PROVE  \E m \in S : \A y \in S : m <= y
  <1>1. \E m \in S : \A y \in S : ~ (<<y, m>> \in OpToRel(<, Nat))
    BY NatLessThanWellFounded, WFMin
  <1>2. \A m, y \in Nat : ~ (<<y, m>> \in OpToRel(<, Nat)) => m <= y
    BY DEF OpToRel
  <1>. QED  BY <1>1, <1>2

LEMMA Greatest ==
    ASSUME NEW S \in SUBSET Nat, S # {}, IsFiniteSet(S)
    PROVE  Max(S) \in S /\ \A y \in S : y <= Max(S)
  <1>. DEFINE Above(x) == {y \in S : y > x}
              T == {Cardinality(Above(x)) : x \in S}
  <1>1. \A x \in S : IsFiniteSet(Above(x)) /\ Cardinality(Above(x)) \in Nat
    BY FS_Subset, FS_CardinalityType
  <1>2. T \in SUBSET Nat /\ T # {}
    BY <1>1
  <1>3. PICK x \in S : \A y \in S : Cardinality(Above(x)) <= Cardinality(Above(y))
    <2>1. PICK m \in T : \A k \in T : m <= k
      BY <1>2, Least
    <2>. QED  BY <2>1
  <1>4. ASSUME NEW y \in S, y > x PROVE FALSE
    <2>. x \in Nat /\ y \in Nat /\ \A z \in S : z \in Nat
      OBVIOUS
    <2>1. Above(y) \in SUBSET Above(x) /\ y \in Above(x) /\ y \notin Above(y)
      <3>1. \A z \in S : z > y => z > x
        BY <1>4
      <3>2. ~(y > y)
        OBVIOUS
      <3>. QED  BY <1>4, <3>1, <3>2
    <2>2. Cardinality(Above(y)) <= Cardinality(Above(x)) /\ Above(x) # Above(y)
      BY <1>1, <2>1, FS_Subset
    <2>3. Cardinality(Above(x)) # Cardinality(Above(y))
      BY <1>1, <2>1, <2>2, FS_Subset
    <2>. HIDE DEF Above
    <2>. QED  BY <1>1, <1>3, <2>2, <2>3
  <1>5. \A y \in S : x >= y
    BY <1>4
  <1>. QED  BY <1>5 DEF Max

(* What SELECT ... LIMIT n returns: the first rows after the cursor, and   *)
(* all of them if they are fewer than n.                                   *)
After(set, cursor) == {x \in set : x > cursor}

FirstOf(R, A, n) ==
    /\ R \subseteq A /\ IsFiniteSet(R) /\ Cardinality(R) \in Nat
    /\ \A x \in R, z \in A : z <= x => z \in R
    /\ Cardinality(R) < n => R = A
    /\ A # {} => R # {}

LEMMA FirstRows ==
    ASSUME NEW S \in SUBSET Names, NEW c \in Nat, NEW n \in Nat \ {0}
    PROVE  FirstOf(FirstAfter(S, c, n), After(S, c), n)
  <1>. DEFINE R == FirstAfter(S, c, n)
              A == After(S, c)
              Below(x) == {y \in A : y < x}
  <1>1. A \subseteq Names /\ A \subseteq Nat /\ IsFiniteSet(A)
    BY PagingAssumption, FS_Subset DEF After
  <1>2. \A x \in A : Below(x) \subseteq A /\ IsFiniteSet(Below(x)) /\ Cardinality(Below(x)) \in Nat
    BY <1>1, FS_Subset, FS_CardinalityType
  <1>3. R = {x \in A : Cardinality(Below(x)) < n}
    BY DEF FirstAfter, After
  <1>. HIDE DEF R
  <1>4. R \subseteq A /\ IsFiniteSet(R) /\ Cardinality(R) \in Nat
    BY <1>1, <1>3, FS_Subset, FS_CardinalityType
  <1>5. ASSUME NEW x \in R, NEW z \in A, z <= x PROVE z \in R
    <2>1. Below(z) \subseteq Below(x)
      BY <1>1, <1>4, <1>5
    <2>2. Cardinality(Below(z)) <= Cardinality(Below(x))
      BY <1>2, <1>4, <2>1, FS_Subset
    <2>3. Cardinality(Below(x)) < n
      BY <1>3
    <2>. HIDE DEF Below, A
    <2>. QED  BY <1>2, <1>3, <1>4, <2>2, <2>3
  <1>6. ASSUME Cardinality(R) < n PROVE R = A
    <2>. SUFFICES ASSUME A \ R # {} PROVE FALSE
      BY <1>4
    <2>1. PICK m \in A \ R : \A y \in A \ R : m <= y
      BY <1>1, Least
    <2>2. Below(m) \subseteq R
      BY <1>1, <2>1
    <2>3. Cardinality(Below(m)) <= Cardinality(R)
      BY <1>4, <2>2, FS_Subset
    <2>. HIDE DEF Below, A
    <2>. QED  BY <1>2, <1>3, <1>4, <1>6, <2>1, <2>3
  <1>7. ASSUME R = {} PROVE A = {}
    BY <1>6, <1>7, FS_EmptySet
  <1>8. FirstOf(R, A, n)
    BY <1>4, <1>5, <1>6, <1>7 DEF FirstOf
  <1>. QED  BY <1>8 DEF R

(* docQueryResult: a page that gives no cursor shows everything, and one   *)
(* that gives a cursor shows what is not behind it.                        *)
LEMMA ShownRows ==
    ASSUME NEW rows \in SUBSET Names, NEW page, page = DocQueryResult(rows)
    PROVE  /\ page.rows \subseteq rows /\ page.next \in Names \cup {Origin}
           /\ page.next = Origin => page.rows = rows /\ Cardinality(rows) <= Count
           /\ page.next # Origin => /\ page.next \in page.rows
                                    /\ \A x \in page.rows : x <= page.next
                                    /\ \A x \in rows : x <= page.next => x \in page.rows
  <1>. DEFINE shown == FirstAfter(rows, Origin, Count)
  <1>0. \A x \in rows : x \in Nat /\ x > 0
    BY PagingAssumption
  <1>1. After(rows, Origin) = rows /\ rows \subseteq Nat /\ Origin \in Nat /\ Count \in Nat \ {0}
    BY <1>0, PagingAssumption DEF After, Origin
  <1>2. IsFiniteSet(rows) /\ Cardinality(rows) \in Nat
    BY PagingAssumption, FS_Subset, FS_CardinalityType
  <1>3. /\ shown \subseteq rows /\ IsFiniteSet(shown) /\ Cardinality(shown) \in Nat
        /\ \A x \in shown, z \in rows : z <= x => z \in shown
        /\ Cardinality(shown) < Count => shown = rows
        /\ rows # {} => shown # {}
    <2>1. FirstOf(shown, After(rows, Origin), Count)
      BY <1>1, FirstRows
    <2>2. FirstOf(shown, rows, Count)
      BY <1>1, <2>1
    <2>. HIDE DEF shown
    <2>. QED  BY <2>2 DEF FirstOf
  <1>4. page.rows = shown /\ page.next = IF Cardinality(rows) > Count THEN Max(shown) ELSE Origin
    BY DEF DocQueryResult, Answer
  <1>5. CASE Cardinality(rows) > Count
    <2>1. rows # {}
      BY <1>1, <1>2, <1>5, FS_EmptySet
    <2>2. Max(shown) \in shown /\ \A y \in shown : y <= Max(shown)
      BY <1>1, <1>3, <2>1, Greatest
    <2>3. Max(shown) \in Names /\ Max(shown) # Origin
      BY <1>3, <2>2, PagingAssumption DEF Origin
    <2>. QED  BY <1>3, <1>4, <1>5, <2>2, <2>3
  <1>6. CASE ~(Cardinality(rows) > Count)
    <2>1. Cardinality(rows) <= Count
      BY <1>1, <1>2, <1>6
    <2>2. shown = rows
      <3>1. CASE Cardinality(shown) < Count
        BY <1>3, <3>1
      <3>2. CASE ~(Cardinality(shown) < Count)
        <4>1. Cardinality(shown) <= Cardinality(rows)
          BY <1>2, <1>3, FS_Subset
        <4>2. Cardinality(shown) = Cardinality(rows)
          BY <1>1, <1>2, <1>3, <2>1, <3>2, <4>1
        <4>. QED  BY <1>2, <1>3, <4>2, FS_Subset
      <3>. QED  BY <3>1, <3>2
    <2>. QED  BY <1>4, <1>6, <2>1, <2>2
  <1>. QED  BY <1>5, <1>6

-----------------------------------------------------------------------------
(* Listings *)

(* The names on the pages received so far are behind the cursor, in order, *)
(* and those that matched all the time and are behind it are among them.   *)
PagesInOrder(w) ==
    \A i, j \in DOMAIN w.got : i < j => \A x \in w.got[i], y \in w.got[j] : x < y
SeenIsBehind(w) == \A i \in DOMAIN w.got : \A n \in w.got[i] : n <= w.cursor
BehindIsSeen(w) == \A n \in w.steady : n <= w.cursor => Seen(w, n)

BeyondZero(w, n) == CutOff(w) /\ Zero < n
AllSeen(w) == \A n \in w.steady : Seen(w, n) \/ BeyondZero(w, n)

(* The ids between the two SELECTs of queryDocsByIndex: the first after    *)
(* the cursor, a full page of them if one that matched is not among them.  *)
IdsFirst(w) ==
    /\ \A x \in w.ids : x > w.cursor
    /\ \A n \in w.steady :
          n > w.cursor => \/ n \in w.ids
                          \/ ~(Cardinality(w.ids) <= Count) /\ \A x \in w.ids : x < n

WalkOK(w, visible) ==
    /\ w.steady \subseteq visible
    /\ PagesInOrder(w)
    /\ w.at # "done" => SeenIsBehind(w)
    /\ w.at # "done" /\ ~w.hidden => BehindIsSeen(w)
    /\ w.at = "done" /\ ~w.hidden => AllSeen(w)
    /\ w.at = "ids" => IdsFirst(w)

(* Only a request waits for the limiter. *)
Waiting == \A p \in Walkers : ask[p] # NoAsk => walk[p].at = "secure"

HttpInv ==
    /\ HttpTypeOK
    /\ Waiting
    /\ \A p \in Walkers : WalkOK(walk[p], Visible)

CutsOff(w, page, n) == w.kind = "scan" /\ EndsWithZero(page.rows) /\ Zero < n

(* What a page must be for its receiver: beyond the cursor, up to the next *)
(* one, and with everything in between that matched all the time.          *)
PageOK(w, page, hid) ==
    /\ page.rows \subseteq Names /\ page.next \in Names \cup {Origin}
    /\ \A x \in page.rows : x > w.cursor
    /\ page.next # Origin => /\ page.next > w.cursor
                             /\ \A x \in page.rows : x <= page.next
    /\ ~hid => \A n \in w.steady :
          n > w.cursor => \/ n \in page.rows
                          \/ page.next # Origin /\ n > page.next
                          \/ page.next = Origin /\ CutsOff(w, page, n)

Received(w, page, hid) ==
    [w EXCEPT !.at = IF page.next = Origin THEN "done" ELSE "ready",
              !.cursor = page.next,
              !.ids = {},
              !.got = Append(w.got, page.rows),
              !.hidden = w.hidden \/ hid]

LEMMA NumbersNames == Names \subseteq Nat /\ Origin \in Nat /\ \A n \in Names : n > Origin
  BY PagingAssumption DEF Origin

LEMMA ReceivedOK ==
    ASSUME NEW w \in Walk, NEW visible \in SUBSET Names, NEW page, NEW hid \in BOOLEAN,
           w.at # "done", WalkOK(w, visible), PageOK(w, page, hid),
           NEW new, new = Received(w, page, hid)
    PROVE  new \in Walk /\ WalkOK(new, visible) /\ new.at # "secure"
  <1>. DEFINE at == IF page.next = Origin THEN "done" ELSE "ready"
              got == Append(w.got, page.rows)
              last == Len(w.got) + 1
  <1>1. /\ w.cursor \in Nat /\ w.got \in Seq(SUBSET Names) /\ w.steady \subseteq Names
        /\ w.hidden \in BOOLEAN /\ page.rows \in SUBSET Names /\ page.next \in Names \cup {Origin}
        /\ page.rows \subseteq Nat /\ page.next \in Nat
    BY NumbersNames DEF Walk, PageOK
  <1>2. /\ new.at = at /\ new.kind = w.kind /\ new.cursor = page.next /\ new.ids = {}
        /\ new.got = got /\ new.steady = w.steady /\ new.hidden = (w.hidden \/ hid)
    BY DEF Walk, Received
  <1>3. new \in Walk
    <2>1. got \in Seq(SUBSET Names)
      BY <1>1
    <2>2. (w.hidden \/ hid) \in BOOLEAN
      BY <1>1
    <2>3. at \in {"idle", "ready", "secure", "handler", "ids", "done"}
      OBVIOUS
    <2>. HIDE DEF at, got
    <2>. QED  BY <1>1, <2>1, <2>2, <2>3 DEF Walk, Received, at, got
  <1>4. /\ Len(w.got) \in Nat /\ DOMAIN w.got = 1 .. Len(w.got) /\ DOMAIN got = 1 .. last
        /\ got[last] = page.rows /\ \A i \in DOMAIN w.got : got[i] = w.got[i]
    BY <1>1
  <1>15. got # <<>> /\ got[Len(got)] = page.rows
    BY <1>1
  <1>. HIDE DEF got, at
  <1>5. \A i \in DOMAIN w.got : w.got[i] \subseteq Nat
    <2>1. \A i \in DOMAIN w.got : w.got[i] \in SUBSET Names
      BY <1>1
    <2>. QED  BY <2>1, NumbersNames
  <1>6. \A n : Seen(new, n) <=> Seen(w, n) \/ n \in page.rows
    BY <1>2, <1>4 DEF Seen
  <1>7. SeenIsBehind(w) /\ PagesInOrder(w)
    BY DEF WalkOK
  <1>8. PagesInOrder(new)
    <2>. SUFFICES ASSUME NEW i \in DOMAIN got, NEW j \in DOMAIN got, i < j,
                         NEW x \in got[i], NEW y \in got[j]
                  PROVE  x < y
      BY <1>2 DEF PagesInOrder
    <2>1. i \in DOMAIN w.got /\ (j \in DOMAIN w.got \/ j = last)
      BY <1>4
    <2>2. CASE j \in DOMAIN w.got
      BY <1>4, <1>7, <2>1, <2>2 DEF PagesInOrder
    <2>3. CASE j = last
      <3>1. x \in Nat /\ x <= w.cursor
        BY <1>4, <1>5, <1>7, <2>1 DEF SeenIsBehind
      <3>2. y \in Nat /\ y > w.cursor
        BY <1>1, <1>4, <2>3 DEF PageOK
      <3>. QED  BY <1>1, <3>1, <3>2
    <2>. QED  BY <2>1, <2>2, <2>3
  <1>9. ASSUME page.next # Origin PROVE SeenIsBehind(new)
    <2>. SUFFICES ASSUME NEW i \in DOMAIN got, NEW x \in got[i] PROVE x <= page.next
      BY <1>2 DEF SeenIsBehind
    <2>1. CASE i \in DOMAIN w.got
      <3>1. x \in Nat /\ x <= w.cursor
        BY <1>4, <1>5, <1>7, <2>1 DEF SeenIsBehind
      <3>2. page.next > w.cursor
        BY <1>9 DEF PageOK
      <3>. QED  BY <1>1, <3>1, <3>2
    <2>2. CASE i = last
      BY <1>4, <1>9, <2>2 DEF PageOK
    <2>. QED  BY <1>4, <2>1, <2>2
  <1>10. ASSUME ~new.hidden, NEW n \in w.steady
         PROVE  \/ Seen(new, n)
                \/ page.next # Origin /\ n > page.next
                \/ page.next = Origin /\ CutsOff(w, page, n)
    <2>1. ~w.hidden /\ ~hid
      BY <1>2, <1>10
    <2>2. n \in Nat
      BY <1>1, NumbersNames
    <2>3. CASE n <= w.cursor
      <3>1. Seen(w, n)
        BY <2>1, <2>3 DEF WalkOK, BehindIsSeen
      <3>. QED  BY <3>1, <1>6
    <2>4. CASE n > w.cursor
      BY <1>6, <2>1, <2>4 DEF PageOK
    <2>. QED  BY <1>1, <2>2, <2>3, <2>4
  <1>11. ASSUME ~new.hidden, page.next # Origin PROVE BehindIsSeen(new)
    <2>1. \A n \in w.steady : n \in Nat
      BY <1>1, NumbersNames
    <2>. QED  BY <1>1, <1>2, <1>10, <1>11, <2>1 DEF BehindIsSeen
  <1>12. ASSUME ~new.hidden, page.next = Origin PROVE AllSeen(new)
    <2>1. new.got # <<>> /\ new.got[Len(new.got)] = page.rows
      BY <1>2, <1>15
    <2>2. \A n : CutsOff(w, page, n) => BeyondZero(new, n)
      BY <1>2, <2>1 DEF CutsOff, CutOff, BeyondZero
    <2>. QED  BY <1>2, <1>10, <1>12, <2>2 DEF AllSeen
  <1>13. /\ new.at = "done" => page.next = Origin
         /\ new.at # "done" => page.next # Origin
         /\ new.at # "ids" /\ new.at # "secure"
    BY <1>2 DEF at
  <1>14. new.steady \subseteq visible
    BY <1>2 DEF WalkOK
  <1>. QED  BY <1>3, <1>8, <1>9, <1>11, <1>12, <1>13, <1>14 DEF WalkOK

(* The pages of the three listings are such pages. *)
LEMMA ScanPageOK ==
    ASSUME NEW w \in Walk, NEW visible \in SUBSET Names, WalkOK(w, visible), w.kind = "scan"
    PROVE  PageOK(w, ScanPage(visible, w.cursor), FALSE)
  <1>. DEFINE rows == FirstAfter(visible, w.cursor, Count)
              A == After(visible, w.cursor)
  <1>1. w.cursor \in Nat /\ w.steady \subseteq visible /\ Count \in Nat \ {0}
    BY NumbersNames, PagingAssumption DEF Walk, WalkOK
  <1>2. FirstOf(rows, A, Count)
    BY <1>1, FirstRows
  <1>3. PICK page : page = ScanPage(visible, w.cursor)
    OBVIOUS
  <1>4. /\ page.rows = rows
        /\ page.next = IF Cardinality(rows) < Count \/ Max(rows) = Zero THEN Origin ELSE Max(rows)
    BY <1>3 DEF ScanPage, Answer
  <1>. HIDE DEF rows
  <1>5. A \subseteq Names /\ A \subseteq Nat /\ \A x \in A : x > w.cursor
    BY NumbersNames DEF After
  <1>6. \A n \in w.steady : n > w.cursor => n \in A
    BY <1>1 DEF After
  <1>. HIDE DEF A
  <1>7. rows \subseteq A /\ rows \subseteq Names /\ rows \subseteq Nat /\ Cardinality(rows) \in Nat
    BY <1>2, <1>5 DEF FirstOf
  <1>8. CASE Cardinality(rows) < Count
    <2>1. rows = A /\ page.next = Origin
      BY <1>2, <1>4, <1>8 DEF FirstOf
    <2>2. PageOK(w, page, FALSE)
      BY <1>4, <1>5, <1>6, <2>1 DEF PageOK
    <2>. QED  BY <1>3, <2>2
  <1>9. CASE ~(Cardinality(rows) < Count)
    <2>1. rows # {} /\ IsFiniteSet(rows)
      BY <1>1, <1>2, <1>9, FS_EmptySet DEF FirstOf
    <2>2. Max(rows) \in rows /\ \A y \in rows : y <= Max(rows)
      BY <1>7, <2>1, Greatest
    <2>3. PICK m : m = Max(rows)
      OBVIOUS
    <2>4. /\ m \in rows /\ m \in Names /\ m \in Nat /\ m # Origin /\ m > w.cursor
          /\ \A y \in rows : y <= m
      <3>1. m \in rows /\ \A y \in rows : y <= m
        BY <2>2, <2>3
      <3>2. m \in A /\ m \in Names /\ m \in Nat
        BY <1>7, <3>1
      <3>3. m > Origin /\ m > w.cursor
        BY <1>5, <3>2, NumbersNames
      <3>4. m # Origin
        BY <3>2, <3>3, NumbersNames
      <3>. QED  BY <3>1, <3>2, <3>3, <3>4
    <2>5. ASSUME NEW n \in w.steady, n > w.cursor PROVE n \in rows \/ n > m
      <3>1. n \in A /\ n \in Nat
        BY <1>5, <1>6, <2>5
      <3>2. n <= m => n \in rows
        BY <1>2, <2>4, <3>1 DEF FirstOf
      <3>. QED  BY <2>4, <3>1, <3>2
    <2>6. CASE m = Zero
      <3>1. page.next = Origin
        BY <1>4, <2>3, <2>6
      <3>a. EndsWithZero(page.rows)
        BY <1>4, <1>9, <2>4, <2>6 DEF EndsWithZero
      <3>2. ASSUME NEW n \in w.steady, n > m PROVE CutsOff(w, page, n)
        BY <1>1, <2>4, <2>6, <3>2, <3>a, NumbersNames DEF CutsOff
      <3>3. PageOK(w, page, FALSE)
        BY <1>4, <1>5, <1>7, <2>5, <3>1, <3>2 DEF PageOK
      <3>. QED  BY <1>3, <3>3
    <2>7. CASE m # Zero
      <3>1. page.next = m
        BY <1>4, <1>9, <2>3, <2>7
      <3>2. PageOK(w, page, FALSE)
        BY <1>4, <1>5, <1>7, <2>4, <2>5, <3>1 DEF PageOK
      <3>. QED  BY <1>3, <3>2
    <2>. QED  BY <2>6, <2>7
  <1>. QED  BY <1>8, <1>9

(* docQueryResult of rows that hold what matched and follows the cursor,   *)
(* unless they are more than a page and it is behind them.                 *)
LEMMA ResultOK ==
    ASSUME NEW w \in Walk, NEW rows \in SUBSET Names, NEW hid \in BOOLEAN,
           \A x \in rows : x > w.cursor,
           ~hid => \A n \in w.steady :
               n > w.cursor => \/ n \in rows
                               \/ ~(Cardinality(rows) <= Count) /\ \A x \in rows : x < n
    PROVE  PageOK(w, DocQueryResult(rows), hid)
  <1>1. PICK page : page = DocQueryResult(rows)
    OBVIOUS
  <1>2. /\ page.rows \subseteq rows /\ page.next \in Names \cup {Origin}
        /\ page.next = Origin => page.rows = rows /\ Cardinality(rows) <= Count
        /\ page.next # Origin => /\ page.next \in page.rows
                                 /\ \A x \in page.rows : x <= page.next
                                 /\ \A x \in rows : x <= page.next => x \in page.rows
    BY <1>1, ShownRows
  <1>3. CASE page.next = Origin
    <2>1. PageOK(w, page, hid)
      BY <1>2, <1>3 DEF PageOK
    <2>. QED  BY <1>1, <2>1
  <1>4. CASE page.next # Origin
    <2>1. page.next \in rows /\ page.next > w.cursor /\ page.next \in Nat
      BY <1>2, <1>4, NumbersNames
    <2>2. ASSUME ~hid, NEW n \in w.steady, n > w.cursor
          PROVE  n \in page.rows \/ n > page.next
      <3>1. n \in Nat
        BY NumbersNames DEF Walk
      <3>2. CASE n \in rows
        BY <1>2, <1>4, <2>1, <3>1, <3>2
      <3>3. CASE \A x \in rows : x < n
        BY <2>1, <3>1, <3>3
      <3>. QED  BY <2>2, <3>2, <3>3
    <2>3. PageOK(w, page, hid)
      BY <1>2, <1>4, <2>1, <2>2 DEF PageOK
    <2>. QED  BY <1>1, <2>3
  <1>. QED  BY <1>3, <1>4

(* The first n rows of a set that holds all that matched. *)
LEMMA RowsOK ==
    ASSUME NEW w \in Walk, NEW set \in SUBSET Names, w.steady \subseteq set,
           NEW rows, rows = FirstAfter(set, w.cursor, Count + 1)
    PROVE  /\ rows \subseteq Names /\ \A x \in rows : x > w.cursor
           /\ \A n \in w.steady :
                 n > w.cursor => \/ n \in rows
                                 \/ ~(Cardinality(rows) <= Count) /\ \A x \in rows : x < n
  <1>. DEFINE A == After(set, w.cursor)
  <1>1. w.cursor \in Nat /\ Count \in Nat /\ Count + 1 \in Nat \ {0}
    <2>1. w.cursor \in Nat
      BY NumbersNames DEF Walk
    <2>2. Count \in Nat
      BY PagingAssumption
    <2>. QED  BY <2>1, <2>2
  <1>2. FirstOf(rows, A, Count + 1)
    BY <1>1, FirstRows
  <1>3. A \subseteq Names /\ A \subseteq Nat /\ \A x \in A : x > w.cursor
    BY NumbersNames DEF After
  <1>4. \A n \in w.steady : n > w.cursor => n \in A
    BY DEF After
  <1>. HIDE DEF A
  <1>5. rows \subseteq A /\ Cardinality(rows) \in Nat
    BY <1>2 DEF FirstOf
  <1>6. ASSUME NEW n \in A, n \notin rows
        PROVE  ~(Cardinality(rows) <= Count) /\ \A x \in rows : x < n
    <2>1. ~(Cardinality(rows) < Count + 1)
      BY <1>2, <1>6 DEF FirstOf
    <2>2. \A x \in rows : ~(n <= x)
      BY <1>2, <1>6 DEF FirstOf
    <2>3. \A x \in rows : x \in Nat /\ n \in Nat
      BY <1>3, <1>5
    <2>4. ~(Cardinality(rows) <= Count)
      BY <1>1, <1>5, <2>1
    <2>5. \A x \in rows : x < n
      BY <2>2, <2>3
    <2>. QED  BY <2>4, <2>5
  <1>. QED  BY <1>3, <1>4, <1>5, <1>6

LEMMA ListPageOK ==
    ASSUME NEW w \in Walk, NEW visible \in SUBSET Names, WalkOK(w, visible)
    PROVE  PageOK(w, ListPage(visible, w.cursor), FALSE)
  <1>1. w.steady \subseteq visible
    BY DEF WalkOK
  <1>2. PICK rows : rows = FirstAfter(visible, w.cursor, Count + 1)
    OBVIOUS
  <1>3. /\ rows \in SUBSET Names /\ \A x \in rows : x > w.cursor
        /\ \A n \in w.steady :
              n > w.cursor => \/ n \in rows
                              \/ ~(Cardinality(rows) <= Count) /\ \A x \in rows : x < n
    BY <1>1, <1>2, RowsOK
  <1>4. PageOK(w, DocQueryResult(rows), FALSE)
    BY <1>3, ResultOK
  <1>. QED  BY <1>2, <1>4 DEF ListPage

LEMMA FindPageOK ==
    ASSUME NEW w \in Walk, NEW visible \in SUBSET Names, WalkOK(w, visible), w.at = "ids"
    PROVE  PageOK(w, FindPage(w.ids, visible), ~(w.ids \subseteq visible))
  <1>1. PICK hid \in BOOLEAN : hid = ~(w.ids \subseteq visible)
    OBVIOUS
  <1>2. IdsFirst(w) /\ w.steady \subseteq visible
    BY DEF WalkOK
  <1>3. PICK rows \in SUBSET Names : rows = w.ids \cap visible
    OBVIOUS
  <1>4. \A x \in rows : x > w.cursor
    BY <1>2, <1>3 DEF IdsFirst
  <1>5. ASSUME ~hid PROVE rows = w.ids
    BY <1>1, <1>3, <1>5
  <1>6. ~hid => \A n \in w.steady :
          n > w.cursor => \/ n \in rows
                          \/ ~(Cardinality(rows) <= Count) /\ \A x \in rows : x < n
    BY <1>2, <1>5 DEF IdsFirst
  <1>7. PageOK(w, DocQueryResult(rows), hid)
    BY <1>4, <1>6, ResultOK
  <1>. QED  BY <1>1, <1>3, <1>7 DEF FindPage

(* The steps. *)

LEMMA WalkInv ==
    ASSUME HttpInv, LimiterTypeOK', NEW p \in Walkers, NEW new \in Walk, WalkOK(new, Visible),
           walk' = [walk EXCEPT ![p] = new], table' = table,
           ask'[p] # NoAsk => new.at = "secure", \A q \in Walkers : q # p => ask'[q] = ask[q]
    PROVE  HttpInv'
  <1>1. walk \in [Walkers -> Walk] /\ walk' \in [Walkers -> Walk]
    BY DEF HttpInv, HttpTypeOK
  <1>2. walk'[p] = new /\ \A q \in Walkers : q # p => walk'[q] = walk[q]
    BY <1>1
  <1>3. HttpTypeOK'
    BY <1>1 DEF HttpInv, HttpTypeOK
  <1>4. Waiting'
    <2>. SUFFICES ASSUME NEW q \in Walkers, ask'[q] # NoAsk PROVE walk'[q].at = "secure"
      BY DEF Waiting
    <2>. QED  BY <1>2 DEF HttpInv, Waiting
  <1>5. Visible' = Visible
    BY DEF Visible
  <1>6. ASSUME NEW q \in Walkers PROVE WalkOK(walk'[q], Visible)
    BY <1>2 DEF HttpInv
  <1>7. ASSUME NEW q \in Walkers PROVE WalkOK(walk[q], Visible)'
    BY <1>5, <1>6 DEF WalkOK, PagesInOrder, SeenIsBehind, BehindIsSeen, AllSeen, IdsFirst,
                      BeyondZero, CutOff, Seen
  <1>. QED  BY <1>3, <1>4, <1>7 DEF HttpInv

(* A walk that only moves between the limiter and its next request. *)
LEMMA MovedOK ==
    ASSUME NEW w \in Walk, NEW visible, WalkOK(w, visible), w.at # "done",
           NEW at \in {"ready", "secure", "handler"},
           NEW new, new = [w EXCEPT !.at = at]
    PROVE  new \in Walk /\ WalkOK(new, visible) /\ new.at = at
  <1>1. /\ new.at = at /\ new.kind = w.kind /\ new.cursor = w.cursor /\ new.ids = w.ids
        /\ new.got = w.got /\ new.steady = w.steady /\ new.hidden = w.hidden
    BY DEF Walk
  <1>2. new \in Walk
    BY DEF Walk
  <1>3. at # "done" /\ at # "ids"
    OBVIOUS
  <1>. QED  BY <1>1, <1>2, <1>3 DEF WalkOK, PagesInOrder, SeenIsBehind, BehindIsSeen, Seen

LEMMA VisibleNames == Visible \in SUBSET Names /\ Indexed \in SUBSET Names /\ Visible \subseteq Indexed
  BY DEF Visible, Indexed

LEMMA BeginInv ==
    ASSUME HttpInv, NEW p \in Walkers, NEW kind \in Kinds, Begin(p, kind)
    PROVE  HttpInv'
  <1>. DEFINE new == [NoWalk EXCEPT !.at = "ready", !.kind = kind, !.steady = Visible]
  <1>1. /\ walk[p] = NoWalk /\ walk' = [walk EXCEPT ![p] = new] /\ table' = table /\ ask' = ask
        /\ UNCHANGED limiterVars
    BY DEF Begin, limiterVars
  <1>2. new.at = "ready" /\ new.cursor = Origin /\ new.got = <<>> /\ new.steady = Visible
    BY DEF NoWalk
  <1>3. new \in Walk
    <2>1. kind \in {"none", "scan", "list", "find"} /\ <<>> \in Seq(SUBSET Names)
      BY HttpAssumption
    <2>. QED  BY <2>1, VisibleNames DEF NoWalk, Walk
  <1>. HIDE DEF new
  <1>4. WalkOK(new, Visible)
    <2>1. PagesInOrder(new) /\ SeenIsBehind(new)
      BY <1>2 DEF PagesInOrder, SeenIsBehind
    <2>2. BehindIsSeen(new)
      <3>1. \A n \in Visible : n \in Nat /\ n > Origin
        BY VisibleNames, NumbersNames
      <3>2. \A n \in Visible : ~(n <= Origin)
        BY <3>1, NumbersNames
      <3>. QED  BY <1>2, <3>2 DEF BehindIsSeen
    <2>. QED  BY <1>2, <2>1, <2>2 DEF WalkOK
  <1>5. LimiterTypeOK'
    BY <1>1 DEF HttpInv, HttpTypeOK, LimiterTypeOK, limiterVars
  <1>6. ask'[p] = NoAsk
    BY <1>1 DEF HttpInv, Waiting, NoWalk
  <1>. QED  BY <1>1, <1>3, <1>4, <1>5, <1>6, WalkInv

LEMMA RequestInv ==
    ASSUME HttpInv, LimiterTypeOK', NEW p \in Walkers,
           Request(p) \/ Admitted(p) \/ TooManyRequests(p)
    PROVE  HttpInv'
  <1>1. walk \in [Walkers -> Walk] /\ WalkOK(walk[p], Visible) /\ walk[p] \in Walk
    BY DEF HttpInv, HttpTypeOK
  <1>2. PICK at \in {"ready", "secure", "handler"} :
          /\ walk' = [walk EXCEPT ![p].at = at] /\ table' = table
          /\ walk[p].at # "done"
          /\ ask'[p] # NoAsk => at = "secure"
          /\ \A q \in Walkers : q # p => ask'[q] = ask[q]
    <2>0. p \in Callers /\ Walkers \subseteq Callers /\ DOMAIN ask = Callers
      BY HttpAssumption DEF HttpInv, HttpTypeOK, LimiterTypeOK
    <2>1. CASE Request(p)
      <3>1. \A q \in Walkers : q # p => ask'[q] = ask[q]
        BY <2>0, <2>1 DEF Request, Call
      <3>. QED  BY <2>1, <3>1 DEF Request
    <2>2. CASE Admitted(p)
      <3>1. ask[p] # NoAsk /\ ask' = [ask EXCEPT ![p] = NoAsk]
        BY <2>2 DEF Admitted, Grant
      <3>2. walk[p].at = "secure"
        BY <3>1 DEF HttpInv, Waiting
      <3>3. ask'[p] = NoAsk /\ \A q \in Walkers : q # p => ask'[q] = ask[q]
        BY <2>0, <3>1
      <3>. QED  BY <2>2, <3>2, <3>3 DEF Admitted
    <2>3. CASE TooManyRequests(p)
      <3>1. ask[p] # NoAsk /\ ask' = [ask EXCEPT ![p] = NoAsk]
        BY <2>3 DEF TooManyRequests, Refuse
      <3>2. walk[p].at = "secure"
        BY <3>1 DEF HttpInv, Waiting
      <3>3. ask'[p] = NoAsk /\ \A q \in Walkers : q # p => ask'[q] = ask[q]
        BY <2>0, <3>1
      <3>. QED  BY <2>3, <3>2, <3>3 DEF TooManyRequests
    <2>. QED  BY <2>1, <2>2, <2>3
  <1>3. PICK new : new = [walk[p] EXCEPT !.at = at]
    OBVIOUS
  <1>4. new \in Walk /\ WalkOK(new, Visible) /\ new.at = at
    BY <1>1, <1>2, <1>3, MovedOK
  <1>5. walk' = [walk EXCEPT ![p] = new]
    BY <1>1, <1>2, <1>3
  <1>. QED  BY <1>2, <1>4, <1>5, WalkInv

LEMMA ReceiveInv ==
    ASSUME HttpInv, NEW p \in Walkers, NEW page, NEW hid \in BOOLEAN,
           walk[p].at \in {"handler", "ids"}, PageOK(walk[p], page, hid), Receive(p, page, hid)
    PROVE  HttpInv'
  <1>1. walk[p] \in Walk /\ WalkOK(walk[p], Visible)
    BY DEF HttpInv, HttpTypeOK
  <1>2. PICK new : new = Received(walk[p], page, hid)
    OBVIOUS
  <1>3. new \in Walk /\ WalkOK(new, Visible)
    BY <1>1, <1>2, VisibleNames, ReceivedOK
  <1>4. walk' = [walk EXCEPT ![p] = new] /\ table' = table /\ UNCHANGED limiterVars
    BY <1>2 DEF Receive, Received
  <1>5. LimiterTypeOK' /\ ask' = ask
    BY <1>4 DEF HttpInv, HttpTypeOK, LimiterTypeOK, limiterVars
  <1>6. ask'[p] = NoAsk
    BY <1>5 DEF HttpInv, Waiting
  <1>. QED  BY <1>3, <1>4, <1>5, <1>6, WalkInv

LEMMA AnswerInv ==
    ASSUME HttpInv, NEW p \in Walkers, Scan(p) \/ List(p) \/ FindDocs(p)
    PROVE  HttpInv'
  <1>1. walk[p] \in Walk /\ WalkOK(walk[p], Visible)
    BY DEF HttpInv, HttpTypeOK
  <1>2. CASE Scan(p)
    <2>1. PICK page : page = ScanPage(Visible, walk[p].cursor)
      OBVIOUS
    <2>2. walk[p].at = "handler" /\ walk[p].kind = "scan" /\ Receive(p, page, FALSE)
      BY <1>2, <2>1 DEF Scan
    <2>3. PageOK(walk[p], page, FALSE)
      BY <1>1, <2>1, <2>2, VisibleNames, ScanPageOK
    <2>. QED  BY <2>2, <2>3, ReceiveInv
  <1>3. CASE List(p)
    <2>1. PICK page : page = ListPage(Visible, walk[p].cursor)
      OBVIOUS
    <2>2. walk[p].at = "handler" /\ Receive(p, page, FALSE)
      BY <1>3, <2>1 DEF List
    <2>3. PageOK(walk[p], page, FALSE)
      BY <1>1, <2>1, <2>2, VisibleNames, ListPageOK
    <2>. QED  BY <2>2, <2>3, ReceiveInv
  <1>4. CASE FindDocs(p)
    <2>1. PICK page : page = FindPage(walk[p].ids, Visible)
      OBVIOUS
    <2>2. PICK hid \in BOOLEAN : hid = ~(walk[p].ids \subseteq Visible)
      OBVIOUS
    <2>3. walk[p].at = "ids" /\ Receive(p, page, hid)
      BY <1>4, <2>1, <2>2 DEF FindDocs
    <2>4. PageOK(walk[p], page, hid)
      BY <1>1, <2>1, <2>2, <2>3, VisibleNames, FindPageOK
    <2>. QED  BY <2>3, <2>4, ReceiveInv
  <1>. QED  BY <1>2, <1>3, <1>4

LEMMA FindIdsInv ==
    ASSUME HttpInv, NEW p \in Walkers, FindIds(p)
    PROVE  HttpInv'
  <1>1. walk \in [Walkers -> Walk] /\ walk[p] \in Walk /\ WalkOK(walk[p], Visible)
    BY DEF HttpInv, HttpTypeOK
  <1>2. PICK rows : rows = FirstAfter(Indexed, walk[p].cursor, Count + 1)
    OBVIOUS
  <1>3. /\ rows \in SUBSET Names /\ \A x \in rows : x > walk[p].cursor
        /\ \A n \in walk[p].steady :
              n > walk[p].cursor => \/ n \in rows
                                    \/ ~(Cardinality(rows) <= Count) /\ \A x \in rows : x < n
    <2>1. walk[p].steady \subseteq Indexed
      BY <1>1, VisibleNames DEF WalkOK
    <2>. QED  BY <1>1, <1>2, <2>1, VisibleNames, RowsOK
  <1>4. PICK new : new = [walk[p] EXCEPT !.at = "ids", !.ids = rows]
    OBVIOUS
  <1>5. /\ new.at = "ids" /\ new.cursor = walk[p].cursor /\ new.ids = rows
        /\ new.got = walk[p].got /\ new.steady = walk[p].steady /\ new.hidden = walk[p].hidden
    BY <1>1, <1>4 DEF Walk
  <1>6. new \in Walk
    BY <1>1, <1>3, <1>4 DEF Walk
  <1>7. /\ walk[p].at = "handler" /\ walk' = [walk EXCEPT ![p] = new]
        /\ table' = table /\ UNCHANGED limiterVars
    BY <1>1, <1>2, <1>4 DEF FindIds, IndexPage
  <1>8. WalkOK(new, Visible)
    <2>1. IdsFirst(new)
      BY <1>3, <1>5 DEF IdsFirst
    <2>. QED  BY <1>1, <1>5, <1>7, <2>1
         DEF WalkOK, PagesInOrder, SeenIsBehind, BehindIsSeen, Seen
  <1>9. LimiterTypeOK' /\ ask' = ask
    BY <1>7 DEF HttpInv, HttpTypeOK, LimiterTypeOK, limiterVars
  <1>10. ask'[p] = NoAsk
    BY <1>7, <1>9 DEF HttpInv, Waiting
  <1>. QED  BY <1>6, <1>7, <1>8, <1>9, <1>10, WalkInv

(* The table changes: a name that no longer matches is steady no more. *)
LEMMA ChangedOK ==
    ASSUME NEW w \in Walk, NEW visible \in SUBSET Names, WalkOK(w, visible), NEW n \in Names,
           NEW new, new = [w EXCEPT !.steady = w.steady \ {n}]
    PROVE  new \in Walk /\ WalkOK(new, visible \ {n}) /\ new.at = w.at
  <1>1. /\ new.at = w.at /\ new.kind = w.kind /\ new.cursor = w.cursor /\ new.ids = w.ids
        /\ new.got = w.got /\ new.steady = w.steady \ {n} /\ new.hidden = w.hidden
    BY DEF Walk
  <1>2. new \in Walk
    BY DEF Walk
  <1>. QED  BY <1>1, <1>2 DEF WalkOK, PagesInOrder, SeenIsBehind, BehindIsSeen, AllSeen, IdsFirst,
                              BeyondZero, CutOff, Seen

LEMMA ChangeInv ==
    ASSUME HttpInv, NEW n \in Names, NEW state \in {"absent", "hidden", "visible"},
           Change(n, state)
    PROVE  HttpInv'
  <1>1. /\ table \in [Names -> {"absent", "hidden", "visible"}] /\ walk \in [Walkers -> Walk]
        /\ \A q \in Walkers : walk[q] \in Walk /\ WalkOK(walk[q], Visible)
    BY DEF HttpInv, HttpTypeOK
  <1>2. /\ table' = [table EXCEPT ![n] = state] /\ UNCHANGED limiterVars
        /\ walk' = IF state = "visible" THEN walk
                   ELSE [q \in Walkers |-> [walk[q] EXCEPT !.steady = walk[q].steady \ {n}]]
    BY DEF Change
  <1>3. table' \in [Names -> {"absent", "hidden", "visible"}]
    BY <1>1, <1>2
  <1>4. LimiterTypeOK' /\ ask' = ask
    BY <1>2 DEF HttpInv, HttpTypeOK, LimiterTypeOK, limiterVars
  <1>5. PICK visible : visible = Visible'
    OBVIOUS
  <1>6. Visible \ {n} \subseteq visible /\ (state = "visible" => Visible \subseteq visible)
    BY <1>1, <1>2, <1>5 DEF Visible
  <1>7. /\ walk' \in [Walkers -> Walk]
        /\ \A q \in Walkers : WalkOK(walk'[q], visible) /\ walk'[q].at = walk[q].at
    <2>1. CASE state = "visible"
      BY <1>1, <1>2, <1>6, <2>1 DEF WalkOK
    <2>2. CASE state # "visible"
      <3>1. DOMAIN walk' = Walkers
            /\ \A q \in Walkers : walk'[q] = [walk[q] EXCEPT !.steady = walk[q].steady \ {n}]
        BY <1>2, <2>2
      <3>2. walk' = [q \in Walkers |-> walk'[q]]
        BY <1>2, <2>2
      <3>3. ASSUME NEW q \in Walkers
            PROVE  /\ walk'[q] \in Walk /\ walk'[q].at = walk[q].at
                   /\ WalkOK(walk'[q], Visible \ {n})
        <4>1. PICK w \in Walk : w = walk[q] /\ WalkOK(w, Visible)
          BY <1>1
        <4>2. walk'[q] = [w EXCEPT !.steady = w.steady \ {n}]
          BY <3>1, <4>1
        <4>3. walk'[q] \in Walk /\ WalkOK(walk'[q], Visible \ {n}) /\ walk'[q].at = w.at
          <5>1. Visible \in SUBSET Names /\ WalkOK(w, Visible)
            BY <4>1, VisibleNames
          <5>. QED  BY <4>2, <5>1, ChangedOK
        <4>. QED  BY <4>1, <4>3
      <3>4. ASSUME NEW q \in Walkers PROVE WalkOK(walk'[q], visible)
        BY <1>6, <3>3 DEF WalkOK
      <3>. QED  BY <3>2, <3>3, <3>4
    <2>. QED  BY <2>1, <2>2
  <1>8. ASSUME NEW q \in Walkers PROVE WalkOK(walk[q], Visible)'
    BY <1>5, <1>7 DEF WalkOK, PagesInOrder, SeenIsBehind, BehindIsSeen, AllSeen, IdsFirst,
                      BeyondZero, CutOff, Seen
  <1>9. Waiting'
    BY <1>4, <1>7 DEF HttpInv, Waiting
  <1>. QED  BY <1>3, <1>4, <1>7, <1>8, <1>9 DEF HttpInv, HttpTypeOK

(* Nothing happens to the listings. *)
LEMMA QuietInv ==
    ASSUME HttpInv, LimiterTypeOK', Quiet, \A q \in Walkers : ask'[q] = ask[q]
    PROVE  HttpInv'
  <1>1. walk' = walk /\ table' = table
    BY DEF Quiet
  <1>. QED  BY <1>1 DEF HttpInv, HttpTypeOK, Waiting, Visible, WalkOK, PagesInOrder, SeenIsBehind,
                        BehindIsSeen, AllSeen, IdsFirst, BeyondZero, CutOff, Seen

LEMMA OtherInv ==
    ASSUME HttpInv, LimiterTypeOK', NEW p \in Callers \ Walkers, Other(p)
    PROVE  HttpInv'
  <1>1. Walkers \subseteq Callers /\ DOMAIN ask = Callers
    BY HttpAssumption DEF HttpInv, HttpTypeOK, LimiterTypeOK
  <1>2. PICK a : ask' = [ask EXCEPT ![p] = a]
    BY DEF Other, Call, Grant, Refuse
  <1>3. \A q \in Walkers : ask'[q] = ask[q]
    BY <1>1, <1>2
  <1>. QED  BY <1>3, QuietInv DEF Other

LEMMA HttpStepInv == HttpInv /\ LimiterTypeOK' /\ [HttpNext]_httpVars => HttpInv'
  <1>. SUFFICES ASSUME HttpInv, LimiterTypeOK', [HttpNext]_httpVars PROVE HttpInv'
    OBVIOUS
  <1>1. CASE UNCHANGED httpVars
    BY <1>1, QuietInv DEF httpVars, limiterVars, Quiet
  <1>2. CASE Tick /\ Quiet
    BY <1>2, QuietInv DEF Tick
  <1>3. ASSUME NEW k \in Clients, Mark(k), Quiet PROVE HttpInv'
    BY <1>3, QuietInv DEF Mark
  <1>4. ASSUME NEW n \in Names, NEW state \in {"absent", "hidden", "visible"}, Change(n, state)
        PROVE  HttpInv'
    BY <1>4, ChangeInv
  <1>5. ASSUME NEW p \in Callers \ Walkers, Other(p) PROVE HttpInv'
    BY <1>5, OtherInv
  <1>6. ASSUME NEW p \in Walkers, NEW kind \in Kinds, Begin(p, kind) PROVE HttpInv'
    BY <1>6, BeginInv
  <1>7. ASSUME NEW p \in Walkers, Request(p) \/ Admitted(p) \/ TooManyRequests(p) PROVE HttpInv'
    BY <1>7, RequestInv
  <1>8. ASSUME NEW p \in Walkers, Scan(p) \/ List(p) \/ FindDocs(p) PROVE HttpInv'
    BY <1>8, AnswerInv
  <1>9. ASSUME NEW p \in Walkers, FindIds(p) PROVE HttpInv'
    BY <1>9, FindIdsInv
  <1>. QED  BY <1>1, <1>2, <1>3, <1>4, <1>5, <1>6, <1>7, <1>8, <1>9 DEF HttpNext

LEMMA HttpInitInv == HttpInit /\ LimiterTypeOK => HttpInv
  <1>. SUFFICES ASSUME HttpInit, LimiterTypeOK PROVE HttpInv
    OBVIOUS
  <1>1. \A p \in Walkers : walk[p] = NoWalk /\ ask[p] = NoAsk
    BY HttpAssumption DEF HttpInit, LimiterInit
  <1>2. NoWalk \in Walk
    <2>1. <<>> \in Seq(SUBSET Names)
      OBVIOUS
    <2>. QED  BY <2>1 DEF NoWalk, Walk
  <1>3. HttpTypeOK
    BY <1>2 DEF HttpInit, HttpTypeOK
  <1>4. WalkOK(NoWalk, Visible)
    <2>1. NoWalk.at = "idle" /\ NoWalk.got = <<>> /\ NoWalk.steady = {}
      BY DEF NoWalk
    <2>. HIDE DEF NoWalk
    <2>. QED  BY <2>1 DEF WalkOK, PagesInOrder, SeenIsBehind, BehindIsSeen
  <1>. QED  BY <1>1, <1>3, <1>4 DEF HttpInv, Waiting

(* The inductive invariant of the listings: at every moment between two    *)
(* requests, and between the two SELECTs of one, a listing has what it     *)
(* should have up to its cursor (Scan, QueryDocs, queryDocsByIndex).       *)
THEOREM HttpInvariant == HttpSpec => []HttpInv
  BY HttpInitInv, HttpStepInv, LimiterTypeCorrect, PTL DEF HttpSpec

(* Every reachable state of the API has its type; a cursor is a name that  *)
(* was on a page, or the end (Server.scan, Server.query).                  *)
THEOREM HttpTypeCorrect == HttpSpec => []HttpTypeOK
  <1>1. HttpInv => HttpTypeOK
    BY DEF HttpInv
  <1>. QED  BY <1>1, HttpInvariant, PTL

(* For any number of names, page size and number of concurrent listings,   *)
(* and whatever happens to the table meanwhile, pages come in order and no *)
(* name comes twice (Scan, QueryDocs, queryDocsByIndex).                   *)
THEOREM ListingsInOrder == HttpSpec => []NoNameTwice
  <1>1. HttpInv => NoNameTwice
    BY DEF HttpInv, WalkOK, PagesInOrder, NoNameTwice
  <1>. QED  BY <1>1, HttpInvariant, PTL

(* A listing that has come to its end holds every name that matched all    *)
(* the time it took, unless it is a SCAN whose last page ended with the    *)
(* key "0", for the keys after it, or a query that met an index row        *)
(* without its document (Scan, docQueryResult, queryDocsByIndex).          *)
THEOREM ListingsComplete == HttpSpec => []NothingMissed
  <1>1. HttpInv => NothingMissed
    BY DEF HttpInv, WalkOK, AllSeen, BeyondZero, NothingMissed
  <1>. QED  BY <1>1, HttpInvariant, PTL
=============================================================================
