---------------------------- MODULE DocStoreProofs --------------------------
(***************************************************************************)
(* The document tables and the events about them, for any number of ids,   *)
(* fields, values and requests. The inductive invariant adds to the        *)
(* properties what a request still knows of the row that it read, and what *)
(* a subscriber will have been told once the pending event is out.         *)
(***************************************************************************)
EXTENDS DocStore, TLAPS

-----------------------------------------------------------------------------
(* The inductive invariant *)

(* What a request knows: the expiry time that it saw, or acts on, is one   *)
(* of the history; the version that it read, in this life of the document, *)
(* is not younger than the row and names its body.                         *)
CallOK(c, D, V) ==
    /\ c \in Call
    /\ c.at # "idle" => c.id \in Ids
    /\ c.at \in {"judge", "write"} /\ c.row.exp # Null => c.id \in V
    /\ c.at \in {"lazyindex", "lazydoc"} => c.id \in V
    /\ c.same => /\ c.at \in {"judge", "write"}
                 /\ c.row.ver <= D[c.id].ver
                 /\ c.row.ver = D[c.id].ver => c.row.body = D[c.id].body

(* A request that has committed and not published, and what it will say. *)
Pending(c, d) == c.at \in {"put", "deleted"} /\ c.id = d
Told(c) == IF c.at = "put" THEN c.body ELSE NoDoc
Current(row) == IF Present(row) THEN row.body ELSE NoDoc

(* The last event of d is, or is going to be, its document. *)
EventsOK(d) ==
    d \notin volatile \cup crossed =>
        /\ \A q \in Procs : Pending(call[q], d) =>
              /\ Told(call[q]) = Current(docs[d])
              /\ \A r \in Procs : Pending(call[r], d) => r = q
        /\ (\A q \in Procs : ~Pending(call[q], d)) => seen[d] = Current(docs[d])

DocInv ==
    /\ TypeOK
    /\ asked \subseteq config
    /\ \A d \in Ids : docs[d].exp # Null => d \in volatile
    /\ IndexSound
    /\ ConfiguredComplete
    /\ \A p \in Procs : CallOK(call[p], docs, volatile)
    /\ \A d \in Ids : EventsOK(d)

-----------------------------------------------------------------------------
(* Rows, calls and what the store derives from a document *)

LEMMA RowTypes ==
    /\ Empty \in Body /\ NoRow \in Row /\ NoRow.exp = Null /\ ~Present(NoRow)
    /\ \A r \in Row : r.ver \in Nat /\ r.body \in Body /\ r.text \in SUBSET Texts /\ r.exp \in Nat
    /\ \A v, e \in Nat : \A b \in Body : \A t \in SUBSET Texts :
          [ver |-> v, body |-> b, text |-> t, exp |-> e] \in Row
<1>1. Empty \in Body
  BY DEF Empty, Body
<1>2. NoRow \in Row /\ NoRow.exp = Null /\ ~Present(NoRow)
  BY <1>1 DEF NoRow, Row, Null, Present
<1>3. \A r \in Row : r.ver \in Nat /\ r.body \in Body /\ r.text \in SUBSET Texts /\ r.exp \in Nat
  BY DEF Row
<1>4. \A v, e \in Nat : \A b \in Body : \A t \in SUBSET Texts :
          [ver |-> v, body |-> b, text |-> t, exp |-> e] \in Row
  BY DEF Row
<1> QED
  BY <1>1, <1>2, <1>3, <1>4

LEMMA IdleTypes ==
    /\ Idle \in Call /\ Idle.at = "idle" /\ Idle.same = FALSE
    /\ NoOpts \in [fields : SUBSET Config, ttl : Nat]
<1>1. NoOpts \in [fields : SUBSET Config, ttl : Nat]
  BY DEF NoOpts
<1> QED
  BY <1>1, RowTypes DEF Idle, Call, Stages

LEMMA IdleOK == ASSUME NEW D, NEW V PROVE CallOK(Idle, D, V)
BY IdleTypes DEF CallOK

(* A new request that has read nothing yet. *)
LEMMA StageOK ==
    ASSUME NEW D, NEW V, NEW c, c \in Call, c.id \in Ids, c.same = FALSE, c.at \notin {"judge", "write"},
           c.at \in {"lazyindex", "lazydoc"} => c.id \in V
    PROVE  CallOK(c, D, V)
BY DEF CallOK

(* buildDocIndexes, for a document d. *)
LEMMA IndexRowsFacts ==
    ASSUME NEW d \in Ids, NEW body \in Body, NEW cfg
    PROVE  /\ IndexRows(d, body, cfg) \subseteq Fields \X Scalars \X Ids
           /\ \A row \in IndexRows(d, body, cfg) :
                 row[3] = d /\ <<"field", row[1]>> \in cfg /\ body[row[1]] = row[2]
           /\ \A f \in Fields : <<"field", f>> \in cfg /\ body[f] \in Scalars
                 => <<f, body[f], d>> \in IndexRows(d, body, cfg)
<1>1. ASSUME NEW row \in IndexRows(d, body, cfg)
      PROVE  /\ row \in Fields \X Scalars \X Ids
             /\ row[3] = d /\ <<"field", row[1]>> \in cfg /\ body[row[1]] = row[2]
  <2>1. PICK f \in Fields : /\ <<"field", f>> \in cfg /\ body[f] \in Scalars
                            /\ row = <<f, body[f], d>>
    BY DEF IndexRows
  <2> QED
    BY <2>1
<1>2. ASSUME NEW f \in Fields, <<"field", f>> \in cfg, body[f] \in Scalars
      PROVE  <<f, body[f], d>> \in IndexRows(d, body, cfg)
  BY <1>2 DEF IndexRows
<1> QED
  BY <1>1, <1>2

LEMMA SearchTextFacts ==
    ASSUME NEW body \in Body, NEW cfg
    PROVE  /\ SearchText(body, cfg) \in SUBSET Texts
           /\ \A f \in Fields : <<"search", f>> \in cfg /\ body[f] \in Texts
                 => body[f] \in SearchText(body, cfg)
BY DEF SearchText

LEMMA PatchedType ==
    ASSUME NEW base \in Body, NEW patch \in Body
    PROVE  Patched(base, patch) \in Body
BY DEF Patched, Body

-----------------------------------------------------------------------------
(* What a step does to the requests and to the events *)

(* The row of d changed: the requests that knew it forgot, or will see     *)
(* that its version is another.                                            *)
LEMMA CallKept ==
    ASSUME NEW c, NEW d \in Ids, CallOK(c, docs, volatile),
           docs \in [Ids -> Row], docs' \in [Ids -> Row],
           volatile \subseteq volatile', \A e \in Ids \ {d} : docs'[e] = docs[e],
           NEW c2, c2 = c \/ c2 = [c EXCEPT !.same = FALSE],
           c.id = d => c2.same = FALSE \/ docs[d].ver < docs'[d].ver
    PROVE  /\ CallOK(c2, docs', volatile')
           /\ \A e : Pending(c2, e) <=> Pending(c, e)
           /\ Told(c2) = Told(c)
<1>1. /\ c2 \in Call /\ c2.op = c.op /\ c2.at = c.at /\ c2.id = c.id /\ c2.body = c.body
      /\ c2.row = c.row /\ (c2.same => c.same) /\ c.row \in Row
  BY DEF CallOK, Call
<1>2. c2.same => /\ c2.row.ver <= docs'[c2.id].ver
                 /\ c2.row.ver = docs'[c2.id].ver => c2.row.body = docs'[c2.id].body
  <2> SUFFICES ASSUME c2.same
               PROVE  /\ c.row.ver <= docs'[c.id].ver
                      /\ c.row.ver = docs'[c.id].ver => c.row.body = docs'[c.id].body
    BY <1>1
  <2>1. /\ c.id \in Ids /\ c.row.ver <= docs[c.id].ver
        /\ c.row.ver = docs[c.id].ver => c.row.body = docs[c.id].body
    BY <1>1 DEF CallOK
  <2>2. c.row.ver \in Nat /\ docs[c.id].ver \in Nat /\ docs'[c.id].ver \in Nat
    BY <1>1, <2>1, RowTypes
  <2>3. CASE c.id = d
    BY <2>1, <2>2, <2>3
  <2>4. CASE c.id # d
    BY <2>1, <2>4
  <2> QED
    BY <2>3, <2>4
<1>3. CallOK(c2, docs', volatile')
  BY <1>1, <1>2 DEF CallOK
<1>4. (\A e : Pending(c2, e) <=> Pending(c, e)) /\ Told(c2) = Told(c)
  BY <1>1 DEF Pending, Told
<1> QED
  BY <1>3, <1>4

(* No event became pending or was published. *)
LEMMA EventsKept ==
    ASSUME NEW d \in Ids, EventsOK(d), seen' = seen, d \in crossed' <=> d \in crossed,
           volatile \subseteq volatile',
           \A q \in Procs : /\ Pending(call'[q], d) <=> Pending(call[q], d)
                            /\ Pending(call[q], d) => Told(call'[q]) = Told(call[q]),
           d \in volatile \/ Current(docs'[d]) = Current(docs[d])
    PROVE  EventsOK(d)'
BY DEF EventsOK

(* A step of one request that only reads. *)
LEMMA OnlyCallOK ==
    ASSUME DocInv, NEW p \in Procs, NEW c, call' = [call EXCEPT ![p] = c],
           CallOK(c, docs, volatile),
           call[p].at \notin {"put", "deleted"}, c.at \notin {"put", "deleted"},
           UNCHANGED <<docs, index, config, now, volatile, asked, seen, crossed>>
    PROVE  DocInv'
<1>1. c \in Call
  BY DEF CallOK
<1>2. TypeOK'
  BY <1>1 DEF DocInv, TypeOK
<1>3. \A q \in Procs : call'[q] = IF q = p THEN c ELSE call[q]
  BY DEF DocInv, TypeOK
<1>4. ASSUME NEW q \in Procs
      PROVE  CallOK(call'[q], docs', volatile')
  BY <1>3 DEF DocInv
<1>5. ASSUME NEW d \in Ids
      PROVE  EventsOK(d)'
  <2>1. EventsOK(d) /\ docs' = docs
    BY DEF DocInv
  <2>2. \A q \in Procs : /\ Pending(call'[q], d) <=> Pending(call[q], d)
                         /\ Pending(call[q], d) => Told(call'[q]) = Told(call[q])
    BY <1>3 DEF Pending
  <2> QED
    BY <2>1, <2>2, EventsKept
<1>6. IndexSound' /\ ConfiguredComplete'
  BY DEF DocInv, IndexSound, ConfiguredComplete
<1> QED
  BY <1>2, <1>4, <1>5, <1>6 DEF DocInv

-----------------------------------------------------------------------------
(* The steps that only read *)

LEMMA BeginStep ==
    ASSUME DocInv, NEW p \in Procs, NEW op \in {"get", "patch"}, NEW d \in Ids, NEW body \in Body,
           NEW opts \in [fields : SUBSET Config, ttl : Nat], Begin(p, op, d, body, opts)
    PROVE  DocInv'
<1>1. PICK c : c = [op |-> op, at |-> "select", id |-> d, body |-> body, opts |-> opts,
                    row |-> NoRow, same |-> FALSE]
  OBVIOUS
<1>2. c \in Call /\ c.id = d /\ c.same = FALSE /\ c.at = "select"
  BY <1>1, RowTypes DEF Call, Stages
<1>3. CallOK(c, docs, volatile)
  BY <1>2, StageOK
<1>4. call[p].at = "idle" /\ call' = [call EXCEPT ![p] = c]
  BY <1>1, IdleTypes DEF Begin
<1> QED
  BY <1>2, <1>3, <1>4, OnlyCallOK DEF Begin

(* What DocInv says of a request in progress. *)
LEMMA CallFacts ==
    ASSUME DocInv, NEW p \in Procs, call[p].at # "idle"
    PROVE  CallOK(call[p], docs, volatile) /\ call[p] \in Call /\ call[p].id \in Ids
BY DEF DocInv, CallOK

LEMMA SelectStep ==
    ASSUME DocInv, NEW p \in Procs, Select(p)
    PROVE  DocInv'
<1>1. PICK c, d : c = call[p] /\ d = c.id
  OBVIOUS
<1>2. CallOK(c, docs, volatile) /\ c \in Call /\ d \in Ids /\ c.at = "select"
  BY <1>1, CallFacts DEF Select
<1>3. PICK s \in BOOLEAN : s = (c.op = "patch")
  OBVIOUS
<1>4. PICK c2 : c2 = [c EXCEPT !.at = "judge", !.row = docs[d], !.same = s]
  OBVIOUS
<1>5. docs[d] \in Row /\ docs[d].ver \in Nat /\ (docs[d].exp # Null => d \in volatile)
  BY <1>2, RowTypes DEF DocInv, TypeOK
<1>6. c2 \in Call /\ c2.at = "judge" /\ c2.row = docs[d] /\ c2.id = d
  BY <1>1, <1>2, <1>4, <1>5 DEF Call, Stages
<1>7. CallOK(c2, docs, volatile)
  BY <1>2, <1>5, <1>6 DEF CallOK
<1>8. call' = [call EXCEPT ![p] = c2] /\ call[p].at = "select"
  BY <1>1, <1>2, <1>3, <1>4 DEF Select, DocInv, TypeOK
<1> QED
  BY <1>6, <1>7, <1>8, OnlyCallOK DEF Select

LEMMA JudgeStep ==
    ASSUME DocInv, NEW p \in Procs, Judge(p)
    PROVE  DocInv'
<1>1. PICK c : c = call[p]
  OBVIOUS
<1>2. CallOK(c, docs, volatile) /\ c \in Call /\ c.id \in Ids /\ c.at = "judge"
  BY <1>1, CallFacts DEF Judge
<1>3. PICK c2 : call' = [call EXCEPT ![p] = c2] /\
          \/ Expired(c.row) /\ c2 = [Idle EXCEPT !.at = "lazyindex", !.id = c.id]
          \/ c2 = [c EXCEPT !.at = "write"]
          \/ c2 = Idle
  BY <1>1 DEF Judge
<1>4. CallOK(c2, docs, volatile) /\ c2.at \notin {"put", "deleted"}
  <2>1. CASE Expired(c.row) /\ c2 = [Idle EXCEPT !.at = "lazyindex", !.id = c.id]
    <3>1. c2 \in Call /\ c2.at = "lazyindex" /\ c2.id = c.id /\ c2.same = FALSE
      BY <1>2, <2>1, IdleTypes DEF Call, Stages
    <3>2. c.id \in volatile
      BY <1>2, <2>1 DEF CallOK, Expired
    <3> QED
      BY <1>2, <3>1, <3>2, StageOK
  <2>2. CASE c2 = [c EXCEPT !.at = "write"]
    <3>1. /\ c2 \in Call /\ c2.at = "write" /\ c2.id = c.id /\ c2.same = c.same /\ c2.row = c.row
      BY <1>2, <2>2 DEF Call, Stages
    <3> QED
      BY <1>2, <3>1 DEF CallOK
  <2>3. CASE c2 = Idle
    BY <2>3, IdleOK, IdleTypes
  <2> QED
    BY <1>3, <2>1, <2>2, <2>3
<1>5. call[p].at = "judge"
  BY <1>1, <1>2
<1> QED
  BY <1>3, <1>4, <1>5, OnlyCallOK DEF Judge

LEMMA FailStep ==
    ASSUME DocInv, NEW p \in Procs, Fail(p)
    PROVE  DocInv'
<1>1. CallOK(Idle, docs, volatile) /\ Idle.at \notin {"put", "deleted"}
  BY IdleOK, IdleTypes
<1>2. call[p].at \notin {"put", "deleted"} /\ call' = [call EXCEPT ![p] = Idle]
  BY DEF Fail
<1> QED
  BY <1>1, <1>2, OnlyCallOK DEF Fail

(* The lazy deletion goes on to the document. *)
LEMMA LazyOK ==
    ASSUME DocInv, NEW p \in Procs, call[p].at = "lazyindex"
    PROVE  /\ [call[p] EXCEPT !.at = "lazydoc"] \in Call
           /\ [call[p] EXCEPT !.at = "lazydoc"].at = "lazydoc"
           /\ CallOK([call[p] EXCEPT !.at = "lazydoc"], docs, volatile)
           /\ call[p].id \in Ids /\ call[p].id \in volatile
<1>1. PICK c : c = call[p]
  OBVIOUS
<1>2. CallOK(c, docs, volatile) /\ c \in Call /\ c.id \in Ids /\ c.at = "lazyindex"
  BY <1>1, CallFacts
<1>3. PICK c2 : c2 = [c EXCEPT !.at = "lazydoc"]
  OBVIOUS
<1>4. c2 \in Call /\ c2.at = "lazydoc" /\ c2.id = c.id /\ c2.same = c.same
  BY <1>2, <1>3 DEF Call, Stages
<1>5. c.same = FALSE /\ c.id \in volatile
  BY <1>2 DEF CallOK, Call
<1>6. CallOK(c2, docs, volatile)
  BY <1>2, <1>4, <1>5, StageOK
<1> QED
  BY <1>1, <1>2, <1>3, <1>4, <1>5, <1>6

LEMMA DropIndexRowsFailsStep ==
    ASSUME DocInv, NEW p \in Procs, DropIndexRowsFails(p)
    PROVE  DocInv'
<1>1. PICK c : c = [call[p] EXCEPT !.at = "lazydoc"]
  OBVIOUS
<1>2. call[p].at = "lazyindex" /\ call' = [call EXCEPT ![p] = c]
  BY <1>1 DEF DropIndexRowsFails, DocInv, TypeOK
<1>3. CallOK(c, docs, volatile) /\ c.at = "lazydoc"
  BY <1>1, <1>2, LazyOK
<1> QED
  BY <1>2, <1>3, OnlyCallOK DEF DropIndexRowsFails

LEMMA TickStep ==
    ASSUME DocInv, Tick
    PROVE  DocInv'
<1>1. now' \in Nat
  BY DEF Tick, DocInv, TypeOK
<1>2. TypeOK'
  BY <1>1 DEF Tick, DocInv, TypeOK
<1>3. IndexSound' /\ ConfiguredComplete'
  BY DEF Tick, DocInv, IndexSound, ConfiguredComplete
<1>4. ASSUME NEW d \in Ids
      PROVE  EventsOK(d)'
  BY DEF Tick, DocInv, EventsOK
<1> QED
  BY <1>2, <1>3, <1>4 DEF Tick, DocInv

-----------------------------------------------------------------------------
(* The parts of a step that writes *)

(* The calls, when the row of d is another: they forgot, or its version    *)
(* moved on.                                                               *)
LEMMA CallsKept ==
    ASSUME DocInv, NEW p \in Procs, NEW d \in Ids, docs' \in [Ids -> Row],
           volatile \subseteq volatile', \A e \in Ids \ {d} : docs'[e] = docs[e],
           NEW next, next \in Call, next.same = FALSE, CallOK(next, docs', volatile'),
           \/ call' = Renewed([call EXCEPT ![p] = next], d)
           \/ call' = [call EXCEPT ![p] = next] /\ docs[d].ver < docs'[d].ver
    PROVE  /\ call' \in [Procs -> Call]
           /\ \A q \in Procs : CallOK(call'[q], docs', volatile')
           /\ \A q \in Procs \ {p} : \A e : Pending(call'[q], e) <=> Pending(call[q], e)
           /\ \A q \in Procs \ {p} : Told(call'[q]) = Told(call[q])
           /\ \A e : Pending(call'[p], e) <=> Pending(next, e)
           /\ Told(call'[p]) = Told(next)
<1>1. call \in [Procs -> Call] /\ docs \in [Ids -> Row]
  BY DEF DocInv, TypeOK
<1>t. docs[d].ver \in Nat /\ docs'[d].ver \in Nat
  BY <1>1, RowTypes
<1>2. PICK f : f = [call EXCEPT ![p] = next]
  OBVIOUS
<1>3. f \in [Procs -> Call] /\ f[p] = next /\ \A q \in Procs \ {p} : f[q] = call[q]
  BY <1>1, <1>2
<1>4. ASSUME NEW q \in Procs
      PROVE  /\ call'[q] = f[q] \/ call'[q] = [f[q] EXCEPT !.same = FALSE]
             /\ f[q].id = d => call'[q].same = FALSE \/ docs[d].ver < docs'[d].ver
  <2>1. CASE call' = f /\ docs[d].ver < docs'[d].ver
    BY <2>1
  <2>2. CASE call' = Renewed(f, d)
    <3>1. call'[q] = IF f[q].id = d THEN [f[q] EXCEPT !.same = FALSE] ELSE f[q]
      BY <2>2 DEF Renewed
    <3>2. f[q] \in Call
      BY <1>3
    <3> QED
      BY <3>1, <3>2 DEF Call
  <2> QED
    BY <1>2, <2>1, <2>2
<1>5. DOMAIN call' = Procs /\ call' = [q \in Procs |-> call'[q]]
  BY <1>2, <1>3 DEF Renewed
<1>6. /\ CallOK(call'[p], docs', volatile')
      /\ \A e : Pending(call'[p], e) <=> Pending(next, e)
      /\ Told(call'[p]) = Told(next)
  <2>1. call'[p] = next \/ call'[p] = [next EXCEPT !.same = FALSE]
    BY <1>3, <1>4
  <2>2. /\ call'[p] \in Call /\ call'[p].at = next.at /\ call'[p].id = next.id
        /\ call'[p].body = next.body /\ call'[p].row = next.row /\ call'[p].same = FALSE
    BY <2>1 DEF Call
  <2> QED
    BY <2>2 DEF CallOK, Pending, Told
<1>7. ASSUME NEW q \in Procs \ {p}
      PROVE  /\ CallOK(call'[q], docs', volatile')
             /\ \A e : Pending(call'[q], e) <=> Pending(call[q], e)
             /\ Told(call'[q]) = Told(call[q])
  <2>1. CallOK(call[q], docs, volatile) /\ f[q] = call[q]
    BY <1>3 DEF DocInv
  <2>2. PICK c2 : c2 = call'[q]
    OBVIOUS
  <2>3. /\ c2 = call[q] \/ c2 = [call[q] EXCEPT !.same = FALSE]
        /\ call[q].id = d => c2.same = FALSE \/ docs[d].ver < docs'[d].ver
    BY <1>4, <1>t, <2>1, <2>2
  <2>4. /\ CallOK(c2, docs', volatile')
        /\ \A e : Pending(c2, e) <=> Pending(call[q], e)
        /\ Told(c2) = Told(call[q])
    BY <1>1, <1>t, <2>1, <2>3, CallKept
  <2> QED
    BY <2>2, <2>4
<1>8. \A q \in Procs : CallOK(call'[q], docs', volatile')
  BY <1>6, <1>7
<1>9. call' \in [Procs -> Call]
  BY <1>5, <1>8 DEF CallOK
<1> QED
  BY <1>6, <1>7, <1>8, <1>9

(* The events, when p has committed a write of d. *)
LEMMA CommitEvents ==
    ASSUME DocInv, NEW p \in Procs, NEW d \in Ids, Crossing(p, d), seen' = seen,
           volatile \subseteq volatile', call[p].at \notin {"put", "deleted"},
           \A e \in Ids \ {d} : docs'[e] = docs[e],
           \A q \in Procs \ {p} : \A e : Pending(call'[q], e) <=> Pending(call[q], e),
           \A q \in Procs \ {p} : Told(call'[q]) = Told(call[q]),
           \A e : Pending(call'[p], e) => e = d,
           Pending(call'[p], d), Told(call'[p]) = Current(docs'[d])
    PROVE  \A e \in Ids : EventsOK(e)'
<1> SUFFICES ASSUME NEW e \in Ids
             PROVE  EventsOK(e)'
  OBVIOUS
<1>1. CASE e = d
  <2>1. d \in crossed' \/ \A q \in Procs \ {p} : ~Pending(call[q], d)
    BY DEF Crossing, Pending
  <2>2. d \in crossed' \/ \A q \in Procs \ {p} : ~Pending(call'[q], d)
    BY <2>1
  <2> QED
    BY <1>1, <2>2 DEF EventsOK
<1>2. CASE e # d
  <2>1. EventsOK(e) /\ (e \in crossed' <=> e \in crossed) /\ Current(docs'[e]) = Current(docs[e])
    BY <1>2 DEF Crossing, DocInv
  <2>2. ~Pending(call[p], e) /\ ~Pending(call'[p], e)
    BY <1>2 DEF Pending
  <2>3. \A q \in Procs : /\ Pending(call'[q], e) <=> Pending(call[q], e)
                         /\ Pending(call[q], e) => Told(call'[q]) = Told(call[q])
    BY <2>2
  <2> QED
    BY <2>1, <2>3, EventsKept
<1> QED
  BY <1>1, <1>2

LEMMA CrossedType ==
    ASSUME TypeOK, NEW p, NEW d \in Ids, Crossing(p, d)
    PROVE  crossed' \subseteq Ids
BY DEF TypeOK, Crossing

(* The index, when the rows of e are deleted. *)
LEMMA CutComplete ==
    ASSUME DocInv, NEW e \in Ids, index' = index \ RowsOf(e), asked' = asked,
           volatile \subseteq volatile', \A d \in Ids \ {e} : docs'[d] = docs[d],
           e \in volatile \/ ~Present(docs'[e])
    PROVE  ConfiguredComplete'
<1> SUFFICES ASSUME NEW d \in Ids, d \notin volatile', NEW f \in Fields, Present(docs'[d])
             PROVE  /\ <<"field", f>> \in asked /\ docs'[d].body[f] \in Scalars
                           => <<f, docs'[d].body[f], d>> \in index'
                    /\ <<"search", f>> \in asked /\ docs'[d].body[f] \in Texts
                           => docs'[d].body[f] \in docs'[d].text
  BY DEF ConfiguredComplete
<1>1. d # e /\ docs'[d] = docs[d]
  OBVIOUS
<1>2. /\ <<"field", f>> \in asked /\ docs[d].body[f] \in Scalars
             => <<f, docs[d].body[f], d>> \in index
      /\ <<"search", f>> \in asked /\ docs[d].body[f] \in Texts
             => docs[d].body[f] \in docs[d].text
  BY <1>1 DEF DocInv, ConfiguredComplete
<1>3. <<f, docs[d].body[f], d>> \notin RowsOf(e)
  BY <1>1 DEF RowsOf
<1> QED
  BY <1>1, <1>2, <1>3

LEMMA CutSound ==
    ASSUME DocInv, NEW d \in Ids, index' \subseteq index, config' = config,
           volatile \subseteq volatile', \A e \in Ids \ {d} : docs'[e] = docs[e],
           \/ \A row \in index' : row[3] # d
           \/ docs'[d] = docs[d]
           \/ ~Present(docs'[d]) /\ d \in volatile
    PROVE  IndexSound'
<1> SUFFICES ASSUME NEW row \in index'
             PROVE  /\ <<"field", row[1]>> \in config
                    /\ IF Present(docs'[row[3]]) THEN docs'[row[3]].body[row[1]] = row[2]
                                                 ELSE row[3] \in volatile'
  BY DEF IndexSound
<1>1. /\ <<"field", row[1]>> \in config
      /\ IF Present(docs[row[3]]) THEN docs[row[3]].body[row[1]] = row[2]
                                  ELSE row[3] \in volatile
  BY DEF DocInv, IndexSound
<1>2. row[3] \in Ids
  BY DEF DocInv, TypeOK
<1>3. CASE row[3] = d
  BY <1>1, <1>3
<1>4. CASE row[3] # d
  BY <1>1, <1>2, <1>4
<1> QED
  BY <1>3, <1>4

-----------------------------------------------------------------------------
(* The steps that write *)

LEMMA DropIndexRowsStep ==
    ASSUME DocInv, NEW p \in Procs, DropIndexRows(p)
    PROVE  DocInv'
<1>1. PICK c, d : c = [call[p] EXCEPT !.at = "lazydoc"] /\ d = call[p].id
  OBVIOUS
<1>2. /\ call[p].at = "lazyindex" /\ call' = [call EXCEPT ![p] = c] /\ index' = index \ RowsOf(d)
      /\ UNCHANGED <<docs, config, now, volatile, asked, seen, crossed>>
  BY <1>1 DEF DropIndexRows, DocInv, TypeOK
<1>3. c \in Call /\ CallOK(c, docs, volatile) /\ c.at = "lazydoc" /\ d \in Ids /\ d \in volatile
  BY <1>1, <1>2, LazyOK
<1>4. IndexSound'
  BY <1>2, <1>3, CutSound
<1>5. ConfiguredComplete'
  BY <1>2, <1>3, CutComplete
<1>6. TypeOK'
  BY <1>2, <1>3 DEF DocInv, TypeOK
<1>7. \A q \in Procs : call'[q] = IF q = p THEN c ELSE call[q]
  BY <1>2 DEF DocInv, TypeOK
<1>8. ASSUME NEW q \in Procs
      PROVE  CallOK(call'[q], docs', volatile')
  BY <1>2, <1>3, <1>7 DEF DocInv
<1>9. ASSUME NEW e \in Ids
      PROVE  EventsOK(e)'
  <2>1. EventsOK(e) /\ Current(docs'[e]) = Current(docs[e])
    BY <1>2 DEF DocInv
  <2>2. \A q \in Procs : /\ Pending(call'[q], e) <=> Pending(call[q], e)
                         /\ Pending(call[q], e) => Told(call'[q]) = Told(call[q])
    BY <1>2, <1>3, <1>7 DEF Pending
  <2> QED
    BY <1>2, <2>1, <2>2, EventsKept
<1> QED
  BY <1>2, <1>4, <1>5, <1>6, <1>8, <1>9 DEF DocInv

(* A document is removed: the row and the calls. *)
LEMMA DropDocFacts ==
    ASSUME DocInv, NEW p \in Procs, NEW d \in Ids, NEW next, DropDoc(p, d, next),
           volatile' = volatile
    PROVE  /\ docs' \in [Ids -> Row] /\ docs'[d] = NoRow
           /\ \A e \in Ids \ {d} : docs'[e] = docs[e]
           /\ call' = Renewed([call EXCEPT ![p] = next], d)
           /\ \A e \in Ids : docs'[e].exp # Null => e \in volatile
<1>1. docs \in [Ids -> Row] /\ docs' = [docs EXCEPT ![d] = NoRow]
  BY DEF DocInv, TypeOK, DropDoc
<1>2. /\ docs' \in [Ids -> Row] /\ docs'[d] = NoRow
      /\ \A e \in Ids \ {d} : docs'[e] = docs[e]
  BY <1>1, RowTypes
<1>3. ASSUME NEW e \in Ids, docs'[e].exp # Null
      PROVE  e \in volatile
  BY <1>2, <1>3, RowTypes DEF DocInv
<1> QED
  BY <1>2, <1>3 DEF DropDoc

LEMMA LazyDropStep ==
    ASSUME DocInv, NEW p \in Procs, LazyDrop(p)
    PROVE  DocInv'
<1>1. PICK d : d = call[p].id
  OBVIOUS
<1>2. /\ call[p].at = "lazydoc" /\ DropDoc(p, d, Idle)
      /\ UNCHANGED <<index, config, now, volatile, asked, seen, crossed>>
  BY <1>1 DEF LazyDrop
<1>3. d \in Ids /\ d \in volatile
  BY <1>1, <1>2, CallFacts DEF CallOK
<1>4. /\ docs' \in [Ids -> Row] /\ docs'[d] = NoRow
      /\ \A e \in Ids \ {d} : docs'[e] = docs[e]
      /\ call' = Renewed([call EXCEPT ![p] = Idle], d)
      /\ \A e \in Ids : docs'[e].exp # Null => e \in volatile
  BY <1>2, <1>3, DropDocFacts
<1>5. ~Present(docs'[d])
  BY <1>4, RowTypes
<1>6. /\ call' \in [Procs -> Call]
      /\ \A q \in Procs : CallOK(call'[q], docs', volatile')
      /\ \A q \in Procs \ {p} : \A e : Pending(call'[q], e) <=> Pending(call[q], e)
      /\ \A q \in Procs \ {p} : Told(call'[q]) = Told(call[q])
      /\ \A e : Pending(call'[p], e) <=> Pending(Idle, e)
  <2>1. CallOK(Idle, docs', volatile') /\ volatile \subseteq volatile'
    BY <1>2, IdleOK
  <2> QED
    BY <1>3, <1>4, <2>1, IdleTypes, CallsKept
<1>7. IndexSound'
  BY <1>2, <1>3, <1>4, <1>5, CutSound
<1>8. ConfiguredComplete'
  BY <1>2, <1>3, <1>4 DEF DocInv, ConfiguredComplete
<1>9. TypeOK'
  BY <1>2, <1>4, <1>6 DEF DocInv, TypeOK
<1>10. ASSUME NEW e \in Ids
       PROVE  EventsOK(e)'
  <2>1. EventsOK(e) /\ (e \in volatile \/ Current(docs'[e]) = Current(docs[e]))
    BY <1>3, <1>4 DEF DocInv
  <2>2. ~Pending(call[p], e) /\ ~Pending(call'[p], e)
    BY <1>2, <1>6, IdleTypes DEF Pending
  <2>3. \A q \in Procs : /\ Pending(call'[q], e) <=> Pending(call[q], e)
                         /\ Pending(call[q], e) => Told(call'[q]) = Told(call[q])
    BY <1>6, <2>2
  <2> QED
    BY <1>2, <2>1, <2>3, EventsKept
<1> QED
  BY <1>2, <1>4, <1>6, <1>7, <1>8, <1>9, <1>10 DEF DocInv

LEMMA DeleteDocStep ==
    ASSUME DocInv, NEW p \in Procs, NEW d \in Ids, DeleteDoc(p, d)
    PROVE  DocInv'
<1>1. PICK c : c = [Idle EXCEPT !.op = "delete", !.at = "deleted", !.id = d]
  OBVIOUS
<1>2. /\ call[p].at = "idle" /\ DropDoc(p, d, c) /\ index' = index \ RowsOf(d) /\ Crossing(p, d)
      /\ UNCHANGED <<config, now, volatile, asked, seen>>
  BY <1>1, IdleTypes DEF DeleteDoc
<1>3. c \in Call /\ c.at = "deleted" /\ c.id = d /\ c.same = FALSE
  BY <1>1, IdleTypes DEF Call, Stages
<1>4. /\ docs' \in [Ids -> Row] /\ docs'[d] = NoRow
      /\ \A e \in Ids \ {d} : docs'[e] = docs[e]
      /\ call' = Renewed([call EXCEPT ![p] = c], d)
      /\ \A e \in Ids : docs'[e].exp # Null => e \in volatile
  BY <1>2, DropDocFacts
<1>5. ~Present(docs'[d])
  BY <1>4, RowTypes
<1>6. /\ call' \in [Procs -> Call]
      /\ \A q \in Procs : CallOK(call'[q], docs', volatile')
      /\ \A q \in Procs \ {p} : \A e : Pending(call'[q], e) <=> Pending(call[q], e)
      /\ \A q \in Procs \ {p} : Told(call'[q]) = Told(call[q])
      /\ \A e : Pending(call'[p], e) <=> Pending(c, e)
      /\ Told(call'[p]) = Told(c)
  <2>1. CallOK(c, docs', volatile') /\ volatile \subseteq volatile'
    BY <1>2, <1>3, StageOK
  <2>2. c \in Call /\ c.same = FALSE
    BY <1>3
  <2> QED
    BY <1>4, <2>1, <2>2, CallsKept
<1>7. IndexSound'
  <2>1. \A row \in index' : row[3] # d
    BY <1>2 DEF RowsOf
  <2> QED
    BY <1>2, <1>4, <2>1, CutSound
<1>8. ConfiguredComplete'
  BY <1>2, <1>4, <1>5, CutComplete
<1>9. TypeOK'
  <2>1. crossed' \subseteq Ids
    BY <1>2, CrossedType DEF DocInv
  <2> QED
    BY <1>2, <1>4, <1>6, <2>1 DEF DocInv, TypeOK
<1>10. \A e \in Ids : EventsOK(e)'
  <2>1. /\ \A e : Pending(call'[p], e) => e = d
        /\ Pending(call'[p], d) /\ Told(call'[p]) = Current(docs'[d])
    BY <1>3, <1>5, <1>6 DEF Pending, Told, Current
  <2> QED
    BY <1>2, <1>4, <1>6, <2>1, CommitEvents
<1> QED
  BY <1>2, <1>4, <1>6, <1>7, <1>8, <1>9, <1>10 DEF DocInv

LEMMA DeleteMissingStep ==
    ASSUME DocInv, NEW d \in Ids, DeleteMissing(d)
    PROVE  DocInv'
<1>1. /\ ~Present(docs[d]) /\ index' = index \ RowsOf(d)
      /\ UNCHANGED <<docs, config, now, call, volatile, asked, seen, crossed>>
  BY DEF DeleteMissing
<1>2. IndexSound'
  BY <1>1, CutSound
<1>3. ConfiguredComplete'
  BY <1>1, CutComplete
<1>4. TypeOK'
  BY <1>1 DEF DocInv, TypeOK
<1>5. ASSUME NEW e \in Ids
      PROVE  EventsOK(e)'
  BY <1>1 DEF DocInv, EventsOK
<1> QED
  BY <1>1, <1>2, <1>3, <1>4, <1>5 DEF DocInv

LEMMA PublishStep ==
    ASSUME DocInv, NEW p \in Procs, Publish(p)
    PROVE  DocInv'
<1>1. PICK c, d : c = call[p] /\ d = c.id
  OBVIOUS
<1>2. c \in Call /\ d \in Ids /\ c.at \in {"put", "deleted"}
  BY <1>1, CallFacts DEF Publish
<1>3. /\ seen' = [seen EXCEPT ![d] = Told(c)] /\ call' = [call EXCEPT ![p] = Idle]
      /\ UNCHANGED <<docs, index, config, now, volatile, asked, crossed>>
  BY <1>1 DEF Publish, Told
<1>4. Told(c) \in Body \cup {NoDoc}
  BY <1>2 DEF Told, Call
<1>5. TypeOK'
  BY <1>2, <1>3, <1>4, IdleTypes DEF DocInv, TypeOK
<1>6. \A q \in Procs : call'[q] = IF q = p THEN Idle ELSE call[q]
  BY <1>3 DEF DocInv, TypeOK
<1>7. ASSUME NEW q \in Procs
      PROVE  CallOK(call'[q], docs', volatile')
  BY <1>3, <1>6, IdleOK DEF DocInv
<1>8. \A e \in Ids : seen'[e] = IF e = d THEN Told(c) ELSE seen[e]
  BY <1>3 DEF DocInv, TypeOK
<1>9. ASSUME NEW e \in Ids
      PROVE  EventsOK(e)'
  <2>1. EventsOK(e)
    BY DEF DocInv
  <2>2. ~Pending(call'[p], e) /\ \A q \in Procs \ {p} : call'[q] = call[q]
    BY <1>6, IdleTypes DEF Pending
  <2>3. CASE e = d
    <3>1. Pending(call[p], e)
      BY <1>1, <1>2, <2>3 DEF Pending
    <3>2. e \notin volatile \cup crossed => \A q \in Procs : ~Pending(call'[q], e)
      BY <2>1, <2>2, <3>1 DEF EventsOK
    <3>3. e \notin volatile \cup crossed => seen'[e] = Current(docs[e])
      BY <1>1, <1>8, <2>1, <2>3, <3>1 DEF EventsOK
    <3> QED
      BY <1>3, <3>2, <3>3 DEF EventsOK
  <2>4. CASE e # d
    <3>1. ~Pending(call[p], e) /\ seen'[e] = seen[e]
      BY <1>1, <1>8, <2>4 DEF Pending
    <3>2. \A q \in Procs : /\ Pending(call'[q], e) <=> Pending(call[q], e)
                           /\ Pending(call[q], e) => Told(call'[q]) = Told(call[q])
      BY <2>2, <3>1
    <3> QED
      BY <1>3, <2>1, <3>1, <3>2 DEF EventsOK
  <2> QED
    BY <2>3, <2>4
<1>10. IndexSound' /\ ConfiguredComplete'
  BY <1>3 DEF DocInv, IndexSound, ConfiguredComplete
<1> QED
  BY <1>3, <1>5, <1>7, <1>9, <1>10 DEF DocInv

LEMMA ConfigureIndexesStep ==
    ASSUME DocInv, NEW cfg \in SUBSET Config, ConfigureIndexes(cfg)
    PROVE  DocInv'
<1>1. PICK live : live = {d \in Ids : Live(docs[d])}
  OBVIOUS
<1>2. /\ config' = cfg /\ asked' = cfg
      /\ index' = UNION {IndexRows(d, docs[d].body, cfg) : d \in live}
      /\ docs' = [d \in Ids |-> IF d \in live
                                THEN [docs[d] EXCEPT !.text = SearchText(docs[d].body, cfg)]
                                ELSE docs[d]]
      /\ UNCHANGED <<now, call, volatile, seen, crossed>>
  BY <1>1 DEF ConfigureIndexes
<1>3. docs \in [Ids -> Row] /\ \A d \in Ids : docs[d].body \in Body
  BY RowTypes DEF DocInv, TypeOK
<1>4. ASSUME NEW d \in Ids
      PROVE  /\ docs'[d] \in Row /\ docs'[d].ver = docs[d].ver /\ docs'[d].body = docs[d].body
             /\ docs'[d].exp = docs[d].exp
             /\ d \in live => docs'[d].text = SearchText(docs[d].body, cfg)
  <2>1. SearchText(docs[d].body, cfg) \in SUBSET Texts
    BY <1>3, SearchTextFacts
  <2>2. docs'[d] = IF d \in live THEN [docs[d] EXCEPT !.text = SearchText(docs[d].body, cfg)]
                                ELSE docs[d]
    BY <1>2
  <2>3. docs[d] \in Row
    BY <1>3
  <2> QED
    BY <2>1, <2>2, <2>3 DEF Row
<1>5. docs' \in [Ids -> Row]
  <2>1. DOMAIN docs' = Ids /\ docs' = [d \in Ids |-> docs'[d]]
    BY <1>2
  <2> QED
    BY <1>4, <2>1
<1>6. ASSUME NEW row \in index'
      PROVE  \E d \in live : /\ row \in Fields \X Scalars \X Ids /\ row[3] = d
                             /\ <<"field", row[1]>> \in cfg /\ docs[d].body[row[1]] = row[2]
  <2>1. PICK d \in live : row \in IndexRows(d, docs[d].body, cfg)
    BY <1>2
  <2> QED
    BY <1>1, <1>3, <2>1, IndexRowsFacts
<1>7. TypeOK'
  <2>1. index' \subseteq Fields \X Scalars \X Ids
    BY <1>6
  <2> QED
    BY <1>2, <1>5, <2>1 DEF DocInv, TypeOK
<1>8. IndexSound'
  <2> SUFFICES ASSUME NEW row \in index'
               PROVE  /\ <<"field", row[1]>> \in cfg
                      /\ Present(docs'[row[3]]) /\ docs'[row[3]].body[row[1]] = row[2]
    BY <1>2 DEF IndexSound
  <2>1. PICK d \in live : /\ row[3] = d
                          /\ <<"field", row[1]>> \in cfg /\ docs[d].body[row[1]] = row[2]
    BY <1>6
  <2>2. Present(docs'[d])
    BY <1>1, <1>4, <2>1 DEF Live, Present
  <2> QED
    BY <1>1, <1>4, <2>1, <2>2
<1>9. ConfiguredComplete'
  <2> SUFFICES ASSUME NEW d \in Ids, d \notin volatile, NEW f \in Fields, Present(docs'[d])
               PROVE  /\ <<"field", f>> \in cfg /\ docs'[d].body[f] \in Scalars
                             => <<f, docs'[d].body[f], d>> \in index'
                      /\ <<"search", f>> \in cfg /\ docs'[d].body[f] \in Texts
                             => docs'[d].body[f] \in docs'[d].text
    BY <1>2 DEF ConfiguredComplete
  <2>1. d \in live
    <3>1. docs[d].exp = Null /\ Present(docs[d])
      BY <1>4 DEF DocInv, Present
    <3> QED
      BY <1>1, <3>1 DEF Live, Expired
  <2>2. IndexRows(d, docs[d].body, cfg) \subseteq index'
    BY <1>2, <2>1
  <2>3. <<"field", f>> \in cfg /\ docs[d].body[f] \in Scalars
            => <<f, docs[d].body[f], d>> \in IndexRows(d, docs[d].body, cfg)
    BY <1>3, IndexRowsFacts
  <2>4. <<"search", f>> \in cfg /\ docs[d].body[f] \in Texts
            => docs[d].body[f] \in SearchText(docs[d].body, cfg)
    BY <1>3, SearchTextFacts
  <2> QED
    BY <1>4, <2>1, <2>2, <2>3, <2>4
<1>10. ASSUME NEW p \in Procs
       PROVE  CallOK(call'[p], docs', volatile')
  <2>1. CallOK(call[p], docs, volatile)
    BY DEF DocInv
  <2>2. call[p].same => /\ docs'[call[p].id].ver = docs[call[p].id].ver
                        /\ docs'[call[p].id].body = docs[call[p].id].body
    BY <1>4, <2>1 DEF CallOK
  <2> QED
    BY <1>2, <2>1, <2>2 DEF CallOK
<1>11. ASSUME NEW d \in Ids
       PROVE  EventsOK(d)' /\ (docs'[d].exp # Null => d \in volatile')
  <2>1. EventsOK(d) /\ (docs[d].exp # Null => d \in volatile)
    BY DEF DocInv
  <2>2. Current(docs'[d]) = Current(docs[d])
    BY <1>4 DEF Current, Present
  <2>3. EventsOK(d)'
    BY <1>2, <2>1, <2>2 DEF EventsOK
  <2> QED
    BY <1>2, <1>4, <2>1, <2>3
<1> QED
  BY <1>2, <1>7, <1>8, <1>9, <1>10, <1>11 DEF DocInv

(* PutDoc, for any handler that has nothing to publish yet. *)
LEMMA PutDocStep ==
    ASSUME DocInv, NEW p \in Procs, NEW d \in Ids, NEW body \in Body,
           NEW opts \in [fields : SUBSET Config, ttl : Nat],
           call[p].at \notin {"put", "deleted"}, PutDoc(p, d, body, opts)
    PROVE  DocInv'
<1>1. PICK cfg : cfg = config \cup opts.fields
  OBVIOUS
<1>2. PICK v : v = NewVersion(docs[d])
  OBVIOUS
<1>3. PICK exp : exp = NewExpiry(docs[d], opts.ttl)
  OBVIOUS
<1>4. PICK row : row = [ver |-> v, body |-> body, text |-> SearchText(body, cfg), exp |-> exp]
  OBVIOUS
<1>5. PICK put : put = [Idle EXCEPT !.op = "put", !.at = "put", !.id = d, !.body = body]
  OBVIOUS
<1>6. /\ docs' = [docs EXCEPT ![d] = row]
      /\ index' = (index \ RowsOf(d)) \cup IndexRows(d, body, cfg)
      /\ config' = cfg
      /\ call' = IF Live(docs[d]) THEN [call EXCEPT ![p] = put]
                                  ELSE Renewed([call EXCEPT ![p] = put], d)
      /\ volatile' = IF exp # Null THEN volatile \cup {d} ELSE volatile
      /\ Crossing(p, d) /\ UNCHANGED <<now, asked, seen>>
  BY <1>1, <1>2, <1>3, <1>4, <1>5 DEF PutDoc, Merged, Reindexed
<1>7. /\ TypeOK /\ docs \in [Ids -> Row] /\ docs[d] \in Row /\ docs[d].ver \in Nat
      /\ docs[d].exp \in Nat /\ now \in Nat /\ opts.ttl \in Nat /\ opts.fields \in SUBSET Config
      /\ config \in SUBSET Config /\ volatile \subseteq Ids /\ asked \subseteq config
  BY RowTypes DEF DocInv, TypeOK
<1>8. v \in Nat /\ v > 0 /\ (Live(docs[d]) => docs[d].ver < v)
  BY <1>2, <1>7 DEF NewVersion
<1>9. exp \in Nat
  BY <1>3, <1>7 DEF NewExpiry, Null
<1>10. row \in Row /\ row.ver = v /\ row.body = body /\ row.exp = exp
       /\ row.text = SearchText(body, cfg) /\ Present(row)
  <2>1. SearchText(body, cfg) \in SUBSET Texts
    BY SearchTextFacts
  <2>2. row \in Row
    BY <1>4, <1>8, <1>9, <2>1, RowTypes
  <2> QED
    BY <1>4, <1>8, <2>2 DEF Present
<1>11. /\ docs' \in [Ids -> Row] /\ docs'[d] = row /\ \A e \in Ids \ {d} : docs'[e] = docs[e]
  BY <1>6, <1>7, <1>10
<1>12. /\ volatile \subseteq volatile' /\ volatile' \subseteq Ids /\ (exp # Null => d \in volatile')
       /\ cfg \in SUBSET Config /\ asked' \subseteq config'
  BY <1>1, <1>6, <1>7
<1>13. put \in Call /\ put.at = "put" /\ put.id = d /\ put.body = body /\ put.same = FALSE
  BY <1>5, IdleTypes DEF Call, Stages
<1>14. CallOK(put, docs', volatile')
  BY <1>13, StageOK
<1>15. /\ call' \in [Procs -> Call]
       /\ \A q \in Procs : CallOK(call'[q], docs', volatile')
       /\ \A q \in Procs \ {p} : \A e : Pending(call'[q], e) <=> Pending(call[q], e)
       /\ \A q \in Procs \ {p} : Told(call'[q]) = Told(call[q])
       /\ \A e : Pending(call'[p], e) <=> Pending(put, e)
       /\ Told(call'[p]) = Told(put)
  <2>1. put \in Call /\ put.same = FALSE
    BY <1>13
  <2>2. docs' \in [Ids -> Row] /\ volatile \subseteq volatile' /\ \A e \in Ids \ {d} : docs'[e] = docs[e]
    BY <1>11, <1>12
  <2>3. \/ call' = Renewed([call EXCEPT ![p] = put], d)
        \/ call' = [call EXCEPT ![p] = put] /\ docs[d].ver < docs'[d].ver
    BY <1>6, <1>7, <1>8, <1>10, <1>11
  <2> QED
    BY <1>14, <2>1, <2>2, <2>3, CallsKept
<1>16. /\ IndexRows(d, body, cfg) \subseteq Fields \X Scalars \X Ids
       /\ \A r \in IndexRows(d, body, cfg) :
             r[3] = d /\ <<"field", r[1]>> \in cfg /\ body[r[1]] = r[2]
       /\ \A f \in Fields : <<"field", f>> \in cfg /\ body[f] \in Scalars
             => <<f, body[f], d>> \in IndexRows(d, body, cfg)
  BY IndexRowsFacts
<1>17. TypeOK'
  <2>1. crossed' \subseteq Ids
    BY <1>6, <1>7, CrossedType
  <2>2. index' \subseteq Fields \X Scalars \X Ids
    BY <1>6, <1>16 DEF DocInv, TypeOK
  <2> QED
    BY <1>6, <1>7, <1>11, <1>12, <1>15, <2>1, <2>2 DEF TypeOK
<1>18. IndexSound'
  <2> SUFFICES ASSUME NEW r \in index'
               PROVE  /\ <<"field", r[1]>> \in config'
                      /\ IF Present(docs'[r[3]]) THEN docs'[r[3]].body[r[1]] = r[2]
                                                 ELSE r[3] \in volatile'
    BY DEF IndexSound
  <2>1. CASE r \in IndexRows(d, body, cfg)
    BY <1>6, <1>10, <1>11, <1>16, <2>1
  <2>2. CASE r \in index /\ r[3] # d
    <3>1. r[3] \in Ids
      BY <2>2 DEF DocInv, TypeOK
    <3>2. /\ <<"field", r[1]>> \in config
          /\ IF Present(docs[r[3]]) THEN docs[r[3]].body[r[1]] = r[2] ELSE r[3] \in volatile
      BY <2>2 DEF DocInv, IndexSound
    <3> QED
      BY <1>1, <1>6, <1>11, <1>12, <2>2, <3>1, <3>2
  <2> QED
    BY <1>6, <2>1, <2>2 DEF RowsOf
<1>19. ConfiguredComplete'
  <2> SUFFICES ASSUME NEW e \in Ids, e \notin volatile', NEW f \in Fields, Present(docs'[e])
               PROVE  /\ <<"field", f>> \in asked /\ docs'[e].body[f] \in Scalars
                             => <<f, docs'[e].body[f], e>> \in index'
                      /\ <<"search", f>> \in asked /\ docs'[e].body[f] \in Texts
                             => docs'[e].body[f] \in docs'[e].text
    BY <1>6 DEF ConfiguredComplete
  <2>1. CASE e = d
    <3>1. <<"search", f>> \in cfg /\ body[f] \in Texts => body[f] \in SearchText(body, cfg)
      BY SearchTextFacts
    <3> QED
      BY <1>1, <1>6, <1>7, <1>10, <1>11, <1>16, <2>1, <3>1
  <2>2. CASE e # d
    <3>1. docs'[e] = docs[e] /\ e \notin volatile
      BY <1>11, <1>12, <2>2
    <3>2. /\ <<"field", f>> \in asked /\ docs[e].body[f] \in Scalars
                 => <<f, docs[e].body[f], e>> \in index
          /\ <<"search", f>> \in asked /\ docs[e].body[f] \in Texts
                 => docs[e].body[f] \in docs[e].text
      BY <3>1 DEF DocInv, ConfiguredComplete
    <3>3. <<f, docs[e].body[f], e>> \notin RowsOf(d)
      BY <2>2 DEF RowsOf
    <3> QED
      BY <1>6, <3>1, <3>2, <3>3
  <2> QED
    BY <2>1, <2>2
<1>20. \A e \in Ids : EventsOK(e)'
  <2>1. /\ \A e : Pending(call'[p], e) => e = d
        /\ Pending(call'[p], d) /\ Told(call'[p]) = Current(docs'[d])
    BY <1>10, <1>11, <1>13, <1>15 DEF Pending, Told, Current
  <2> QED
    BY <1>6, <1>11, <1>12, <1>15, <2>1, CommitEvents
<1>21. ASSUME NEW e \in Ids, docs'[e].exp # Null
       PROVE  e \in volatile'
  <2>1. CASE e = d
    BY <1>10, <1>11, <1>12, <1>21, <2>1
  <2>2. CASE e # d
    BY <1>11, <1>12, <1>21, <2>2 DEF DocInv
  <2> QED
    BY <2>1, <2>2
<1> QED
  BY <1>12, <1>15, <1>17, <1>18, <1>19, <1>20, <1>21 DEF DocInv

LEMMA WriteStep ==
    ASSUME DocInv, NEW p \in Procs, Write(p)
    PROVE  DocInv'
<1>1. PICK d \in Ids, body \in Bodies, opts \in WriteOpts :
          \/ Insert(p, d, body, opts)
          \/ Upsert(p, d, body, opts)
          \/ Begin(p, "patch", d, body, opts)
  BY DEF Write
<1>2. body \in Body /\ opts \in [fields : SUBSET Config, ttl : Nat]
  BY DocAssumption
<1>3. CASE Insert(p, d, body, opts) \/ Upsert(p, d, body, opts)
  <2>1. call[p].at = "idle" /\ PutDoc(p, d, body, opts)
    BY <1>3, IdleTypes DEF Insert, Upsert
  <2> QED
    BY <1>2, <2>1, PutDocStep
<1>4. CASE Begin(p, "patch", d, body, opts)
  BY <1>2, <1>4, BeginStep
<1> QED
  BY <1>1, <1>3, <1>4

LEMMA PatchWriteStep ==
    ASSUME DocInv, NEW p \in Procs, PatchWrite(p)
    PROVE  DocInv'
<1>1. PICK c : c = call[p]
  OBVIOUS
<1>2. c \in Call /\ c.id \in Ids /\ c.at = "write"
  BY <1>1, CallFacts DEF PatchWrite
<1>3. /\ c.row.body \in Body /\ c.body \in Body /\ c.opts \in [fields : SUBSET Config, ttl : Nat]
  BY <1>2, RowTypes DEF Call
<1>4. PICK body : body = Patched(c.row.body, c.body)
  OBVIOUS
<1>5. body \in Body /\ PutDoc(p, c.id, body, c.opts) /\ call[p].at = "write"
  BY <1>1, <1>2, <1>3, <1>4, PatchedType DEF PatchWrite
<1> QED
  BY <1>2, <1>3, <1>5, PutDocStep

-----------------------------------------------------------------------------
(* The theorems *)

(* The tables and the events start empty, and every request of the API,    *)
(* every statement of a lazy deletion and every event keeps the invariant, *)
(* whatever the other requests do in between.                              *)
THEOREM DocInvariant == Spec => []DocInv
<1>1. Init => DocInv
  <2> SUFFICES ASSUME Init
               PROVE  DocInv
    OBVIOUS
  <2>1. TypeOK
    BY RowTypes, IdleTypes DEF Init, TypeOK
  <2>2. \A d \in Ids : docs[d] = NoRow /\ docs[d].exp = Null /\ ~Present(docs[d])
    BY RowTypes DEF Init
  <2>3. IndexSound /\ ConfiguredComplete
    BY <2>2 DEF Init, IndexSound, ConfiguredComplete
  <2>4. \A p \in Procs : call[p] = Idle /\ CallOK(call[p], docs, volatile)
    BY IdleOK DEF Init
  <2>5. ASSUME NEW d \in Ids
        PROVE  EventsOK(d)
    BY <2>2, <2>4, IdleTypes DEF Init, EventsOK, Pending, Current
  <2> QED
    BY <2>1, <2>2, <2>3, <2>4, <2>5 DEF Init, DocInv
<1>2. DocInv /\ [Next]_vars => DocInv'
  <2> SUFFICES ASSUME DocInv, [Next]_vars
               PROVE  DocInv'
    OBVIOUS
  <2>1. CASE Tick
    BY <2>1, TickStep
  <2>2. CASE \E cfg \in Configs : ConfigureIndexes(cfg)
    BY <2>2, ConfigureIndexesStep, DocAssumption
  <2>3. CASE \E d \in Ids : DeleteMissing(d)
    BY <2>3, DeleteMissingStep
  <2>4. ASSUME NEW p \in Procs, NEW d \in Ids, Begin(p, "get", d, Empty, NoOpts) \/ DeleteDoc(p, d)
        PROVE  DocInv'
    BY <2>4, BeginStep, DeleteDocStep, RowTypes, IdleTypes
  <2>5. ASSUME NEW p \in Procs,
               \/ Write(p) \/ Select(p) \/ Judge(p) \/ DropIndexRows(p) \/ DropIndexRowsFails(p)
               \/ LazyDrop(p) \/ PatchWrite(p) \/ Publish(p) \/ Fail(p)
        PROVE  DocInv'
    BY <2>5, WriteStep, SelectStep, JudgeStep, DropIndexRowsStep, DropIndexRowsFailsStep,
       LazyDropStep, PatchWriteStep, PublishStep, FailStep
  <2>6. CASE UNCHANGED vars
    <3>1. TypeOK' /\ IndexSound' /\ ConfiguredComplete'
      BY <2>6 DEF vars, DocInv, TypeOK, IndexSound, ConfiguredComplete
    <3>2. ASSUME NEW d \in Ids
          PROVE  EventsOK(d)'
      BY <2>6 DEF vars, DocInv, EventsOK
    <3> QED
      BY <2>6, <3>1, <3>2 DEF vars, DocInv
  <2> QED
    BY <2>1, <2>2, <2>3, <2>4, <2>5, <2>6 DEF Next
<1> QED
  BY <1>1, <1>2, PTL DEF Spec

(* The tables, requests and histories keep their types. *)
THEOREM DocTypeCorrect == Spec => []TypeOK
<1>1. DocInv => TypeOK
  BY DEF DocInv
<1> QED
  BY <1>1, DocInvariant, PTL

(* PutDoc, ConfigureIndexes and the deletions leave no index row that      *)
(* names a value its document does not have.                               *)
THEOREM DocIndexSound == Spec => []IndexSound
<1>1. DocInv => IndexSound
  BY DEF DocInv
<1> QED
  BY <1>1, DocInvariant, PTL

(* ConfigureIndexes and the writes after it index every document without   *)
(* an expiry time by every field that was asked for.                       *)
THEOREM DocConfiguredComplete == Spec => []ConfiguredComplete
<1>1. DocInv => ConfiguredComplete
  BY DEF DocInv
<1> QED
  BY <1>1, DocInvariant, PTL

(* Between the GetDoc and the PutDoc of a PATCH the version that was read  *)
(* stands for the body that was read, in one life of the document.         *)
THEOREM DocVersionNamesContent == Spec => []VersionNamesContent
<1>1. DocInv => VersionNamesContent
  BY DEF DocInv, CallOK, VersionNamesContent
<1> QED
  BY <1>1, DocInvariant, PTL

(* Handlers publish after they commit: once all have, the last event of an *)
(* id whose writers did not cross is its document.                         *)
THEOREM DocLastEventCurrent == Spec => []LastEventCurrent
<1>1. DocInv => LastEventCurrent
  <2> SUFFICES ASSUME DocInv, NEW d \in Ids, d \notin volatile \cup crossed,
                      \A p \in Procs : call[p].id = d => call[p].at \notin {"put", "deleted"}
               PROVE  seen[d] = IF Present(docs[d]) THEN docs[d].body ELSE NoDoc
    BY DEF LastEventCurrent
  <2>1. EventsOK(d) /\ \A q \in Procs : ~Pending(call[q], d)
    BY DEF DocInv, Pending
  <2> QED
    BY <2>1 DEF EventsOK, Current
<1> QED
  BY <1>1, DocInvariant, PTL
=============================================================================
