------------------------------ MODULE DocStore ------------------------------
(***************************************************************************)
(* One collection of documents: the tables of the SQL store (PutDoc,       *)
(* GetDoc, DeleteDoc, ConfigureIndexes of internal/store/sqlstore) under   *)
(* the handlers of the document API, over HTTP and over WebSocket          *)
(* (internal/docapi/server.go).                                            *)
(*                                                                         *)
(* PutDoc, DeleteDoc and ConfigureIndexes are transactions and take one    *)
(* step each. GetDoc is not: when it finds an expired row it deletes the   *)
(* index rows and then the document, by name, in statements of their own.  *)
(* PATCH is GetDoc and then PutDoc, and every handler publishes its event  *)
(* after its transaction: other requests may come in between.              *)
(***************************************************************************)
EXTENDS Naturals

CONSTANTS
    Ids,            \* document ids of the collection
    Fields,         \* top-level fields of documents
    Values,         \* values of fields, told apart by their text
    Scalars,        \* the values that are strings, numbers, booleans or null
    Texts,          \* the values that are non-empty strings
    Missing,        \* marks a field a document does not have
    NoDoc,          \* marks the event of a deleted document
    Bodies,         \* documents that clients send, and patches
    Configs,        \* index configurations that clients send
    WriteOpts,      \* options of writes: fields to index, and a ttl, 0 for none
    Procs,          \* requests in progress
    MaxTime,        \* bound on the clock
    MaxVersion      \* bound on the version column

Body == [Fields -> Values \cup {Missing}]
Config == {"field", "search"} \X Fields

ASSUME DocAssumption ==
    /\ Texts \subseteq Scalars /\ Scalars \subseteq Values
    /\ Missing \notin Values
    /\ NoDoc \notin Body
    /\ Bodies \subseteq Body
    /\ Configs \subseteq SUBSET Config
    /\ WriteOpts \subseteq [fields : SUBSET Config, ttl : Nat]
    /\ MaxTime \in Nat /\ MaxVersion \in Nat

VARIABLES
    docs,       \* redge_docs
    index,      \* redge_doc_indexes: field, value and id
    config,     \* redge_doc_index_config: kind and field
    now,        \* time.Now()
    call,       \* the request each process serves
    volatile,   \* history: ids that have had an expiry time
    asked,      \* history: the configuration of the last ConfigureIndexes
    seen,       \* history: the document of the last event about each id
    crossed     \* history: ids with a write between another's write and its event

vars == <<docs, index, config, now, call, volatile, asked, seen, crossed>>

-----------------------------------------------------------------------------
(* Documents and what the store derives from them *)

Null == 0                                   \* expires_at IS NULL
Empty == [f \in Fields |-> Missing]
NoRow == [ver |-> 0, body |-> Empty, text |-> {}, exp |-> Null]
Present(row) == row.ver > 0
Expired(row) == row.exp # Null /\ row.exp <= now
Live(row) == Present(row) /\ ~Expired(row)

(* buildDocIndexes. Mutant: objects and arrays are indexed as well. *)
IndexRowsOfAll(d, body, cfg) ==
    {<<f, body[f], d>> : f \in {g \in Fields : <<"field", g>> \in cfg /\ body[g] # Missing}}
IndexRows(d, body, cfg) ==
    {<<f, body[f], d>> : f \in {g \in Fields : <<"field", g>> \in cfg /\ body[g] \in Scalars}}
SearchText(body, cfg) ==
    {body[f] : f \in {g \in Fields : <<"search", g>> \in cfg /\ body[g] \in Texts}}

RowsOf(d) == {row \in index : row[3] = d}

(* The shallow merge of PATCH. *)
Patched(base, patch) == [f \in Fields |-> IF patch[f] = Missing THEN base[f] ELSE patch[f]]

(* mergeDocIndexConfigTx. Mutant: the fields of the write take the place   *)
(* of those configured.                                                    *)
MergedReplaces(fields) == IF fields = {} THEN config ELSE fields
Merged(fields) == config \cup fields

-----------------------------------------------------------------------------
(* Requests *)

NoOpts == [fields |-> {}, ttl |-> 0]
Idle == [op |-> "none", at |-> "idle", id |-> NoDoc, body |-> Empty, opts |-> NoOpts,
         row |-> NoRow, same |-> FALSE]

(* A write of d commits while another request has yet to publish its own. *)
Crossing(p, d) ==
    crossed' = IF \E q \in Procs \ {p} : call[q].at \in {"put", "deleted"} /\ call[q].id = d
               THEN crossed \cup {d} ELSE crossed \ {d}

(* The requests that read d before it was created or removed. *)
Renewed(calls, d) ==
    [q \in Procs |-> IF calls[q].id = d THEN [calls[q] EXCEPT !.same = FALSE] ELSE calls[q]]

(* The version and the expiry time that PutDoc writes. *)
NewVersionSame(row) == IF Live(row) THEN row.ver ELSE 1     \* mutant: not incremented
NewVersion(row) == IF Live(row) THEN row.ver + 1 ELSE 1
NewExpiry(row, ttl) ==
    IF ttl > 0 THEN now + ttl ELSE IF Live(row) THEN row.exp ELSE Null

(* The rows of the index after a write of d. Mutant: the old ones stay. *)
ReindexedKeeping(d, body, cfg) == index \cup IndexRows(d, body, cfg)
Reindexed(d, body, cfg) == (index \ RowsOf(d)) \cup IndexRows(d, body, cfg)

(* PutDoc without a conflict; an expired row is deleted first. The handler *)
(* has yet to publish.                                                     *)
PutDoc(p, d, body, opts) ==
    LET row == docs[d]
        cfg == Merged(opts.fields)
        exp == NewExpiry(row, opts.ttl)
        put == [call EXCEPT ![p] = [Idle EXCEPT !.op = "put", !.at = "put", !.id = d,
                                                !.body = body]]
    IN  /\ NewVersion(row) <= MaxVersion
        /\ docs' = [docs EXCEPT ![d] = [ver |-> NewVersion(row), body |-> body,
                                        text |-> SearchText(body, cfg), exp |-> exp]]
        /\ index' = Reindexed(d, body, cfg)
        /\ config' = cfg
        /\ call' = IF Live(row) THEN put ELSE Renewed(put, d)
        /\ volatile' = IF exp # Null THEN volatile \cup {d} ELSE volatile
        /\ Crossing(p, d)
        /\ UNCHANGED <<now, asked, seen>>

(* POST and op insert; on a conflict the transaction is rolled back, the   *)
(* fields it added to the configuration included.                          *)
Insert(p, d, body, opts) ==
    /\ call[p] = Idle
    /\ ~Live(docs[d])
    /\ PutDoc(p, d, body, opts)

(* PUT and op upsert. *)
Upsert(p, d, body, opts) ==
    /\ call[p] = Idle
    /\ PutDoc(p, d, body, opts)

(* GET and PATCH begin with GetDoc. *)
Begin(p, op, d, body, opts) ==
    /\ call[p] = Idle
    /\ call' = [call EXCEPT ![p] = [op |-> op, at |-> "select", id |-> d, body |-> body,
                                    opts |-> opts, row |-> NoRow, same |-> FALSE]]
    /\ UNCHANGED <<docs, index, config, now, volatile, asked, seen, crossed>>

Select(p) ==
    /\ call[p].at = "select"
    /\ call' = [call EXCEPT ![p].at = "judge", ![p].row = docs[call[p].id],
                                 ![p].same = call[p].op = "patch"]
    /\ UNCHANGED <<docs, index, config, now, volatile, asked, seen, crossed>>

(* The comparison with the clock; a GET returns here. *)
Judge(p) ==
    LET c == call[p]
    IN  /\ c.at = "judge"
        /\ call' = [call EXCEPT ![p] =
                      IF Present(c.row) /\ Expired(c.row) THEN [Idle EXCEPT !.at = "lazyindex", !.id = c.id]
                      ELSE IF Present(c.row) /\ c.op = "patch" THEN [c EXCEPT !.at = "write"]
                      ELSE Idle]
        /\ UNCHANGED <<docs, index, config, now, volatile, asked, seen, crossed>>

(* The lazy deletion: the index rows, then the document. *)
DropIndexRows(p) ==
    /\ call[p].at = "lazyindex"
    /\ index' = index \ RowsOf(call[p].id)
    /\ call' = [call EXCEPT ![p].at = "lazydoc"]
    /\ UNCHANGED <<docs, config, now, volatile, asked, seen, crossed>>

(* Remove the document; the request goes on as next. *)
DropDoc(p, d, next) ==
    /\ docs' = [docs EXCEPT ![d] = NoRow]
    /\ call' = Renewed([call EXCEPT ![p] = next], d)

LazyDrop(p) ==
    /\ call[p].at = "lazydoc"
    /\ DropDoc(p, call[p].id, Idle)
    /\ UNCHANGED <<index, config, now, volatile, asked, seen, crossed>>

(* PATCH writes what it read with the fields of the patch. *)
PatchWrite(p) ==
    LET c == call[p]
    IN  c.at = "write" /\ PutDoc(p, c.id, Patched(c.row.body, c.body), c.opts)

(* DELETE. Mutant: the handler forgets its event. *)
DeleteSilent(p, d) ==
    /\ call[p] = Idle
    /\ Present(docs[d])
    /\ DropDoc(p, d, Idle)
    /\ index' = index \ RowsOf(d)
    /\ Crossing(p, d)
    /\ UNCHANGED <<config, now, volatile, asked, seen>>

DeleteDoc(p, d) ==
    /\ call[p] = Idle
    /\ Present(docs[d])
    /\ DropDoc(p, d, [Idle EXCEPT !.op = "delete", !.at = "deleted", !.id = d])
    /\ index' = index \ RowsOf(d)
    /\ Crossing(p, d)
    /\ UNCHANGED <<config, now, volatile, asked, seen>>

(* A document that is not there: its index rows go all the same. *)
DeleteMissing(d) ==
    /\ ~Present(docs[d])
    /\ index' = index \ RowsOf(d)
    /\ UNCHANGED <<docs, config, now, call, volatile, asked, seen, crossed>>

(* hub.Publish, after the transaction. *)
Publish(p) ==
    LET c == call[p]
    IN  /\ c.at \in {"put", "deleted"}
        /\ seen' = [seen EXCEPT ![c.id] = IF c.at = "put" THEN c.body ELSE NoDoc]
        /\ call' = [call EXCEPT ![p] = Idle]
        /\ UNCHANGED <<docs, index, config, now, volatile, asked, crossed>>

(* A statement or a transaction fails, or the client goes away. After the  *)
(* commit the handler has nothing left that fails.                         *)
Fail(p) ==
    /\ call[p].at \in {"select", "judge", "lazyindex", "lazydoc", "write"}
    /\ call' = [call EXCEPT ![p] = Idle]
    /\ UNCHANGED <<docs, index, config, now, volatile, asked, seen, crossed>>

(* An error of the first DELETE of a lazy deletion is ignored. *)
DropIndexRowsFails(p) ==
    /\ call[p].at = "lazyindex"
    /\ call' = [call EXCEPT ![p].at = "lazydoc"]
    /\ UNCHANGED <<docs, index, config, now, volatile, asked, seen, crossed>>

(* PUT .../indexes: every live document is indexed anew. *)
ConfigureIndexes(cfg) ==
    LET live == {d \in Ids : Live(docs[d])}
    IN  /\ config' = cfg
        /\ asked' = cfg
        /\ index' = UNION {IndexRows(d, docs[d].body, cfg) : d \in live}
        /\ docs' = [d \in Ids |-> IF d \in live
                                  THEN [docs[d] EXCEPT !.text = SearchText(docs[d].body, cfg)]
                                  ELSE docs[d]]
        /\ UNCHANGED <<now, call, volatile, seen, crossed>>

Tick ==
    /\ now < MaxTime
    /\ now' = now + 1
    /\ UNCHANGED <<docs, index, config, call, volatile, asked, seen, crossed>>

-----------------------------------------------------------------------------
Init ==
    /\ docs = [d \in Ids |-> NoRow]
    /\ index = {} /\ config = {}
    /\ now = 1
    /\ call = [p \in Procs |-> Idle]
    /\ volatile = {} /\ asked = {} /\ crossed = {}
    /\ seen = [d \in Ids |-> NoDoc]

Write(p) ==
    \E d \in Ids, body \in Bodies, opts \in WriteOpts :
        \/ Insert(p, d, body, opts)
        \/ Upsert(p, d, body, opts)
        \/ Begin(p, "patch", d, body, opts)

Next ==
    \/ Tick
    \/ \E cfg \in Configs : ConfigureIndexes(cfg)
    \/ \E d \in Ids : DeleteMissing(d)
    \/ \E p \in Procs :
          \/ Write(p)
          \/ \E d \in Ids : Begin(p, "get", d, Empty, NoOpts) \/ DeleteDoc(p, d)
          \/ Select(p) \/ Judge(p) \/ DropIndexRows(p) \/ DropIndexRowsFails(p) \/ LazyDrop(p)
          \/ PatchWrite(p) \/ Publish(p) \/ Fail(p)

Spec == Init /\ [][Next]_vars

-----------------------------------------------------------------------------
(* Properties *)

Row == [ver : Nat, body : Body, text : SUBSET Texts, exp : Nat]
Stages == {"idle", "select", "judge", "lazyindex", "lazydoc", "write", "put", "deleted"}
Call == [op : {"none", "get", "patch", "put", "delete"}, at : Stages, id : Ids \cup {NoDoc},
         body : Body, opts : [fields : SUBSET Config, ttl : Nat], row : Row, same : BOOLEAN]

TypeOK ==
    /\ docs \in [Ids -> Row]
    /\ index \subseteq Fields \X Scalars \X Ids
    /\ config \subseteq Config /\ asked \subseteq Config
    /\ now \in Nat
    /\ call \in [Procs -> Call]
    /\ volatile \subseteq Ids /\ crossed \subseteq Ids
    /\ seen \in [Ids -> Body \cup {NoDoc}]

(* An index query never finds a document by a value that it no longer has, *)
(* whatever writes, reconfigurations and lazy deletions came in between;   *)
(* an index row outlives its document only where an expiry time let a      *)
(* lookup delete the document under a writer (PutDoc, ConfigureIndexes,    *)
(* getLiveDocRowTx).                                                       *)
IndexSound ==
    \A row \in index :
        /\ <<"field", row[1]>> \in config
        /\ IF Present(docs[row[3]]) THEN docs[row[3]].body[row[1]] = row[2]
                                    ELSE row[3] \in volatile

(* Every document without an expiry time is found by every field that was  *)
(* configured with ConfigureIndexes, whether it was written before or      *)
(* after. (A field that a write added is not indexed for the documents     *)
(* already there.)                                                         *)
ConfiguredComplete ==
    \A d \in Ids \ volatile : \A f \in Fields :
        LET row == docs[d]
        IN  Present(row) =>
            /\ <<"field", f>> \in asked /\ row.body[f] \in Scalars => <<f, row.body[f], d>> \in index
            /\ <<"search", f>> \in asked /\ row.body[f] \in Texts => row.body[f] \in row.text

(* A PATCH loses the update of another only if the version it read is not  *)
(* the one it replaces: within one life of a document a version number     *)
(* names one body (PutDoc: version = row.Version + 1; patch, wsPatch).     *)
VersionNamesContent ==
    \A p \in Procs :
        LET c == call[p]
        IN  c.at = "write" /\ c.same /\ docs[c.id].ver = c.row.ver
                => docs[c.id].body = c.row.body

(* A subscriber that keeps the last event of each id has the document,     *)
(* once the events of all commits are out, unless two writers of that id   *)
(* published in another order than they committed, or it could expire      *)
(* (insert, upsert, patch, delete and their WebSocket twins).              *)
LastEventCurrent ==
    \A d \in Ids \ (volatile \cup crossed) :
        (\A p \in Procs : call[p].id = d => call[p].at \notin {"put", "deleted"})
            => seen[d] = IF Present(docs[d]) THEN docs[d].body ELSE NoDoc
=============================================================================
