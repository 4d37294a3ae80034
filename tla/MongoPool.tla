------------------------------ MODULE MongoPool -------------------------------
(***************************************************************************)
(* The MongoDB stack: mongo_pool.c, mongo_pool_worker.c and, on the        *)
(* isolate, MongoConn of mongo_native_pool.dart.  A connection has a       *)
(* mailbox, as in NativeSlot, with a typed operation; there are no         *)
(* transactions.  An operation leaves a chain of documents on the          *)
(* connection, which Dart drains: find all of it, the others one reply.    *)
(* A task awaits each operation before it starts another or releases.      *)
(*                                                                         *)
(* The server (external) holds one collection, of which only insert_many   *)
(* matters here: a document is <<id of the call, index>>.  It answers with *)
(* how many documents it inserted and the indexes it refused; when the     *)
(* answer is lost, libmongoc replies with what it knows.                   *)
(***************************************************************************)
EXTENDS Integers, FiniteSets, Sequences, FiniteSetsExt

CONSTANTS Tasks, NoTask,
          MaxSize,            \* max_size
          DefaultClients,     \* libmongoc's own maxPoolSize
          MaxJobs,            \* bound: operations of each task
          MaxDocs,            \* bound: documents of a find or insert_many
          Ops                 \* per task: the operations it makes

ASSUME MaxSizeIsPositive == MaxSize \in Nat \ {0}
ASSUME DefaultClientsIsPositive == DefaultClients \in Nat \ {0}

ASSUME MaxJobsIsNat == MaxJobs \in [Tasks -> Nat]
ASSUME MaxDocsIsNat == MaxDocs \in Nat
ASSUME NoTaskIsNoTask == NoTask \notin Tasks

Conns == 1..MaxSize

NoId == <<NoTask, 0>>
NoJob == [id |-> NoId, owner |-> NoTask, op |-> "none", ordered |-> TRUE]

(* enum mongo_op: the operations, and those that leave one reply. *)
SingleReply == {"insert_one", "update_one", "delete_one", "command"}
AllOps == {"find", "insert_many"} \cup SingleReply

ASSUME OpsAreKnown == \A t \in Tasks : Ops[t] \subseteq AllOps

(* One document of a chain.  `i` is its place, 0 for a reply; a reply to    *)
(* insert_many has insertedCount and the indexes of writeErrors.  `odd`: it *)
(* has a BSON type that BsonReader does not know, and throws for.           *)
Doc(id, i, odd) == [id |-> id, i |-> i, count |-> 0, errors |-> {}, odd |-> odd]
Reply(id, count, errors) ==
    [id |-> id, i |-> 0, count |-> count, errors |-> errors, odd |-> FALSE]

VARIABLES pool,     \* the segment of create or destroy that is running
          clients,  \* external: clients left in mongoc_client_pool_t
          conn,     \* mongo_conn_t: in_use, slot, last_result, last_error, stop
          worker,   \* per connection: where its thread is
          coll,     \* external: the documents insert_many has inserted
          lost,     \* history: calls whose answer the server could not deliver
          unnamed,  \* history: insert_many refused, but not document by document
          unstored, \* history: aborted insert_many that left no reply
          task      \* Dart: the tasks and their MongoConn

vars == <<pool, clients, conn, worker, coll, lost, unnamed, unstored, task>>

FreshConn == [inUse |-> FALSE, slot |-> NoJob, last |-> <<>>, error |-> NoId,
              stop |-> FALSE]
IdleTask == [pc |-> "out", n |-> 0, conn |-> 0, job |-> NoJob, port |-> "none",
             got |-> <<>>, returned |-> FALSE]

(* MONGOC_URI_MAXPOOLSIZE is set to max_size. *)
ClientsByDefault == DefaultClients
ClientPoolSize == MaxSize

Init ==
    /\ pool = [phase |-> "create", at |-> 1, made |-> 0, undo |-> FALSE]
    /\ clients = ClientPoolSize
    /\ conn = [c \in Conns |-> FreshConn]
    /\ worker = [c \in Conns |-> "none"]
    /\ coll = {} /\ lost = {} /\ unnamed = {} /\ unstored = {}
    /\ task = [t \in Tasks |-> IdleTask]

server == <<coll, lost, unnamed, unstored>>
Goto(phase, at) == pool' = [pool EXCEPT !.phase = phase, !.at = at]
Woken(c) == IF worker[c] = "asleep" THEN "check" ELSE worker[c]

-------------------------------------------------------------------------------
(* mongo_pool_create: init_conn pops a client, which waits until there is   *)
(* one, and starts the worker that owns it from then on.  When it fails, it *)
(* has pushed its client back, and the connections made so far are torn     *)
(* down in turn.                                                            *)
CreateConn ==
    /\ pool.phase = "create"
    /\ clients > 0
    /\ clients' = clients - 1
    /\ worker' = [worker EXCEPT ![pool.at] = "check"]
    /\ pool' = [pool EXCEPT !.made = @ + 1,
                            !.phase = IF pool.at = MaxSize THEN "open" ELSE @,
                            !.at = IF pool.at = MaxSize THEN 1 ELSE @ + 1]
    /\ UNCHANGED <<conn, server, task>>

CreateFails ==
    /\ pool.phase = "create"
    /\ clients > 0
    /\ pool' = [pool EXCEPT !.phase = IF pool.made = 0 THEN "freed" ELSE "stop",
                            !.at = 1, !.undo = TRUE]
    /\ UNCHANGED <<clients, conn, worker, server, task>>

Destroy ==
    /\ pool.phase = "open"
    /\ Goto("stop", 1)
    /\ UNCHANGED <<clients, conn, worker, server, task>>

(* mongo_pool_destroy tells every worker to stop, then joins one after      *)
(* another; the undo of mongo_pool_create does both to one after another.   *)
StopSignal(c) == worker' = [worker EXCEPT ![c] = Woken(c)]

Stop ==
    /\ pool.phase = "stop"
    /\ conn' = [conn EXCEPT ![pool.at].stop = TRUE]
    /\ StopSignal(pool.at)
    /\ IF pool.undo THEN Goto("join", pool.at)
       ELSE IF pool.at < pool.made THEN Goto("stop", pool.at + 1)
       ELSE Goto("join", 1)
    /\ UNCHANGED <<clients, server, task>>

(* teardown_conn: free the chain nobody drained, push the client back. *)
Join ==
    /\ pool.phase = "join"
    /\ worker[pool.at] = "exited"
    /\ clients' = clients + 1
    /\ conn' = [conn EXCEPT ![pool.at] = [FreshConn EXCEPT !.stop = TRUE]]
    /\ IF pool.at = pool.made THEN Goto("freed", 1)
       ELSE Goto(IF pool.undo THEN "stop" ELSE "join", pool.at + 1)
    /\ UNCHANGED <<worker, server, task>>

-------------------------------------------------------------------------------
(* The isolate.  mongo_pool_acquire is only called when the gate knows of a *)
(* free connection (ConnectionPoolGate).                                    *)
Lease(t) ==
    /\ pool.phase = "open"
    /\ task[t].pc = "out"
    /\ task[t].n < MaxJobs[t]
    /\ \E c \in Conns :
          /\ ~conn[c].inUse
          /\ \A d \in 1..(c - 1) : conn[d].inUse
          /\ conn' = [conn EXCEPT ![c].inUse = TRUE]
          /\ task' = [task EXCEPT ![t] = [IdleTask EXCEPT
                         !.pc = "body", !.n = task[t].n, !.conn = c]]
    /\ UNCHANGED <<pool, clients, worker, server>>

(* The outcome of the call before is not looked at any more. *)
Forget(t) == /\ coll' = {d \in coll : d[1][1] # t}
             /\ lost' = {id \in lost : id[1] # t}
             /\ unnamed' = {id \in unnamed : id[1] # t}
             /\ unstored' = {id \in unstored : id[1] # t}

(* submit_op, from the six typed submits: fills the mailbox if it is empty  *)
(* and the worker is not told to stop.                                      *)
Submit(t) ==
    LET c == task[t].conn
    IN  /\ pool.phase = "open"
        /\ task[t].pc \in {"body", "got"} /\ task[t].n < MaxJobs[t]
        /\ conn[c].slot = NoJob /\ ~conn[c].stop
        /\ \E op \in Ops[t],
              ordered \in (IF "insert_many" \in Ops[t] THEN BOOLEAN ELSE {TRUE}) :
              LET job == [id |-> <<t, task[t].n + 1>>, owner |-> t, op |-> op,
                          ordered |-> op # "insert_many" \/ ordered]
              IN  /\ conn' = [conn EXCEPT ![c].slot = job]
                  /\ task' = [task EXCEPT ![t] = [task[t] EXCEPT
                        !.pc = "await", !.n = @ + 1, !.job = job, !.got = <<>>]]
        /\ worker' = [worker EXCEPT ![c] = Woken(c)]
        /\ Forget(t)
        /\ UNCHANGED <<pool, clients>>

(* What a drain takes off the chain: _drainAll, until it meets a document   *)
(* that does not decode; _drainOne, one.                                    *)
DrainAll(last) ==
    LET odds == {i \in DOMAIN last : last[i].odd}
    IN  IF odds = {} THEN Len(last) ELSE Min(odds)
DrainOne(last) == IF last = <<>> THEN 0 ELSE 1

(* `await port.first` resolves.  insertMany drains its reply whatever the   *)
(* code is, and throws it when the code or the reply has an error; the      *)
(* others drain what a 1 announces, and throw on 2.                         *)
OnlyOnOk(op, code) == code = "ok"
Drains(op, code) == code = "ok" \/ op = "insert_many"

LastError(c) == conn[c].error

Resumes(t) == task[t].pc = "await" /\ task[t].port # "none"
Taken(t) ==
    LET last == conn[task[t].conn].last
    IN  IF ~Drains(task[t].job.op, task[t].port) THEN 0
        ELSE IF task[t].job.op = "find" THEN DrainAll(last) ELSE DrainOne(last)
Receive(t) ==
    LET c == task[t].conn
        got == SubSeq(conn[c].last, 1, Taken(t))
    IN  /\ pool.phase = "open"
        /\ Resumes(t)
        /\ conn' = [conn EXCEPT ![c].last = SubSeq(@, Taken(t) + 1, Len(@))]
        /\ task' = [task EXCEPT ![t] = [task[t] EXCEPT
              !.pc = "got", !.port = "none", !.got = got,
              !.returned = task[t].port = "ok"
                           /\ \A i \in DOMAIN got : got[i].errors = {} /\ ~got[i].odd]]
        /\ UNCHANGED <<pool, clients, worker, server>>

Release(t) ==
    /\ pool.phase = "open"
    /\ task[t].pc \in {"body", "got"}
    /\ conn' = [conn EXCEPT ![task[t].conn].inUse = FALSE]
    /\ task' = [task EXCEPT ![t] = [IdleTask EXCEPT !.n = task[t].n]]
    /\ Forget(t)
    /\ UNCHANGED <<pool, clients, worker>>

-------------------------------------------------------------------------------
(* The worker thread of connection c. *)
Check(c) ==
    /\ worker[c] = "check"
    /\ worker' = [worker EXCEPT ![c] = IF conn[c].slot # NoJob THEN "run"
                                      ELSE IF conn[c].stop THEN "exited"
                                      ELSE "asleep"]
    /\ conn' = IF conn[c].slot # NoJob
               THEN [conn EXCEPT ![c].error = NoId] ELSE conn
    /\ UNCHANGED <<pool, clients, server, task>>

(* The conn keeps the error of an abort until the next operation.           *)
set_error(error, id, code) == IF code = "aborted" THEN id ELSE error

(* free_slot_payload, slot_filled = 0, then the post. *)
Answer(c, last, code) ==
    LET job == conn[c].slot
    IN  /\ worker[c] = "run"
        /\ conn' = [conn EXCEPT ![c] = [conn[c] EXCEPT
              !.slot = NoJob, !.last = last,
              !.error = set_error(@, job.id, code)]]
        /\ task' = [task EXCEPT ![job.owner].port = code]
        /\ worker' = [worker EXCEPT ![c] = "check"]
        /\ UNCHANGED <<pool, clients>>

(* execute_find drains the cursor into a chain; a cursor error frees what   *)
(* it has, and either way the chain replaces last_result.                   *)
Find(c) ==
    LET id == conn[c].slot.id
    IN  /\ conn[c].slot.op = "find"
        /\ \/ \E k \in 0..MaxDocs, odd \in 0..MaxDocs :
                 /\ odd <= k
                 /\ Answer(c, [i \in 1..k |-> Doc(id, i, i = odd)], "ok")
           \/ Answer(c, <<>>, "aborted")
        /\ UNCHANGED server

(* execute_write and execute_command store one reply; an abort leaves       *)
(* last_result as it is.                                                    *)
Appended(last, reply) == last \o <<reply>>
StoreSingle(last, reply) == <<reply>>
Write(c) ==
    LET id == conn[c].slot.id
    IN  /\ conn[c].slot.op \in SingleReply
        /\ \/ Answer(c, StoreSingle(conn[c].last, Reply(id, 0, {})), "ok")
           \/ Answer(c, conn[c].last, "aborted")
        /\ UNCHANGED server

(* External: of the documents 1..sent that it considers the server refuses  *)
(* `bad`; ordered, it stops at the first of them.                           *)
Inserted(ordered, sent, bad) ==
    IF bad = {} THEN 1..sent
    ELSE IF ordered THEN 1..(Min(bad) - 1) ELSE (1..sent) \ bad
Refused(ordered, bad) ==
    IF ordered /\ bad # {} THEN {Min(bad)} ELSE bad

(* execute_insert_many stores the reply whether or not the call failed.     *)
(* The call, or a later batch of it, may be refused as a whole (not         *)
(* authorised, ok: 0, not valid for the client): what is from there on is   *)
(* not considered.  `concern`: the writes are in, but the write concern was *)
(* not met.  The reply names no index for either.                           *)
(* When part of the answer is lost, the reply has the documents the server  *)
(* has acknowledged and those it has refused so far.                        *)
StoreReply(last, reply, ok) == StoreSingle(last, reply)

InsertMany(c) ==
    LET job == conn[c].slot
        new(s) == {<<job.id, i>> : i \in s}
    IN  /\ job.op = "insert_many"
        /\ \/ \E sent \in 0..MaxDocs, concern \in BOOLEAN : \E bad \in SUBSET (1..sent) :
                 LET in == Inserted(job.ordered, sent, bad)
                     reply == Reply(job.id, Cardinality(in),
                                    Refused(job.ordered, bad))
                     whole == sent < MaxDocs \/ concern
                     ok == bad = {} /\ ~whole
                 IN  /\ coll' = coll \cup new(in)
                     /\ Answer(c, StoreReply(conn[c].last, reply, ok),
                               IF ok THEN "ok" ELSE "aborted")
                     /\ unnamed' = IF whole THEN unnamed \cup {job.id} ELSE unnamed
                     /\ UNCHANGED <<lost, unstored>>
           \/ \E in \in SUBSET (1..MaxDocs) :
              \E known \in SUBSET in, named \in SUBSET ((1..MaxDocs) \ in) :
                 LET reply == Reply(job.id, Cardinality(known), named)
                 IN  /\ coll' = coll \cup new(in)
                     /\ Answer(c, StoreReply(conn[c].last, reply, FALSE), "aborted")
                     /\ lost' = lost \cup {job.id}
                     /\ UNCHANGED <<unnamed, unstored>>

(* No memory for the slices, or a blob that is not doc_count documents:     *)
(* nothing is sent.  No memory for the reply: everything may be in (and the *)
(* error text is empty).                                                    *)
InsertManyUnstored(c) ==
    LET job == conn[c].slot
    IN  /\ job.op = "insert_many"
        /\ \E in \in {{}, 1..MaxDocs} : coll' = coll \cup {<<job.id, i>> : i \in in}
        /\ Answer(c, conn[c].last, "aborted")
        /\ unstored' = unstored \cup {job.id}
        /\ UNCHANGED <<lost, unnamed>>

Work(c) == Check(c) \/ Find(c) \/ Write(c) \/ InsertMany(c)
           \/ InsertManyUnstored(c)

-------------------------------------------------------------------------------
Lifecycle == CreateConn \/ CreateFails \/ Stop \/ Join

Next == \/ Lifecycle \/ Destroy
        \/ \E t \in Tasks : Lease(t) \/ Submit(t) \/ Receive(t) \/ Release(t)
        \/ \E c \in Conns : Work(c)

Spec == Init /\ [][Next]_vars

(* create and destroy run to their end, the workers run, and libmongoc ends *)
(* every operation (server selection and sockets have timeouts).            *)
FairSpec == /\ Spec
            /\ WF_vars(Lifecycle)
            /\ \A c \in Conns : WF_vars(Work(c))

-------------------------------------------------------------------------------
(* What a call decodes is its own documents, from the first on and in their *)
(* order, and the error it throws is its own: across lessees, and although  *)
(* a find that met a document it cannot decode leaves the rest of its chain *)
(* on the connection.  Not for an insertMany that left no reply, contrary   *)
(* to mongo_native_pool.dart:323: it decodes such a rest as its reply.      *)
AnswerIsOwn ==
    \A t \in Tasks :
        LET got == task[t].got
        IN  /\ task[t].pc = "got" /\ task[t].job.id \notin unstored =>
                  \A i \in DOMAIN got :
                      /\ got[i].id = task[t].job.id
                      /\ got[i].i = IF task[t].job.op = "find" THEN i ELSE 0
            /\ pool.phase = "open" /\ Resumes(t) /\ task[t].port = "aborted" =>
                  LastError(task[t].conn) = task[t].job.id

(* mongo_pool.h:147, "the reply is stored EVEN when the op reports failure, *)
(* so the caller can surface per-index write errors": what insertMany       *)
(* returns or throws says which documents are in the collection.  It        *)
(* returns only if all are; what it throws counts those that are in and     *)
(* names none of them; when the answer was lost, it counts no more than     *)
(* there are.  It names the refused only if they were refused one by one:   *)
(* a call or a batch refused as a whole, or writes short of their write     *)
(* concern, throw with no index (mongo_native_pool.dart:287, "carrying the  *)
(* per-index write errors" on "partial or total failure").                  *)
InsertManyIsAccounted ==
    \A t \in Tasks :
        LET id == task[t].job.id
            in == {d[2] : d \in {e \in coll : e[1] = id}}
            count == IF task[t].got = <<>> THEN 0 ELSE task[t].got[1].count
            errors == IF task[t].got = <<>> THEN {} ELSE task[t].got[1].errors
        IN  task[t].pc = "got" /\ task[t].job.op = "insert_many" =>
                /\ task[t].returned => in = 1..MaxDocs
                /\ id \notin unstored => errors \cap in = {}
                /\ id \notin lost \cup unstored => count = Cardinality(in)
                /\ ~task[t].returned /\ id \notin lost \cup unnamed \cup unstored =>
                      /\ errors # {}
                      /\ ~task[t].job.ordered => errors \cup in = 1..MaxDocs
                /\ id \in lost => count <= Cardinality(in)

(* mongo_pool_create does not wait for ever for a client, and               *)
(* mongo_pool_destroy, or a create that fails, ends with every client back  *)
(* in the client pool it then destroys.                                     *)
LifecycleReturns ==
    /\ pool.phase = "create" ~> pool.phase # "create"
    /\ pool.phase = "stop" ~> pool.phase = "freed" /\ clients = ClientPoolSize
===============================================================================
