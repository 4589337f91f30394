----------------------------- MODULE Transport -----------------------------
(***************************************************************************)
(* A call through the serialized transports: clients (local/client.rs),    *)
(* the typed transports and endpoints (transport/remote.rs, network.rs),   *)
(* the wire with the faults of transport/chaos.rs, and the request servers *)
(* (local/server.rs).  The endpoints and servers for block and for native  *)
(* requests are the same code over different request types.                *)
(*                                                                         *)
(* A request is what tells two of them apart: the client that made it, its *)
(* request id, its deadline and the device or file it works on, which      *)
(* stands for its content.  A reply holds the envelope that was executed   *)
(* to produce it; of that the wire carries only the request id.  Every     *)
(* client has client epoch 1, so the key of a request is its id.           *)
(***************************************************************************)
EXTENDS Naturals, Sequences, FiniteSets

CONSTANTS
    Clients,            \* clients over one endpoint
    Threads,            \* threads calling through the clients
    NoThread,           \* holder of a free lock
    Targets,            \* devices or files
    Opens,              \* client -> the targets it works on
    StripeOf,           \* target -> the server lock its requests take
    Deadlines,          \* deadlines of requests (NoDeadline is none)
    NoDeadline,
    DedupeCapacity,     \* dedupe_capacity of the endpoint
    MailboxCapacity,    \* mailbox_capacity of the endpoint
    MaxId,              \* bound: request ids of a client
    MaxTime,            \* bound: logical time of the endpoint
    MaxIncarnation,     \* bound: incarnations of the server
    MaxFault,           \* bound: messages lost, corrupted, repeated or delayed,
                        \* shutdowns and settings of the clock
    MaxRequest,         \* bound: requests of all clients
    MaxRetry            \* bound: retries

ASSUME TransportAssumption ==
    /\ NoThread \notin Threads
    /\ Opens \in [Clients -> SUBSET Targets]
    /\ Clients # {} /\ Targets # {} /\ Deadlines # {}
    /\ Deadlines \subseteq Nat \cup {NoDeadline}
    /\ NoDeadline \notin Nat
    /\ {DedupeCapacity, MailboxCapacity, MaxTime, MaxFault, MaxRequest, MaxRetry} \subseteq Nat
    /\ {MaxId, MaxIncarnation} \subseteq Nat \ {0}

VARIABLES
    next_request_id,    \* client -> the id of its next request
    calls,              \* thread -> its call
    delayed,            \* replies the wire holds back
    cache,              \* the endpoint's request id -> request and reply
    order,              \* ids in the order the endpoint cached them
    in_flight,          \* requests the endpoint has let in
    shutdown,
    logical_time,
    incarnation,        \* the incarnation of the running server
    stripes,            \* server lock -> the thread that holds it
    responses,          \* the server's request id -> request and result
    applied,            \* incarnation and request -> times executed
    faults,             \* faults so far
    requests,           \* requests made so far
    retries             \* retries so far

endpoint == <<cache, order, in_flight, shutdown, logical_time>>
server == <<incarnation, stripes, responses, applied>>
counts == <<faults, requests, retries>>
tvars == <<next_request_id, calls, delayed, endpoint, server, counts>>

Incarnations == 1 .. MaxIncarnation
Ids == 1 .. MaxId
Envelopes == [client: Clients, id: Ids, target: Targets, deadline: Deadlines]
Stripes == {StripeOf[d] : d \in Targets}

\* The bytes of a request do not say which client sent it.
SameBytes(d, e) == d.id = e.id /\ d.deadline = e.deadline /\ d.target = e.target

\* RemoteWireReply: the incarnation that sent it and the envelope executed.
Replies == [ok: BOOLEAN, inc: Incarnations, env: Envelopes]
Reply(ok, e) == [ok |-> ok, inc |-> incarnation, env |-> e]
NoReply == [ok |-> FALSE]

\* ChaosWireAction of a call that reaches the endpoint; "again" is the second
\* delivery of a duplicated request.
SentActions == {"pass", "drop_response", "corrupt", "duplicate", "delay", "reorder"}

\* A call: where it is, its request and the incarnation its transport expects,
\* the server process that handles it, what the wire does to it, the reply it
\* has, and the reply the wire keeps for it.
Calls ==
    [pc: {"idle", "check", "admit", "enter", "remember", "leave", "store",
          "deliver"},
     outcome: {"none", "ok", "failed"},
     env: Envelopes, inc: Incarnations, on: Incarnations,
     act: SentActions \cup {"again"},
     reply: Replies \cup {NoReply}, kept: Replies \cup {NoReply}, from: Envelopes]

SomeEnvelope == CHOOSE e \in Envelopes : TRUE
NoCall ==
    [pc |-> "idle", outcome |-> "none", env |-> SomeEnvelope, inc |-> 1, on |-> 1,
     act |-> "pass", reply |-> NoReply, kept |-> NoReply, from |-> SomeEnvelope]

At(t, pc) == calls[t].pc = pc
\* A step of the server process that took the call: none after a restart.
Serving(t, pc) == At(t, pc) /\ calls[t].on = incarnation
Goto(t, pc) == calls' = [calls EXCEPT ![t].pc = pc]
Answer(t, pc, reply) == calls' = [calls EXCEPT ![t].pc = pc, ![t].reply = reply]

(***************************************************************************)
(* The caller's side.                                                      *)
(***************************************************************************)
\* Mutants of Accepts: the request id, or the incarnation, is not compared.
AcceptsAnyId(call, reply) == reply.ok /\ reply.inc = call.inc
AcceptsAnyServer(call, reply) == reply.ok /\ reply.env.id = call.env.id

\* decode_response: a reply is accepted for its incarnation and request id.
Accepts(call, reply) ==
    /\ reply.ok
    /\ reply.inc = call.inc
    /\ reply.env.id = call.env.id

Returned(call, reply) ==
    LET ended == [call EXCEPT !.pc = "idle", !.on = call.inc, !.act = "pass",
                              !.reply = NoReply, !.kept = NoReply] IN
    IF Accepts(call, reply)
    THEN [ended EXCEPT !.outcome = "ok", !.from = reply.env]
    ELSE [ended EXCEPT !.outcome = "failed", !.from = call.env]

Spend == faults < MaxFault /\ faults' = faults + 1

\* call_wire of the wire with its faults: it loses the request, answers it with a
\* reply it held back, or sends it; to reorder it first takes a reply it held back.
Lost(t, call) ==
    /\ Spend
    /\ calls' = [calls EXCEPT ![t] = [call EXCEPT !.pc = "deliver"]]
    /\ UNCHANGED delayed

ReturnDelayed(t, call) ==
    /\ delayed # <<>>
    /\ calls' = [calls EXCEPT ![t] = [call EXCEPT !.pc = "deliver", !.reply = Head(delayed)]]
    /\ delayed' = Tail(delayed)
    /\ UNCHANGED faults

Sent(t, call) ==
    \E act \in SentActions :
        /\ IF act \in {"pass", "reorder"} THEN UNCHANGED faults ELSE Spend
        /\ act = "reorder" => delayed # <<>>
        /\ calls' = [calls EXCEPT ![t] =
               [call EXCEPT !.pc = "check", !.act = act,
                            !.kept = IF act = "reorder" THEN Head(delayed) ELSE NoReply]]
        /\ delayed' = IF act = "reorder" THEN Tail(delayed) ELSE delayed

\* The transport was made for the running server or for an earlier one.
CallWire(t, e) ==
    /\ At(t, "idle")
    /\ \E inc \in 1 .. incarnation :
           LET call == [calls[t] EXCEPT !.outcome = "failed", !.env = e, !.inc = inc] IN
           Lost(t, call) \/ ReturnDelayed(t, call) \/ Sent(t, call)
    /\ UNCHANGED <<endpoint, server>>

\* A method of a client or of a handle it opened: they share the counter.
NewRequest(t, c) ==
    /\ next_request_id[c] <= MaxId
    /\ requests < MaxRequest
    /\ requests' = requests + 1
    /\ next_request_id' = [next_request_id EXCEPT ![c] = @ + 1]
    /\ \E d \in Opens[c], limit \in Deadlines :
           CallWire(t, [client |-> c, id |-> next_request_id[c], target |-> d,
                        deadline |-> limit])
    /\ UNCHANGED retries

\* The caller sends the envelope of a failed call once more, or gives up waiting
\* for one: the thread that made that call only waits for its reply.
Retry(t) ==
    /\ \E u \in Threads : calls[u].outcome = "failed" /\ CallWire(t, calls[u].env)
    /\ retries < MaxRetry
    /\ retries' = retries + 1
    /\ UNCHANGED <<next_request_id, requests>>

(***************************************************************************)
(* The endpoint: handle_wire.                                              *)
(***************************************************************************)
\* The incarnation and the deadline are checked before the state is locked.
CheckWire(t) ==
    LET call == calls[t]
        expired == call.env.deadline # NoDeadline /\ call.env.deadline < logical_time IN
    /\ At(t, "check")
    /\ calls' = [calls EXCEPT ![t] =
           IF call.inc # incarnation \/ expired
           THEN [call EXCEPT !.pc = "deliver", !.reply = Reply(FALSE, call.env)]
           ELSE [call EXCEPT !.on = incarnation, !.pc = "admit"]]
    /\ UNCHANGED <<next_request_id, delayed, endpoint, server, counts>>

\* Under the endpoint's lock: refuse it, answer it from the cache, or let it in.
Admit(t) ==
    LET e == calls[t].env
        refuse == Answer(t, "deliver", Reply(FALSE, e)) /\ UNCHANGED in_flight IN
    /\ Serving(t, "admit")
    /\ IF shutdown THEN refuse
       ELSE IF cache[e.id].known
       THEN IF SameBytes(cache[e.id].env, e)
            THEN Answer(t, "deliver", cache[e.id].reply) /\ UNCHANGED in_flight
            ELSE refuse
       ELSE IF in_flight >= MailboxCapacity THEN refuse
       ELSE Goto(t, "enter") /\ in_flight' = in_flight + 1
    /\ UNCHANGED <<next_request_id, delayed, cache, order, shutdown, logical_time, server, counts>>

\* Mutant of Enter: the lock is not held while the request runs.
EnterUnlocked(t) ==
    LET e == calls[t].env
        s == StripeOf[e.target]
        known == responses[e.id] IN
    /\ Serving(t, "enter")
    /\ stripes[s] = NoThread
    /\ IF known.known
       THEN /\ Answer(t, "leave", IF known.env.target = e.target THEN known.reply
                                  ELSE Reply(FALSE, e))
            /\ UNCHANGED <<stripes, applied>>
       ELSE /\ \E ok \in BOOLEAN : Answer(t, "remember", Reply(ok, e))
            /\ UNCHANGED stripes
            /\ applied' = [applied EXCEPT ![<<incarnation, e>>] = @ + 1]
    /\ UNCHANGED <<next_request_id, delayed, endpoint, incarnation, responses, counts>>

\* server.handle: lock the stripe of the target and look the request up.  The
\* store runs a request that is not known, and may refuse it.
Enter(t) ==
    LET e == calls[t].env
        s == StripeOf[e.target]
        known == responses[e.id] IN
    /\ Serving(t, "enter")
    /\ stripes[s] = NoThread
    /\ IF known.known
       THEN /\ Answer(t, "leave", IF known.env.target = e.target THEN known.reply
                                  ELSE Reply(FALSE, e))
            /\ UNCHANGED <<stripes, applied>>
       ELSE /\ \E ok \in BOOLEAN : Answer(t, "remember", Reply(ok, e))
            /\ stripes' = [stripes EXCEPT ![s] = t]
            /\ applied' = [applied EXCEPT ![<<incarnation, e>>] = @ + 1]
    /\ UNCHANGED <<next_request_id, delayed, endpoint, incarnation, responses, counts>>

\* remember_response, then the stripe is released.
Remember(t) ==
    LET e == calls[t].env IN
    /\ Serving(t, "remember")
    /\ responses' = [responses EXCEPT ![e.id] =
                        [known |-> TRUE, env |-> e, reply |-> calls[t].reply]]
    /\ stripes' = [stripes EXCEPT ![StripeOf[e.target]] = NoThread]
    /\ Goto(t, "leave")
    /\ UNCHANGED <<next_request_id, delayed, endpoint, incarnation, applied, counts>>

Leave(t) ==
    /\ Serving(t, "leave")
    /\ in_flight' = IF in_flight = 0 THEN 0 ELSE in_flight - 1
    /\ Goto(t, "store")
    /\ UNCHANGED <<next_request_id, delayed, cache, order, shutdown, logical_time, server, counts>>

\* Cache the reply, an error of the server included; the oldest ids go.
\* KeptOneMore is a mutant of Kept.
KeptOneMore(ids) == IF Len(ids) > DedupeCapacity + 1 THEN Tail(ids) ELSE ids
Kept(ids) == IF Len(ids) > DedupeCapacity THEN Tail(ids) ELSE ids
Evicted(ids) == IF Len(ids) > DedupeCapacity THEN {Head(ids)} ELSE {}
StoreReply(t) ==
    LET e == calls[t].env
        ids == Append(order, e.id)
        entry == [known |-> TRUE, env |-> e, reply |-> calls[t].reply] IN
    /\ Serving(t, "store")
    /\ IF DedupeCapacity = 0 THEN UNCHANGED <<cache, order>>
       ELSE /\ order' = Kept(ids)
            /\ cache' = [i \in Ids |-> IF i \in Evicted(ids) THEN [known |-> FALSE]
                                      ELSE IF i = e.id THEN entry ELSE cache[i]]
    /\ Goto(t, "deliver")
    /\ UNCHANGED <<next_request_id, delayed, in_flight, shutdown, logical_time, server, counts>>

SetShutdown ==
    /\ IF shutdown THEN UNCHANGED faults ELSE Spend
    /\ shutdown' = ~shutdown
    /\ UNCHANGED <<next_request_id, calls, delayed, cache, order, in_flight, logical_time, server,
                   requests, retries>>

SetLogicalTime ==
    /\ Spend
    /\ logical_time' \in 0 .. MaxTime
    /\ UNCHANGED <<next_request_id, calls, delayed, cache, order, in_flight, shutdown, server,
                   requests, retries>>

(***************************************************************************)
(* The wire brings the reply back.                                         *)
(***************************************************************************)
Deliver(t) ==
    LET call == calls[t]
        return(reply) == calls' = [calls EXCEPT ![t] = Returned(call, reply)] IN
    /\ At(t, "deliver")
    /\ CASE call.act = "pass" -> return(call.reply) /\ UNCHANGED delayed
         [] call.act \in {"drop_response", "corrupt"} -> return(NoReply) /\ UNCHANGED delayed
         [] call.act = "duplicate" ->
                /\ calls' = [calls EXCEPT ![t] =
                       [call EXCEPT !.pc = "check", !.act = "again", !.kept = call.reply,
                                    !.reply = NoReply]]
                /\ UNCHANGED delayed
         [] call.act = "again" ->
                /\ return(IF call.reply = NoReply THEN NoReply ELSE call.kept)
                /\ UNCHANGED delayed
         [] call.act = "delay" -> return(NoReply) /\ delayed' = Append(delayed, call.reply)
         [] call.act = "reorder" -> return(call.kept) /\ delayed' = Append(delayed, call.reply)
    /\ UNCHANGED <<next_request_id, endpoint, server, counts>>

(***************************************************************************)
(* The server process is replaced by one of the next incarnation: its      *)
(* endpoint and its server start empty.  Calls it was handling fail.       *)
(***************************************************************************)
EmptyEndpoint ==
    /\ cache' = [i \in Ids |-> [known |-> FALSE]]
    /\ order' = <<>>
    /\ in_flight' = 0
    /\ shutdown' = FALSE
    /\ logical_time' = 0

Restart ==
    /\ incarnation < MaxIncarnation
    /\ incarnation' = incarnation + 1
    /\ EmptyEndpoint
    /\ stripes' = [s \in Stripes |-> NoThread]
    /\ responses' = [i \in Ids |-> [known |-> FALSE]]
    /\ UNCHANGED <<next_request_id, calls, delayed, applied, counts>>

Broken(t) ==
    /\ calls[t].pc \in {"admit", "enter", "remember", "leave", "store"}
    /\ calls[t].on # incarnation
    /\ Answer(t, "deliver", NoReply)
    /\ UNCHANGED <<next_request_id, delayed, endpoint, server, counts>>

TInit ==
    /\ next_request_id = [c \in Clients |-> 1]
    /\ calls = [t \in Threads |-> NoCall]
    /\ delayed = <<>>
    /\ cache = [i \in Ids |-> [known |-> FALSE]]
    /\ order = <<>>
    /\ in_flight = 0
    /\ shutdown = FALSE
    /\ logical_time = 0
    /\ incarnation = 1
    /\ stripes = [s \in Stripes |-> NoThread]
    /\ responses = [i \in Ids |-> [known |-> FALSE]]
    /\ applied = [ie \in Incarnations \X Envelopes |-> 0]
    /\ faults = 0
    /\ requests = 0
    /\ retries = 0

\* What a call does by itself once it was sent.
Proceed(t) ==
    \/ CheckWire(t) \/ Admit(t) \/ Enter(t) \/ Remember(t)
    \/ Leave(t) \/ StoreReply(t) \/ Deliver(t) \/ Broken(t)

TNext ==
    \/ \E t \in Threads : Retry(t) \/ Proceed(t) \/ \E c \in Clients : NewRequest(t, c)
    \/ SetShutdown \/ SetLogicalTime \/ Restart

TSpec == TInit /\ [][TNext]_tvars

(***************************************************************************)
(* Properties.                                                             *)
(***************************************************************************)
\* Every variable has the shape the program gives it.
TTypeOK ==
    /\ next_request_id \in [Clients -> 1 .. MaxId + 1]
    /\ calls \in [Threads -> Calls]
    /\ delayed \in Seq(Replies \cup {NoReply})
    /\ order \in Seq(Ids)
    /\ in_flight \in Nat /\ shutdown \in BOOLEAN /\ logical_time \in 0 .. MaxTime
    /\ incarnation \in Incarnations
    /\ stripes \in [Stripes -> Threads \cup {NoThread}]
    /\ \A known \in {cache, responses} :
           /\ DOMAIN known = Ids
           /\ \A i \in Ids : known[i].known =>
                  known[i].env \in Envelopes /\ known[i].reply \in Replies
    /\ applied \in [Incarnations \X Envelopes -> Nat]
    /\ faults \in 0 .. MaxFault
    /\ requests \in 0 .. MaxRequest /\ retries \in 0 .. MaxRetry

\* However often the wire or the callers deliver a request, even while it is
\* being executed, one incarnation of the server executes it at most once.
AppliedOnce == \A ie \in Incarnations \X Envelopes : applied[ie] <= 1

\* The state is well typed, and the endpoint's memory bounded: no more replies
\* than the dedupe capacity, every one of them with an id that is due for
\* eviction, and as many requests in flight as calls it let in, never more than
\* the mailbox holds.
EndpointBounded ==
    /\ TTypeOK
    /\ Len(order) <= DedupeCapacity
    /\ \A i \in Ids : cache[i].known => \E n \in 1 .. Len(order) : order[n] = i
    /\ in_flight <= MailboxCapacity
    /\ in_flight = Cardinality({t \in Threads :
           /\ calls[t].pc \in {"enter", "remember", "leave"}
           /\ calls[t].on = incarnation})

\* A call that succeeds got the result of its own request, if no other client
\* used its request id: late, reordered and duplicated replies are told apart.
OwnAnswer ==
    \A t \in Threads :
        LET call == calls[t]
            rivals == {c \in Clients \ {call.env.client} :
                          next_request_id[c] > call.env.id} IN
        call.outcome = "ok" /\ call.pc = "idle" /\ rivals = {} => call.from = call.env

\* The same for every call, as BlockTransport asks: "Duplicate, delayed, reordered,
\* or stale responses must be rejected or surfaced as errors rather than silently
\* applied to the wrong request".
NeverMisapplied ==
    \A t \in Threads :
        calls[t].outcome = "ok" /\ calls[t].pc = "idle" => calls[t].from = calls[t].env

\* The latest call of every thread, as RequestOnce sees it.
Asked ==
    [t \in Threads |->
        [inc |-> calls[t].inc, env |-> calls[t].env,
         state |-> IF ~At(t, "idle") THEN "open"
                   ELSE IF calls[t].outcome = "ok" THEN "ok" ELSE "failed"]]

\* The transports implement RequestOnce.
SameRequestId(d, e) == d.id = e.id
Once == INSTANCE RequestOnce WITH
    Callers <- Threads,
    SameId <- SameRequestId,
    asked <- Asked
ImplementsOnce == Once!RSpec
=============================================================================
