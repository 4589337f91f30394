-------------------------- MODULE TransportProofs --------------------------
(***************************************************************************)
(* For every number of clients, threads, targets, locks, requests, faults  *)
(* and restarts: a server incarnation executes a request at most once, and *)
(* the transports implement RequestOnce.                                   *)
(*                                                                         *)
(* AppliedOnce is not inductive.  That a request is looked up, executed    *)
(* and remembered under one lock matters only with what links the steps:   *)
(* a request that ran is remembered or still runs (Known), a request that  *)
(* runs holds the lock of its target (Locked), nothing of a later          *)
(* incarnation has run (Future), and a successful reply that is anywhere   *)
(* in the system was produced by an execution (Answers).                   *)
(***************************************************************************)
EXTENDS Transport, TLAPS

(***************************************************************************)
(* The inductive invariant.                                                *)
(***************************************************************************)
\* The part of the type invariant the argument needs.
Types ==
    /\ next_request_id \in [Clients -> 1 .. MaxId + 1]
    /\ calls \in [Threads -> Calls]
    /\ delayed \in Seq(Replies \cup {NoReply})
    /\ incarnation \in Incarnations
    /\ stripes \in [Stripes -> Threads \cup {NoThread}]
    /\ DOMAIN cache = Ids
    /\ \A i \in Ids : cache[i].known =>
           cache[i].env \in Envelopes /\ cache[i].reply \in Replies
    /\ DOMAIN responses = Ids
    /\ \A i \in Ids : responses[i].known =>
           responses[i].env \in Envelopes /\ responses[i].reply \in Replies
    /\ applied \in [Incarnations \X Envelopes -> Nat]

\* Where the server process has a call.
Served == {"admit", "enter", "remember", "leave", "store"}

\* A call expects a server that has started, and is served by that one; once it
\* left the server it has a reply.
Expected ==
    \A t \in Threads :
        /\ calls[t].inc <= incarnation
        /\ calls[t].on <= incarnation
        /\ calls[t].pc \in Served => calls[t].on = calls[t].inc
        /\ calls[t].pc \in {"remember", "leave", "store"} => calls[t].reply \in Replies

\* The running server executed the request and did not remember its result yet.
Running(t) == At(t, "remember") /\ calls[t].on = incarnation

Locked == \A t \in Threads : Running(t) => stripes[StripeOf[calls[t].env.target]] = t

\* A request that this incarnation executed is remembered or still runs.
Known ==
    \A e \in Envelopes : applied[<<incarnation, e>>] # 0 =>
        responses[e.id].known \/ \E t \in Threads : Running(t) /\ calls[t].env = e

Future == \A i \in Incarnations, e \in Envelopes : i > incarnation => applied[<<i, e>>] = 0

\* A reply that reports success was produced by an execution.
Honest(r) == r.ok => applied[<<r.inc, r.env>>] = 1

Answers ==
    /\ \A t \in Threads : Honest(calls[t].reply) /\ Honest(calls[t].kept)
    /\ \A n \in 1 .. Len(delayed) : Honest(delayed[n])
    /\ \A i \in Ids : cache[i].known => Honest(cache[i].reply)
    /\ \A i \in Ids : responses[i].known => Honest(responses[i].reply)

OnceInv == Types /\ Expected /\ Locked /\ Known /\ Future /\ AppliedOnce /\ Answers

\* There are requests.
LEMMA SomeEnvelopeThere == SomeEnvelope \in Envelopes
<1>1. PICK c \in Clients, d \in Targets, l \in Deadlines : TRUE
  BY ZenonT(60), TransportAssumption
<1>2. [client |-> c, id |-> 1, target |-> d, deadline |-> l] \in Envelopes
  BY TransportAssumption DEF Envelopes, Ids
<1> QED BY <1>2 DEF SomeEnvelope

\* A fresh endpoint and server satisfy the invariant.
LEMMA InitOnce == TInit => OnceInv
<1> SUFFICES ASSUME TInit PROVE OnceInv
  OBVIOUS
<1>1. SomeEnvelope \in Envelopes
  BY ZenonT(60), SomeEnvelopeThere
<1>2. NoCall \in Calls
  BY <1>1, TransportAssumption DEF NoCall, Calls, SentActions, Incarnations, NoReply
<1>3. Types
  BY <1>2, TransportAssumption DEF TInit, Types, Incarnations, Stripes
<1>4. Expected
  BY <1>2, TransportAssumption DEF TInit, Expected, Incarnations, Served, NoCall
<1>5. Locked /\ Known
  BY <1>2, TransportAssumption DEF TInit, Locked, Known, Running, At, NoCall, Incarnations
<1>6. Future /\ AppliedOnce
  BY TransportAssumption DEF TInit, Future, AppliedOnce, Incarnations
<1>7. Answers
  BY <1>2, TransportAssumption DEF TInit, Answers, Honest, NoCall, NoReply
<1> QED BY ZenonT(60), <1>3, <1>4, <1>5, <1>6, <1>7 DEF OnceInv

(***************************************************************************)
(* Steps of one call that do not touch the server's state.                 *)
(***************************************************************************)
\* The call of thread t becomes c, which keeps the invariant's promises.
Moved(t, c) ==
    /\ calls' = [calls EXCEPT ![t] = c]
    /\ c \in Calls
    /\ c.inc <= incarnation /\ c.on <= incarnation
    /\ c.pc \in Served => c.on = c.inc
    /\ c.pc \in {"leave", "store"} => c.reply \in Replies
    /\ c.pc # "remember"
    /\ Honest(c.reply) /\ Honest(c.kept)

\* The same of the client's ids, the replies held back and the endpoint's cache.
Wire ==
    /\ next_request_id \in [Clients -> 1 .. MaxId + 1]
    /\ delayed \in Seq(Replies \cup {NoReply})
    /\ \A n \in 1 .. Len(delayed) : Honest(delayed[n])
    /\ DOMAIN cache = Ids
    /\ \A i \in Ids : cache[i].known =>
           /\ cache[i].env \in Envelopes /\ cache[i].reply \in Replies
           /\ Honest(cache[i].reply)

\* A call that is not executing may move on if the server's state stays.
LEMMA MoveCall ==
    ASSUME OnceInv, NEW t \in Threads, NEW c, Moved(t, c), ~Running(t), Wire',
           UNCHANGED <<incarnation, stripes, responses, applied>>
    PROVE  OnceInv'
<1>0. calls \in [Threads -> Calls]
  BY ZenonT(60) DEF OnceInv, Types
<1>1. calls' \in [Threads -> Calls]
  BY ZenonT(60), <1>0 DEF Moved
<1>2. \A u \in Threads : calls'[u] = IF u = t THEN c ELSE calls[u]
  BY ZenonT(60), <1>0 DEF Moved
<1>3. Types'
  BY ZenonT(60), <1>1 DEF OnceInv, Types, Wire
<1>4. Expected'
  BY <1>2 DEF OnceInv, Expected, Moved, Served
<1>5. \A u \in Threads : Running(u)' <=> Running(u)
  BY ZenonT(60), <1>2 DEF Moved, Running, At
<1>6. Locked'
  <2> SUFFICES ASSUME NEW u \in Threads, Running(u)
               PROVE  stripes[StripeOf[calls'[u].env.target]] = u
    BY ZenonT(60), <1>5 DEF Locked
  <2> QED BY ZenonT(60), <1>2 DEF OnceInv, Locked
<1>7. Known'
  <2> SUFFICES ASSUME NEW e \in Envelopes, applied[<<incarnation, e>>] # 0
               PROVE  responses[e.id].known \/ \E u \in Threads : Running(u) /\ calls'[u].env = e
    BY ZenonT(60), <1>5 DEF Known
  <2>1. responses[e.id].known \/ \E u \in Threads : Running(u) /\ calls[u].env = e
    BY DEF OnceInv, Known
  <2> QED BY ZenonT(60), <2>1, <1>2
<1>8. Future' /\ AppliedOnce'
  BY SMTT(60) DEF OnceInv, Future, AppliedOnce
<1>9. Answers'
  <2>1. ASSUME NEW u \in Threads
        PROVE  /\ calls'[u].reply.ok
                    => applied[<<calls'[u].reply.inc, calls'[u].reply.env>>] = 1
               /\ calls'[u].kept.ok
                    => applied[<<calls'[u].kept.inc, calls'[u].kept.env>>] = 1
    <3>1. CASE u = t
      <4>1. calls'[u] = c /\ Honest(c.reply) /\ Honest(c.kept)
        BY ZenonT(60), <3>1, <1>2 DEF Moved
      <4> QED BY <4>1 DEF Honest
    <3>2. CASE u # t
      <4>1. calls'[u] = calls[u] /\ Honest(calls[u].reply) /\ Honest(calls[u].kept)
        BY ZenonT(60), <3>2, <1>2 DEF OnceInv, Answers
      <4> QED BY ZenonT(60), <4>1 DEF Honest
    <3> QED BY ZenonT(60), <3>1, <3>2
  <2>2. (\A u \in Threads : Honest(calls[u].reply) /\ Honest(calls[u].kept))'
    BY ZenonT(60), <2>1 DEF Honest
  <2>3. (\A i \in Ids : responses[i].known => Honest(responses[i].reply))'
    BY DEF OnceInv, Answers, Honest
  <2>4. /\ (\A n \in 1 .. Len(delayed) : Honest(delayed[n]))'
        /\ (\A i \in Ids : cache[i].known => Honest(cache[i].reply))'
    BY Zenon DEF Wire
  <2> QED BY Zenon, <2>2, <2>3, <2>4 DEF Answers
<1> QED BY ZenonT(60), <1>3, <1>4, <1>6, <1>7, <1>8, <1>9 DEF OnceInv

\* chaos.rs, delayed_responses: taking the first reply leaves replies.
LEMMA HeadReply ==
    ASSUME Types, delayed # <<>>
    PROVE  /\ Head(delayed) = delayed[1] /\ 1 \in 1 .. Len(delayed)
           /\ Head(delayed) \in Replies \cup {NoReply}
           /\ Tail(delayed) \in Seq(Replies \cup {NoReply})
           /\ \A n \in 1 .. Len(Tail(delayed)) :
                  n + 1 \in 1 .. Len(delayed) /\ Tail(delayed)[n] = delayed[n + 1]
<1>1. delayed \in Seq(Replies \cup {NoReply})
  BY DEF Types
<1>2. Len(delayed) \in Nat /\ Len(delayed) # 0
  BY <1>1
<1> QED BY <1>1, <1>2

\* The wire's side of sending: what is true of the call and of the replies held back.
LEMMA CallWireOnce ==
    ASSUME OnceInv, NEW t \in Threads, NEW e \in Envelopes, CallWire(t, e),
           next_request_id' \in [Clients -> 1 .. MaxId + 1]
    PROVE  OnceInv'
<1>0. PICK inc \in 1 .. incarnation :
          LET call == [calls[t] EXCEPT !.outcome = "failed", !.env = e, !.inc = inc] IN
          Lost(t, call) \/ ReturnDelayed(t, call) \/ Sent(t, call)
  BY ZenonT(60) DEF CallWire
<1> DEFINE call == [calls[t] EXCEPT !.outcome = "failed", !.env = e, !.inc = inc]
<1>1. calls[t] \in Calls /\ inc \in Incarnations /\ incarnation \in Nat
  BY TransportAssumption DEF OnceInv, Types, Incarnations
<1>2. /\ call \in Calls /\ call.inc <= incarnation /\ call.on <= incarnation /\ call.pc = "idle"
      /\ call.inc = inc /\ call.env = e
      /\ call.reply = calls[t].reply /\ call.kept = calls[t].kept
  <2>1. calls[t].pc = "idle" /\ calls[t].on <= incarnation
    BY DEF CallWire, At, OnceInv, Expected
  <2>2. inc <= incarnation
    BY <1>1 DEF Incarnations
  <2>3. call \in Calls
    BY ZenonT(60), <1>1 DEF Calls
  <2> QED BY <1>1, <2>1, <2>2, <2>3 DEF Calls
<1>3. Honest(call.reply) /\ Honest(call.kept)
  BY ZenonT(60), <1>2 DEF OnceInv, Answers
<1>4. UNCHANGED <<cache, order, in_flight, shutdown, logical_time, incarnation, stripes,
                  responses, applied>> /\ ~Running(t)
  BY DEF CallWire, endpoint, server, Running, At
<1> HIDE DEF call
<1>5. CASE Lost(t, call)
  <2>1. Moved(t, [call EXCEPT !.pc = "deliver"]) /\ delayed' = delayed
    BY ZenonT(60), <1>2, <1>3, <1>5 DEF Lost, Moved, Calls, Served
  <2>2. Wire'
    BY <2>1, <1>4 DEF OnceInv, Types, Answers, Wire, Honest
  <2> QED BY ZenonT(60), <2>1, <2>2, <1>4, MoveCall
<1>6. CASE ReturnDelayed(t, call)
  <2>1. Honest(Head(delayed)) /\ Head(delayed) \in Replies \cup {NoReply}
    BY ZenonT(60), <1>6, HeadReply DEF ReturnDelayed, OnceInv, Answers
  <2>2. Moved(t, [call EXCEPT !.pc = "deliver", !.reply = Head(delayed)]) /\ delayed' = Tail(delayed)
    BY ZenonT(60), <1>2, <1>3, <1>6, <2>1 DEF ReturnDelayed, Moved, Calls, Served
  <2>3. delayed' \in Seq(Replies \cup {NoReply}) /\ \A n \in 1 .. Len(delayed') : Honest(delayed'[n])
    BY <1>6, <2>2, HeadReply DEF ReturnDelayed, OnceInv, Answers
  <2>4. Wire'
    BY ZenonT(60), <2>3, <1>4 DEF OnceInv, Types, Answers, Wire, Honest
  <2> QED BY ZenonT(60), <2>2, <2>4, <1>4, MoveCall
<1>7. CASE Sent(t, call)
  <2>1. PICK act \in SentActions :
            /\ act = "reorder" => delayed # <<>>
            /\ calls' = [calls EXCEPT ![t] =
                   [call EXCEPT !.pc = "check", !.act = act,
                                !.kept = IF act = "reorder" THEN Head(delayed) ELSE NoReply]]
            /\ delayed' = IF act = "reorder" THEN Tail(delayed) ELSE delayed
    BY ZenonT(60), <1>7 DEF Sent
  <2> DEFINE held == IF act = "reorder" THEN Head(delayed) ELSE NoReply
  <2>2. Honest(held) /\ held \in Replies \cup {NoReply}
    BY ZenonT(60), <2>1, HeadReply DEF OnceInv, Answers, Honest, NoReply
  <2>3. Moved(t, [call EXCEPT !.pc = "check", !.act = act, !.kept = held])
    BY ZenonT(60), <1>2, <1>3, <2>1, <2>2 DEF Moved, Calls, Served
  <2>4. delayed' \in Seq(Replies \cup {NoReply}) /\ \A n \in 1 .. Len(delayed') : Honest(delayed'[n])
    BY <2>1, HeadReply DEF OnceInv, Answers, Types
  <2>5. Wire'
    BY <2>4, <1>4 DEF OnceInv, Types, Answers, Wire, Honest
  <2> QED BY <2>3, <2>5, <1>4, MoveCall
<1> QED BY ZenonT(60), <1>0, <1>5, <1>6, <1>7 DEF call

\* What the invariant says of one call.
LEMMA CallFacts ==
    ASSUME OnceInv, NEW t \in Threads
    PROVE  /\ calls[t] \in Calls /\ incarnation \in Incarnations /\ incarnation \in Nat
           /\ calls[t].inc <= incarnation /\ calls[t].on <= incarnation
           /\ calls[t].pc \in Served => calls[t].on = calls[t].inc
           /\ calls[t].pc \in {"remember", "leave", "store"} => calls[t].reply \in Replies
           /\ Honest(calls[t].reply) /\ Honest(calls[t].kept)
<1>1. calls[t] \in Calls /\ incarnation \in Incarnations /\ incarnation \in Nat
  BY TransportAssumption DEF OnceInv, Types, Incarnations
<1> QED BY ZenonT(60), <1>1 DEF OnceInv, Expected, Answers

\* A step that leaves the wire and the endpoint's cache alone.
LEMMA WireSame ==
    ASSUME OnceInv, UNCHANGED <<next_request_id, delayed, cache, applied>>
    PROVE  Wire'
  BY DEF OnceInv, Types, Answers, Wire, Honest

\* remote.rs, handle_wire: refusing a stale or late request, or taking it.
LEMMA CheckWireOnce ==
    ASSUME OnceInv, NEW t \in Threads, CheckWire(t)
    PROVE  OnceInv'
<1> DEFINE call == calls[t]
           refused == [call EXCEPT !.pc = "deliver", !.reply = Reply(FALSE, call.env)]
           taken == [call EXCEPT !.on = incarnation, !.pc = "admit"]
<1>1. /\ call.pc = "check"
      /\ UNCHANGED <<next_request_id, delayed, cache, incarnation, stripes, responses, applied>>
      /\ \/ calls' = [calls EXCEPT ![t] = refused]
         \/ call.inc = incarnation /\ calls' = [calls EXCEPT ![t] = taken]
  BY ZenonT(60) DEF CheckWire, At, endpoint, server
<1>2. ~Running(t)
  BY <1>1 DEF Running, At
<1>3. refused \in Calls /\ taken \in Calls
  BY ZenonT(60), CallFacts DEF Calls, Replies, Reply
<1>4. CASE calls' = [calls EXCEPT ![t] = refused]
  <2>1. Moved(t, refused)
    BY ZenonT(60), <1>3, <1>4, CallFacts DEF Moved, Calls, Served, Reply, Honest
  <2> QED BY <1>1, <1>2, <2>1, WireSame, MoveCall
<1>5. CASE call.inc = incarnation /\ calls' = [calls EXCEPT ![t] = taken]
  <2>1. Moved(t, taken)
    BY <1>3, <1>5, CallFacts DEF Moved, Calls, Served
  <2> QED BY <1>1, <1>2, <2>1, WireSame, MoveCall
<1> QED BY ZenonT(60), <1>1, <1>4, <1>5

\* remote.rs, handle_wire: answering from the cache brings back only a reply that
\* was produced by an execution.
LEMMA AdmitOnce ==
    ASSUME OnceInv, NEW t \in Threads, Admit(t)
    PROVE  OnceInv'
<1> DEFINE call == calls[t]
           answered(r) == [call EXCEPT !.pc = "deliver", !.reply = r]
           let == [call EXCEPT !.pc = "enter"]
<1>1. /\ call.pc = "admit"
      /\ UNCHANGED <<next_request_id, delayed, cache, incarnation, stripes, responses, applied>>
      /\ \/ calls' = [calls EXCEPT ![t].pc = "deliver", ![t].reply = Reply(FALSE, call.env)]
         \/ /\ cache[call.env.id].known
            /\ calls' = [calls EXCEPT ![t].pc = "deliver", ![t].reply = cache[call.env.id].reply]
         \/ calls' = [calls EXCEPT ![t].pc = "enter"]
  BY ZenonT(60) DEF Admit, Serving, At, Answer, Goto, server
<1>2. ~Running(t)
  BY <1>1 DEF Running, At
<1>3. call \in Calls /\ call.env.id \in Ids
  BY CallFacts DEF Calls, Envelopes
<1>4. ASSUME NEW r \in Replies, Honest(r), calls' = [calls EXCEPT ![t].pc = "deliver", ![t].reply = r]
      PROVE  OnceInv'
  <2>1. answered(r) \in Calls
    BY ZenonT(60), <1>3 DEF Calls
  <2>2. calls' = [calls EXCEPT ![t] = answered(r)]
    BY ZenonT(60), <1>4
  <2>3. Moved(t, answered(r))
    BY ZenonT(60), <1>3, <1>4, <2>1, <2>2, CallFacts DEF Moved, Calls, Served
  <2> QED BY ZenonT(60), <1>1, <1>2, <2>3, WireSame, MoveCall
<1>5. CASE calls' = [calls EXCEPT ![t].pc = "deliver", ![t].reply = Reply(FALSE, call.env)]
  <2>1. Reply(FALSE, call.env) \in Replies /\ Honest(Reply(FALSE, call.env))
    BY ZenonT(60), <1>3, CallFacts DEF Reply, Replies, Honest, Calls
  <2> QED BY ZenonT(60), <2>1, <1>4, <1>5
<1>6. CASE /\ cache[call.env.id].known
           /\ calls' = [calls EXCEPT ![t].pc = "deliver", ![t].reply = cache[call.env.id].reply]
  <2>1. cache[call.env.id].reply \in Replies /\ Honest(cache[call.env.id].reply)
    BY ZenonT(60), <1>3, <1>6 DEF OnceInv, Types, Answers
  <2> QED BY ZenonT(60), <2>1, <1>4, <1>6
<1>7. CASE calls' = [calls EXCEPT ![t].pc = "enter"]
  <2>1. let \in Calls /\ calls' = [calls EXCEPT ![t] = let]
    BY ZenonT(60), <1>3, <1>7 DEF Calls
  <2>2. Moved(t, let)
    BY ZenonT(60), <1>1, <1>3, <2>1, CallFacts DEF Moved, Calls, Served
  <2> QED BY ZenonT(60), <1>1, <1>2, <2>2, WireSame, MoveCall
<1> QED BY ZenonT(60), <1>1, <1>5, <1>6, <1>7

\* A call whose server is gone fails.
LEMMA BrokenOnce ==
    ASSUME OnceInv, NEW t \in Threads, Broken(t)
    PROVE  OnceInv'
<1> DEFINE c == [calls[t] EXCEPT !.pc = "deliver", !.reply = NoReply]
<1>1. /\ ~Running(t)
      /\ UNCHANGED <<next_request_id, delayed, cache, incarnation, stripes, responses, applied>>
      /\ calls' = [calls EXCEPT ![t] = c]
  BY ZenonT(60) DEF Broken, Running, Answer, endpoint, server
<1>2. c \in Calls
  BY ZenonT(60), CallFacts DEF Calls
<1>3. Moved(t, c)
  BY ZenonT(60), <1>1, <1>2, CallFacts DEF Moved, Calls, Served, Honest, NoReply
<1> QED BY <1>1, <1>3, WireSame, MoveCall

\* remote.rs: the request leaves the mailbox.
LEMMA LeaveOnce ==
    ASSUME OnceInv, NEW t \in Threads, Leave(t)
    PROVE  OnceInv'
<1> DEFINE c == [calls[t] EXCEPT !.pc = "store"]
<1>1. /\ calls[t].pc = "leave"
      /\ UNCHANGED <<next_request_id, delayed, cache, incarnation, stripes, responses, applied>>
      /\ calls' = [calls EXCEPT ![t] = c]
  BY DEF Leave, Serving, At, Goto, server
<1>2. c \in Calls /\ ~Running(t)
  BY <1>1, CallFacts DEF Calls, Running, At
<1>3. Moved(t, c)
  BY <1>1, <1>2, CallFacts DEF Moved, Calls, Served
<1> QED BY <1>1, <1>2, <1>3, WireSame, MoveCall

\* remote.rs, cache_reply: what goes into the cache is the reply of the server.
LEMMA StoreReplyOnce ==
    ASSUME OnceInv, NEW t \in Threads, StoreReply(t)
    PROVE  OnceInv'
<1> DEFINE call == calls[t]
           c == [call EXCEPT !.pc = "deliver"]
           entry == [known |-> TRUE, env |-> call.env, reply |-> call.reply]
<1>1. /\ call.pc = "store"
      /\ UNCHANGED <<next_request_id, delayed, incarnation, stripes, responses, applied>>
      /\ calls' = [calls EXCEPT ![t] = c]
      /\ \/ cache' = cache
         \/ \E gone : cache' = [i \in Ids |-> IF i \in gone THEN [known |-> FALSE]
                                             ELSE IF i = call.env.id THEN entry ELSE cache[i]]
  BY ZenonT(60) DEF StoreReply, Serving, At, Goto, server
<1>2. c \in Calls /\ ~Running(t) /\ call.env \in Envelopes
  BY <1>1, CallFacts DEF Calls, Running, At
<1>3. Moved(t, c)
  BY ZenonT(60), <1>1, <1>2, CallFacts DEF Moved, Calls, Served
<1>4. Wire'
  <2>1. CASE cache' = cache
    BY <1>1, <2>1, WireSame
  <2>2. ASSUME NEW gone, cache' = [i \in Ids |-> IF i \in gone THEN [known |-> FALSE]
                                             ELSE IF i = call.env.id THEN entry ELSE cache[i]]
        PROVE  Wire'
    <3>1. call.reply \in Replies /\ Honest(call.reply)
      BY <1>1, CallFacts
    <3>2. ASSUME NEW i \in Ids, cache'[i].known
          PROVE  cache'[i].env \in Envelopes /\ cache'[i].reply \in Replies /\ Honest(cache'[i].reply)
      BY ZenonT(60), <1>2, <2>2, <3>1, <3>2 DEF OnceInv, Types, Answers
    <3> QED BY ZenonT(60), <1>1, <2>2, <3>2 DEF OnceInv, Types, Answers, Wire, Honest
  <2> QED BY ZenonT(60), <1>1, <2>1, <2>2
<1> QED BY ZenonT(60), <1>1, <1>2, <1>3, <1>4, MoveCall

\* remote.rs, decode_response: how a call ends.
LEMMA ReturnedFacts ==
    ASSUME OnceInv, NEW t \in Threads, NEW r \in Replies \cup {NoReply}, Honest(r)
    PROVE  LET c == Returned(calls[t], r) IN
           /\ c \in Calls /\ c.pc = "idle"
           /\ c.inc = calls[t].inc /\ c.env = calls[t].env /\ c.on = calls[t].inc
           /\ c.reply = NoReply /\ c.kept = NoReply
           /\ c.outcome = IF Accepts(calls[t], r) THEN "ok" ELSE "failed"
<1>1. calls[t] \in Calls
  BY CallFacts
<1>2. CASE Accepts(calls[t], r)
  <2>1. r.env \in Envelopes
    BY <1>2 DEF Accepts, Replies, NoReply
  <2> QED BY ZenonT(60), <1>1, <1>2, <2>1 DEF Returned, Calls, SentActions
<1>3. CASE ~Accepts(calls[t], r)
  BY ZenonT(60), <1>1, <1>3 DEF Returned, Calls, SentActions
<1> QED BY <1>2, <1>3

\* What Deliver does: the call returns with some reply it may trust, or it is sent again.
LEMMA DeliverCases ==
    ASSUME OnceInv, NEW t \in Threads, Deliver(t)
    PROVE  /\ At(t, "deliver")
           /\ UNCHANGED <<next_request_id, cache, incarnation, stripes, responses, applied>>
           /\ \/ \E r \in Replies \cup {NoReply} :
                    Honest(r) /\ calls' = [calls EXCEPT ![t] = Returned(calls[t], r)]
              \/ calls' = [calls EXCEPT ![t] =
                    [calls[t] EXCEPT !.pc = "check", !.act = "again", !.kept = calls[t].reply,
                                     !.reply = NoReply]]
           /\ delayed' = delayed \/ delayed' = Append(delayed, calls[t].reply)
<1> DEFINE call == calls[t]
<1>1. /\ call \in Calls
      /\ call.reply \in Replies \cup {NoReply} /\ Honest(call.reply)
      /\ call.kept \in Replies \cup {NoReply} /\ Honest(call.kept)
      /\ call.act \in SentActions \cup {"again"}
      /\ NoReply \in Replies \cup {NoReply} /\ Honest(NoReply)
  BY ZenonT(60), CallFacts DEF Calls, Honest, NoReply
<1>2. At(t, "deliver") /\ UNCHANGED <<next_request_id, cache, incarnation, stripes, responses, applied>>
  BY ZenonT(60) DEF Deliver, endpoint, server
<1>3. CASE call.act = "pass"
  BY ZenonT(60), <1>1, <1>2, <1>3 DEF Deliver
<1>4. CASE call.act \in {"drop_response", "corrupt"}
  BY ZenonT(60), <1>1, <1>2, <1>4 DEF Deliver
<1>5. CASE call.act = "duplicate"
  BY <1>1, <1>2, <1>5 DEF Deliver
<1>6. CASE call.act = "again"
  <2>1. /\ calls' = [calls EXCEPT ![t] = Returned(call, IF call.reply = NoReply THEN NoReply ELSE call.kept)]
        /\ delayed' = delayed
    BY ZenonT(60), <1>6 DEF Deliver
  <2> QED BY ZenonT(60), <1>1, <1>2, <2>1
<1>7. CASE call.act = "delay"
  BY ZenonT(60), <1>1, <1>2, <1>7 DEF Deliver
<1>8. CASE call.act = "reorder"
  BY ZenonT(60), <1>1, <1>2, <1>8 DEF Deliver
<1> QED BY ZenonT(60), <1>1, <1>3, <1>4, <1>5, <1>6, <1>7, <1>8 DEF SentActions

\* chaos.rs, call_wire: what the wire makes of a reply, duplicates included.
LEMMA DeliverOnce ==
    ASSUME OnceInv, NEW t \in Threads, Deliver(t)
    PROVE  OnceInv'
<1> DEFINE call == calls[t]
           again == [call EXCEPT !.pc = "check", !.act = "again", !.kept = call.reply, !.reply = NoReply]
<1>1. ~Running(t)
  BY ZenonT(60), DeliverCases DEF Running, At
<1>2. call.reply \in Replies \cup {NoReply} /\ Honest(call.reply)
  BY SMTT(60), CallFacts DEF Calls
<1>3. Wire'
  <2>1. CASE delayed' = delayed
    BY ZenonT(60), <2>1, DeliverCases, WireSame
  <2>2. CASE delayed' = Append(delayed, call.reply)
    <3>1. delayed \in Seq(Replies \cup {NoReply}) /\ \A n \in 1 .. Len(delayed) : Honest(delayed[n])
      BY ZenonT(60) DEF OnceInv, Types, Answers
    <3>2. /\ delayed' \in Seq(Replies \cup {NoReply})
          /\ \A n \in 1 .. Len(delayed') : Honest(delayed'[n])
      BY SMTT(60), <1>2, <2>2, <3>1
    <3>3. UNCHANGED <<next_request_id, cache, applied>>
      BY ZenonT(60), DeliverCases
    <3> QED BY ZenonT(60), <3>2, <3>3 DEF OnceInv, Types, Answers, Wire, Honest
  <2> QED BY ZenonT(60), <2>1, <2>2, DeliverCases
<1>4. ASSUME NEW r \in Replies \cup {NoReply}, Honest(r),
             calls' = [calls EXCEPT ![t] = Returned(call, r)]
      PROVE  OnceInv'
  <2>0. /\ Returned(call, r) \in Calls /\ Returned(call, r).pc = "idle"
        /\ Returned(call, r).inc = call.inc /\ Returned(call, r).on = call.inc
        /\ Returned(call, r).reply = NoReply /\ Returned(call, r).kept = NoReply
    BY ZenonT(60), <1>4, ReturnedFacts
  <2>1. call.inc <= incarnation /\ Honest(NoReply)
    BY ZenonT(60), CallFacts DEF Honest, NoReply
  <2>2. Moved(t, Returned(call, r))
    BY <1>4, <2>0, <2>1 DEF Moved, Served
  <2> QED BY ZenonT(60), <1>1, <1>3, <2>2, DeliverCases, MoveCall
<1>5. CASE calls' = [calls EXCEPT ![t] = again]
  <2>1. again \in Calls
    BY ZenonT(60), <1>2, CallFacts DEF Calls
  <2>2. Moved(t, again)
    BY ZenonT(60), <1>2, <1>5, <2>1, CallFacts DEF Moved, Calls, Served, Honest, NoReply
  <2> QED BY ZenonT(60), <1>1, <1>3, <2>2, DeliverCases, MoveCall
<1> QED BY ZenonT(60), <1>4, <1>5, DeliverCases

\* What Enter does: it answers from memory, or applies the request under the stripe.
LEMMA EnterCases ==
    ASSUME NEW t, Enter(t)
    PROVE  LET e == calls[t].env IN
           /\ At(t, "enter") /\ calls[t].on = incarnation
           /\ stripes[StripeOf[e.target]] = NoThread
           /\ UNCHANGED <<next_request_id, delayed, cache, incarnation, responses>>
           /\ \/ /\ responses[e.id].known
                 /\ stripes' = stripes /\ applied' = applied
                 /\ \E r \in {responses[e.id].reply, Reply(FALSE, e)} :
                       calls' = [calls EXCEPT ![t].pc = "leave", ![t].reply = r]
              \/ /\ ~responses[e.id].known
                 /\ stripes' = [stripes EXCEPT ![StripeOf[e.target]] = t]
                 /\ applied' = [applied EXCEPT ![<<incarnation, e>>] = @ + 1]
                 /\ \E ok \in BOOLEAN :
                       calls' = [calls EXCEPT ![t].pc = "remember", ![t].reply = Reply(ok, e)]
  BY ZenonT(60) DEF Enter, Serving, Answer, endpoint

(***************************************************************************)
(* Steps of the server.                                                    *)
(***************************************************************************)
\* server.rs, handle: no other request for the target runs while the lock is
\* held, so a request that is not remembered has not been executed.
LEMMA EnterOnce ==
    ASSUME OnceInv, NEW t \in Threads, Enter(t)
    PROVE  OnceInv'
<1> DEFINE call == calls[t]
           e == call.env
<1>1. /\ call \in Calls /\ e \in Envelopes /\ e.id \in Ids /\ e.target \in Targets
      /\ incarnation \in Incarnations /\ incarnation \in Nat
      /\ call.on = incarnation /\ call.inc = incarnation /\ call.pc = "enter"
  BY ZenonT(60), CallFacts, EnterCases DEF Calls, Envelopes, At, Served
<1>2. UNCHANGED <<next_request_id, delayed, cache, incarnation, responses>> /\ ~Running(t)
  BY ZenonT(60), <1>1, EnterCases DEF Running, At
<1>3. CASE /\ responses[e.id].known
           /\ stripes' = stripes /\ applied' = applied
           /\ \E r \in {responses[e.id].reply, Reply(FALSE, e)} :
                 calls' = [calls EXCEPT ![t].pc = "leave", ![t].reply = r]
  <2>1. PICK r \in {responses[e.id].reply, Reply(FALSE, e)} :
            calls' = [calls EXCEPT ![t].pc = "leave", ![t].reply = r]
    BY ZenonT(60), <1>3
  <2>2. r \in Replies /\ Honest(r)
    <3>1. responses[e.id].reply \in Replies /\ Honest(responses[e.id].reply)
      BY ZenonT(60), <1>1, <1>3 DEF OnceInv, Types, Answers
    <3>2. Reply(FALSE, e) \in Replies /\ Honest(Reply(FALSE, e))
      BY <1>1 DEF Reply, Replies, Honest
    <3> QED BY ZenonT(60), <3>1, <3>2
  <2> DEFINE c == [call EXCEPT !.pc = "leave", !.reply = r]
  <2>3. c \in Calls /\ calls' = [calls EXCEPT ![t] = c]
    BY ZenonT(60), <1>1, <2>1, <2>2 DEF Calls
  <2>4. Moved(t, c)
    BY ZenonT(60), <1>1, <2>2, <2>3, CallFacts DEF Moved, Calls, Served
  <2> QED BY <1>2, <1>3, <2>4, WireSame, MoveCall
<1>4. CASE /\ ~responses[e.id].known
           /\ stripes' = [stripes EXCEPT ![StripeOf[e.target]] = t]
           /\ applied' = [applied EXCEPT ![<<incarnation, e>>] = @ + 1]
           /\ \E ok \in BOOLEAN :
                 calls' = [calls EXCEPT ![t].pc = "remember", ![t].reply = Reply(ok, e)]
  <2>1. PICK ok \in BOOLEAN : calls' = [calls EXCEPT ![t].pc = "remember", ![t].reply = Reply(ok, e)]
    BY ZenonT(60), <1>4
  <2> DEFINE c == [call EXCEPT !.pc = "remember", !.reply = Reply(ok, e)]
             s == StripeOf[e.target]
  <2>2. Reply(ok, e) \in Replies
    BY <1>1 DEF Reply, Replies
  <2>3. /\ c \in Calls /\ c.pc = "remember" /\ c.on = incarnation /\ c.inc = incarnation /\ c.env = e
        /\ c.reply = Reply(ok, e) /\ c.kept = call.kept
    BY ZenonT(60), <1>1, <2>2 DEF Calls
  <2>4. calls' \in [Threads -> Calls] /\ \A u \in Threads : calls'[u] = IF u = t THEN c ELSE calls[u]
    BY ZenonT(60), <2>1, <2>3 DEF OnceInv, Types
  <2>5. /\ stripes \in [Stripes -> Threads \cup {NoThread}] /\ s \in Stripes
        /\ applied \in [Incarnations \X Envelopes -> Nat]
        /\ <<incarnation, e>> \in Incarnations \X Envelopes
    BY ZenonT(60), <1>1 DEF OnceInv, Types, Stripes
  <2>6. stripes[s] = NoThread
    BY ZenonT(60), EnterCases
  <2>7. applied[<<incarnation, e>>] = 0
    <3>1. ~\E u \in Threads : Running(u) /\ calls[u].env = e
      <4>1. ASSUME NEW u \in Threads, Running(u), calls[u].env = e PROVE FALSE
        BY ZenonT(60), <2>6, <4>1, TransportAssumption DEF OnceInv, Locked
      <4> QED BY ZenonT(60), <4>1
    <3> QED BY ZenonT(60), <1>1, <1>4, <3>1 DEF OnceInv, Known
  <2>8. /\ applied' \in [Incarnations \X Envelopes -> Nat]
        /\ \A i \in Incarnations, d \in Envelopes :
              applied'[<<i, d>>] = IF i = incarnation /\ d = e THEN 1 ELSE applied[<<i, d>>]
    BY <1>4, <2>5, <2>7
  <2>9. \A r \in Replies \cup {NoReply} : Honest(r) => Honest(r)'
    <3> SUFFICES ASSUME NEW r \in Replies, r.ok, applied[<<r.inc, r.env>>] = 1
                 PROVE  applied'[<<r.inc, r.env>>] = 1
      BY DEF Honest, NoReply
    <3> QED BY ZenonT(60), <2>8 DEF Replies
  <2>10. \A r \in Replies : r = Reply(ok, e) => Honest(r)'
    BY <1>1, <2>8 DEF Honest, Reply
  <2>11. stripes' \in [Stripes -> Threads \cup {NoThread}] /\ stripes'[s] = t
         /\ \A q \in Stripes : q # s => stripes'[q] = stripes[q]
    BY ZenonT(60), <1>4, <2>5
  <2>12. Types'
    BY ZenonT(60), <1>2, <2>4, <2>8, <2>11 DEF OnceInv, Types
  <2>13. Expected'
    BY ZenonT(60), <1>1, <1>2, <2>2, <2>3, <2>4 DEF OnceInv, Expected, Served
  <2>14. \A u \in Threads : Running(u)' <=> u = t \/ Running(u)
    BY ZenonT(60), <1>1, <1>2, <2>3, <2>4 DEF Running, At
  <2>15. Locked'
    <3> SUFFICES ASSUME NEW u \in Threads, Running(u)'
                 PROVE  stripes'[StripeOf[calls'[u].env.target]] = u
      BY DEF Locked
    <3>1. CASE u = t
      BY ZenonT(60), <3>1, <2>3, <2>4, <2>11
    <3>2. CASE u # t
      <4>1. Running(u) /\ calls'[u] = calls[u] /\ calls[u].env.target \in Targets
        BY ZenonT(60), <3>2, <2>14, <2>4, CallFacts DEF Calls, Envelopes
      <4>2. stripes[StripeOf[calls[u].env.target]] = u
        BY ZenonT(60), <4>1 DEF OnceInv, Locked
      <4>3. StripeOf[calls[u].env.target] # s /\ StripeOf[calls[u].env.target] \in Stripes
        BY ZenonT(60), <2>6, <4>1, <4>2, TransportAssumption DEF Stripes
      <4> QED BY ZenonT(60), <2>11, <4>1, <4>2, <4>3
    <3> QED BY <3>1, <3>2
  <2>16. Known'
    <3> SUFFICES ASSUME NEW d \in Envelopes, applied'[<<incarnation, d>>] # 0
                 PROVE  responses[d.id].known \/ \E u \in Threads : Running(u)' /\ calls'[u].env = d
      BY <1>2 DEF Known
    <3>1. CASE d = e
      BY ZenonT(60), <3>1, <2>3, <2>4, <2>14
    <3>2. CASE d # e
      <4>1. applied[<<incarnation, d>>] # 0
        BY ZenonT(60), <1>1, <3>2, <2>8
      <4>2. responses[d.id].known \/ \E u \in Threads : Running(u) /\ calls[u].env = d
        BY ZenonT(60), <4>1 DEF OnceInv, Known
      <4> QED BY ZenonT(60), <1>2, <2>4, <2>14, <4>2
    <3> QED BY ZenonT(60), <3>1, <3>2
  <2>17. Future'
    BY <1>1, <1>2, <2>8 DEF OnceInv, Future
  <2>18. AppliedOnce'
    BY <2>8 DEF OnceInv, AppliedOnce
  <2>19. Answers'
    <3>1. \A u \in Threads : (Honest(calls[u].reply) /\ Honest(calls[u].kept))'
      <4> SUFFICES ASSUME NEW u \in Threads PROVE (Honest(calls[u].reply) /\ Honest(calls[u].kept))'
        BY ZenonT(60)
      <4>1. /\ calls[u].reply \in Replies \cup {NoReply} /\ Honest(calls[u].reply)
            /\ calls[u].kept \in Replies \cup {NoReply} /\ Honest(calls[u].kept)
        BY ZenonT(60), CallFacts DEF Calls
      <4>2. PICK q \in Replies \cup {NoReply}, k \in Replies \cup {NoReply} :
                /\ q = IF u = t THEN Reply(ok, e) ELSE calls[u].reply
                /\ k = calls[u].kept
        BY ZenonT(60), <2>2, <4>1
      <4>3. calls'[u].reply = q /\ calls'[u].kept = k
        BY ZenonT(60), <2>3, <2>4, <4>2
      <4>4. Honest(q)' /\ Honest(k)'
        BY ZenonT(60), <2>2, <2>9, <2>10, <4>1, <4>2
      <4> QED BY ZenonT(60), <4>3, <4>4 DEF Honest
    <3>2. \A n \in 1 .. Len(delayed) : delayed[n] \in Replies \cup {NoReply} /\ Honest(delayed[n])
      <4>1. delayed \in Seq(Replies \cup {NoReply})
        BY ZenonT(60) DEF OnceInv, Types
      <4>2. \A n \in 1 .. Len(delayed) : Honest(delayed[n])
        BY ZenonT(60) DEF OnceInv, Answers
      <4> QED BY <4>1, <4>2
    <3>3. \A i \in Ids : cache[i].known => cache[i].reply \in Replies /\ Honest(cache[i].reply)
      BY ZenonT(60) DEF OnceInv, Types, Answers
    <3>4. \A i \in Ids : responses[i].known => responses[i].reply \in Replies /\ Honest(responses[i].reply)
      BY ZenonT(60) DEF OnceInv, Types, Answers
    <3>5. \A n \in 1 .. Len(delayed) : delayed[n].ok => applied'[<<delayed[n].inc, delayed[n].env>>] = 1
      BY ZenonT(60), <2>9, <3>2 DEF Honest
    <3>6. \A i \in Ids : cache[i].known =>
              (cache[i].reply.ok => applied'[<<cache[i].reply.inc, cache[i].reply.env>>] = 1)
      BY ZenonT(60), <2>9, <3>3 DEF Honest
    <3>7. \A i \in Ids : responses[i].known =>
              (responses[i].reply.ok => applied'[<<responses[i].reply.inc, responses[i].reply.env>>] = 1)
      BY <2>9, <3>4 DEF Honest
    <3> QED BY ZenonT(60), <1>2, <3>1, <3>5, <3>6, <3>7 DEF Answers, Honest
  <2> QED BY ZenonT(60), <2>12, <2>13, <2>15, <2>16, <2>17, <2>18, <2>19 DEF OnceInv
<1> QED BY ZenonT(60), <1>3, <1>4, EnterCases

\* server.rs, remember_response: the result is remembered before the lock is
\* released.
LEMMA RememberOnce ==
    ASSUME OnceInv, NEW t \in Threads, Remember(t)
    PROVE  OnceInv'
<1> DEFINE call == calls[t]
           e == call.env
           s == StripeOf[e.target]
           entry == [known |-> TRUE, env |-> e, reply |-> call.reply]
<1>1. /\ At(t, "remember") /\ call.on = incarnation
      /\ responses' = [responses EXCEPT ![e.id] = entry]
      /\ stripes' = [stripes EXCEPT ![s] = NoThread]
      /\ calls' = [calls EXCEPT ![t].pc = "leave"]
      /\ UNCHANGED <<next_request_id, delayed, cache, incarnation, applied>>
  BY ZenonT(60) DEF Remember, Serving, Goto, endpoint
<1>2. /\ call \in Calls /\ e \in Envelopes /\ e.id \in Ids /\ e.target \in Targets /\ s \in Stripes
      /\ call.inc <= incarnation /\ call.on <= incarnation /\ call.on = call.inc
      /\ call.reply \in Replies /\ Honest(call.reply) /\ Honest(call.kept)
  BY ZenonT(60), <1>1, CallFacts DEF Calls, Envelopes, Stripes, At, Served
<1>3. /\ calls \in [Threads -> Calls] /\ stripes \in [Stripes -> Threads \cup {NoThread}]
      /\ DOMAIN responses = Ids
  BY ZenonT(60) DEF OnceInv, Types
<1> DEFINE c == [call EXCEPT !.pc = "leave"]
<1>4. /\ c \in Calls /\ c.pc = "leave" /\ c.on = call.on /\ c.inc = call.inc /\ c.env = e
      /\ c.reply = call.reply /\ c.kept = call.kept
  BY ZenonT(60), <1>2 DEF Calls
<1>5. calls' \in [Threads -> Calls] /\ \A u \in Threads : calls'[u] = IF u = t THEN c ELSE calls[u]
  BY ZenonT(60), <1>1, <1>3, <1>4
<1>6. /\ DOMAIN responses' = Ids /\ responses'[e.id] = entry
      /\ \A i \in Ids : i # e.id => responses'[i] = responses[i]
  BY ZenonT(60), <1>1, <1>2, <1>3
<1>7. /\ stripes' \in [Stripes -> Threads \cup {NoThread}]
      /\ \A q \in Stripes : q # s => stripes'[q] = stripes[q]
  BY ZenonT(60), <1>1, <1>3
<1>8. entry.known /\ entry.env = e /\ entry.reply = call.reply
  OBVIOUS
<1> HIDE DEF entry, c
<1>9. \A i \in Ids : responses'[i].known =>
          responses'[i].env \in Envelopes /\ responses'[i].reply \in Replies
  BY ZenonT(60), <1>2, <1>6, <1>8 DEF OnceInv, Types
<1>10. Types'
  BY ZenonT(60), <1>1, <1>5, <1>6, <1>7, <1>9 DEF OnceInv, Types
<1>11. Expected'
  BY ZenonT(60), <1>1, <1>2, <1>4, <1>5 DEF OnceInv, Expected, Served
<1>12. \A u \in Threads : Running(u)' <=> u # t /\ Running(u)
  BY ZenonT(60), <1>1, <1>4, <1>5 DEF Running, At
<1>13. Locked'
  <2> SUFFICES ASSUME NEW u \in Threads, Running(u)'
               PROVE  stripes'[StripeOf[calls'[u].env.target]] = u
    BY ZenonT(60) DEF Locked
  <2>1. /\ u # t /\ Running(u) /\ Running(t) /\ calls'[u] = calls[u]
        /\ calls[u].env.target \in Targets
    BY ZenonT(60), <1>1, <1>5, <1>12, CallFacts DEF Calls, Envelopes, Running
  <2>2. stripes[StripeOf[calls[u].env.target]] = u /\ stripes[s] = t
    BY ZenonT(60), <2>1 DEF OnceInv, Locked
  <2>3. StripeOf[calls[u].env.target] # s /\ StripeOf[calls[u].env.target] \in Stripes
    BY ZenonT(60), <2>1, <2>2 DEF Stripes
  <2> QED BY ZenonT(60), <1>7, <2>1, <2>2, <2>3
<1>14. Known'
  <2> SUFFICES ASSUME NEW d \in Envelopes, applied[<<incarnation, d>>] # 0
               PROVE  responses'[d.id].known \/ \E u \in Threads : Running(u)' /\ calls'[u].env = d
    BY <1>1 DEF Known
  <2>1. responses[d.id].known \/ \E u \in Threads : Running(u) /\ calls[u].env = d
    BY ZenonT(60) DEF OnceInv, Known
  <2>2. CASE responses[d.id].known
    BY ZenonT(60), <1>6, <1>8, <2>2 DEF Envelopes
  <2>3. ASSUME NEW u \in Threads, Running(u), calls[u].env = d
        PROVE  responses'[d.id].known \/ (Running(u)' /\ calls'[u].env = d)
    <3>1. CASE u = t
      <4>1. d = e
        BY ZenonT(60), <2>3, <3>1
      <4>2. responses'[d.id] = entry
        BY ZenonT(60), <1>6, <4>1
      <4>3. responses'[d.id].known
        BY ZenonT(60), <1>8, <4>2
      <4> QED BY ZenonT(60), <4>3
    <3>2. CASE u # t
      BY ZenonT(60), <1>5, <1>12, <2>3, <3>2
    <3> QED BY ZenonT(60), <3>1, <3>2
  <2> QED BY ZenonT(60), <2>1, <2>2, <2>3
<1>15. Future' /\ AppliedOnce'
  BY ZenonT(60), <1>1 DEF OnceInv, Future, AppliedOnce
<1>16. Answers'
  <2>1. \A i \in Ids : responses'[i].known => Honest(responses[i].reply)'
    BY ZenonT(60), <1>1, <1>2, <1>6, <1>8 DEF OnceInv, Answers, Honest
  <2>2. ASSUME NEW u \in Threads
        PROVE  (Honest(calls[u].reply) /\ Honest(calls[u].kept))'
    <3>1. calls'[u].reply = calls[u].reply /\ calls'[u].kept = calls[u].kept
      BY ZenonT(60), <1>4, <1>5
    <3>2. Honest(calls[u].reply) /\ Honest(calls[u].kept)
      BY ZenonT(60) DEF OnceInv, Answers
    <3> QED BY ZenonT(60), <1>1, <3>1, <3>2 DEF Honest
  <2> QED BY ZenonT(60), <1>1, <2>1, <2>2 DEF OnceInv, Answers, Honest
<1> QED BY <1>10, <1>11, <1>13, <1>14, <1>15, <1>16 DEF OnceInv

\* A new incarnation has executed nothing, whatever calls are under way.
LEMMA RestartOnce ==
    ASSUME OnceInv, Restart
    PROVE  OnceInv'
<1>1. /\ incarnation < MaxIncarnation /\ incarnation' = incarnation + 1
      /\ cache' = [i \in Ids |-> [known |-> FALSE]]
      /\ stripes' = [s \in Stripes |-> NoThread]
      /\ responses' = [i \in Ids |-> [known |-> FALSE]]
      /\ UNCHANGED <<next_request_id, calls, delayed, applied>>
  BY ZenonT(60) DEF Restart, EmptyEndpoint
<1>2. incarnation \in Nat /\ incarnation' \in Incarnations
  BY <1>1, TransportAssumption DEF OnceInv, Types, Incarnations
<1>3. \A i \in Ids : ~cache'[i].known /\ ~responses'[i].known
  BY SMTT(60), <1>1
<1>4. Types'
  BY ZenonT(60), <1>1, <1>2, <1>3 DEF OnceInv, Types
<1>5. \A u \in Threads : calls[u].inc \in Nat /\ calls[u].on \in Nat
  BY CallFacts DEF Calls, Incarnations
<1>6. Expected'
  BY <1>1, <1>2, <1>5 DEF OnceInv, Expected
<1>7. \A u \in Threads : ~Running(u)'
  BY <1>1, <1>2, <1>5 DEF OnceInv, Expected, Running
<1>8. Locked'
  BY ZenonT(60), <1>7 DEF Locked
<1>9. Known' /\ Future' /\ AppliedOnce'
  BY SMTT(60), <1>1, <1>2 DEF OnceInv, Known, Future, AppliedOnce, Incarnations
<1>10. Answers'
  BY ZenonT(60), <1>1, <1>3 DEF OnceInv, Answers, Honest
<1> QED BY ZenonT(60), <1>4, <1>6, <1>8, <1>9, <1>10 DEF OnceInv

\* Steps that change only counters, the clock or the shutdown flag.
LEMMA SameOnce ==
    ASSUME OnceInv,
           UNCHANGED <<next_request_id, calls, delayed, cache, incarnation, stripes, responses, applied>>
    PROVE  OnceInv'
BY ZenonT(60) DEF OnceInv, Types, Expected, Locked, Known, Future, AppliedOnce, Answers, Honest,
   Running, At

\* client.rs: a new request has the next id of its client.
LEMMA NewRequestOnce ==
    ASSUME OnceInv, NEW t \in Threads, NEW c \in Clients, NewRequest(t, c)
    PROVE  OnceInv'
<1>1. /\ next_request_id[c] <= MaxId
      /\ next_request_id' = [next_request_id EXCEPT ![c] = @ + 1]
  BY DEF NewRequest
<1>2. PICK d \in Opens[c], limit \in Deadlines :
          CallWire(t, [client |-> c, id |-> next_request_id[c], target |-> d, deadline |-> limit])
  BY SMTT(60) DEF NewRequest
<1>3. next_request_id \in [Clients -> 1 .. MaxId + 1] /\ d \in Targets
  BY ZenonT(60), TransportAssumption DEF OnceInv, Types
<1>4. next_request_id' \in [Clients -> 1 .. MaxId + 1] /\ next_request_id[c] \in Ids
  BY SMTT(60), <1>1, <1>3, TransportAssumption DEF Ids
<1>5. [client |-> c, id |-> next_request_id[c], target |-> d, deadline |-> limit] \in Envelopes
  BY ZenonT(60), <1>3, <1>4 DEF Envelopes
<1> QED BY SMTT(60), <1>2, <1>4, <1>5, CallWireOnce

\* A retry sends an envelope that was sent before.
LEMMA RetryOnce ==
    ASSUME OnceInv, NEW t \in Threads, Retry(t)
    PROVE  OnceInv'
<1>1. PICK u \in Threads : CallWire(t, calls[u].env)
  BY ZenonT(60) DEF Retry
<1>2. next_request_id' = next_request_id /\ next_request_id \in [Clients -> 1 .. MaxId + 1]
  BY DEF Retry, OnceInv, Types
<1>3. calls[u].env \in Envelopes
  BY CallFacts DEF Calls
<1> QED BY ZenonT(60), <1>1, <1>2, <1>3, CallWireOnce

\* Every step of every thread keeps the invariant.
LEMMA NextOnce == OnceInv /\ [TNext]_tvars => OnceInv'
<1> SUFFICES ASSUME OnceInv, [TNext]_tvars PROVE OnceInv'
  BY ZenonT(60)
<1>1. ASSUME NEW t \in Threads, Proceed(t) PROVE OnceInv'
  BY ZenonT(60), <1>1, CheckWireOnce, AdmitOnce, EnterOnce, RememberOnce, LeaveOnce,
     StoreReplyOnce, DeliverOnce, BrokenOnce DEF Proceed
<1>2. CASE SetShutdown
  BY <1>2, SameOnce DEF SetShutdown, server
<1>3. CASE SetLogicalTime
  BY <1>3, SameOnce DEF SetLogicalTime, server
<1>4. CASE UNCHANGED tvars
  BY <1>4, SameOnce DEF tvars, endpoint, server
<1> QED BY ZenonT(60), <1>1, <1>2, <1>3, <1>4, RestartOnce, RetryOnce, NewRequestOnce DEF TNext

\* The inductive invariant holds in every reachable state of clients, wire,
\* endpoint and server.
THEOREM OnceInvCorrect == TSpec => []OnceInv
<1>1. TInit => OnceInv
  BY InitOnce
<1> QED BY <1>1, NextOnce, PTL DEF TSpec

\* server.rs: duplicated, delayed and retried requests are executed at most once
\* by each incarnation, also when two copies arrive while the first one runs.
THEOREM AppliedOnceCorrect == TSpec => []AppliedOnce
<1>1. OnceInv => AppliedOnce
  BY DEF OnceInv
<1> QED BY <1>1, OnceInvCorrect, PTL

(***************************************************************************)
(* The refinement.                                                         *)
(***************************************************************************)
\* What a step of one call means for RequestOnce.
LEMMA AskedMoves ==
    ASSUME OnceInv, NEW t \in Threads, NEW c, calls' = [calls EXCEPT ![t] = c]
    PROVE  /\ c.pc # "idle" => Asked' = [Asked EXCEPT ![t] =
                  [inc |-> c.inc, env |-> c.env, state |-> "open"]]
           /\ c.pc = "idle" => Asked' = [Asked EXCEPT ![t] =
                  [inc |-> c.inc, env |-> c.env,
                   state |-> IF c.outcome = "ok" THEN "ok" ELSE "failed"]]
<1>1. calls \in [Threads -> Calls]
  BY DEF OnceInv, Types
<1>2. \A u \in Threads : calls'[u] = IF u = t THEN c ELSE calls[u]
  BY <1>1
<1> QED BY ZenonT(60), <1>2 DEF Asked, At

\* A call that is under way and stays so changes nothing there.
LEMMA AskedStays ==
    ASSUME OnceInv, NEW t \in Threads, NEW c, calls' = [calls EXCEPT ![t] = c],
           c.inc = calls[t].inc, c.env = calls[t].env, c.pc # "idle", calls[t].pc # "idle"
    PROVE  Asked' = Asked
<1>1. Asked' = [Asked EXCEPT ![t] = [inc |-> c.inc, env |-> c.env, state |-> "open"]]
  BY ZenonT(60), AskedMoves
<1>2. Asked[t] = [inc |-> c.inc, env |-> c.env, state |-> "open"]
  BY DEF Asked, At
<1> QED BY ZenonT(60), <1>1, <1>2 DEF Asked

\* call_wire starts a call of RequestOnce, whatever the wire does to it.
LEMMA AskStep ==
    ASSUME OnceInv, NEW t \in Threads, NEW e \in Envelopes, CallWire(t, e)
    PROVE  Once!Ask(t)
<1>0. PICK inc \in 1 .. incarnation :
          LET call == [calls[t] EXCEPT !.outcome = "failed", !.env = e, !.inc = inc] IN
          Lost(t, call) \/ ReturnDelayed(t, call) \/ Sent(t, call)
  BY ZenonT(60) DEF CallWire
<1> DEFINE call == [calls[t] EXCEPT !.outcome = "failed", !.env = e, !.inc = inc]
<1>1. calls[t] \in Calls /\ inc \in Incarnations /\ At(t, "idle") /\ applied' = applied
  BY TransportAssumption DEF OnceInv, Types, Incarnations, CallWire, server
<1>2. call \in Calls /\ call.env = e /\ call.inc = inc
  BY ZenonT(60), <1>1 DEF Calls
<1> HIDE DEF call
<1>3. \E c \in Calls : /\ calls' = [calls EXCEPT ![t] = c]
                       /\ c.env = e /\ c.inc = inc /\ c.pc # "idle"
  <2>1. CASE Lost(t, call)
    <3> DEFINE c == [call EXCEPT !.pc = "deliver"]
    <3>1. calls' = [calls EXCEPT ![t] = c]
      BY ZenonT(60), <2>1 DEF Lost
    <3>2. c \in Calls /\ c.env = e /\ c.inc = inc /\ c.pc = "deliver"
      BY ZenonT(60), <1>2 DEF Calls
    <3> HIDE DEF c
    <3> QED BY ZenonT(60), <3>1, <3>2
  <2>2. CASE ReturnDelayed(t, call)
    <3>1. Head(delayed) \in Replies \cup {NoReply}
      BY ZenonT(60), <2>2, HeadReply DEF ReturnDelayed, OnceInv
    <3> DEFINE c == [call EXCEPT !.pc = "deliver", !.reply = Head(delayed)]
    <3>2. calls' = [calls EXCEPT ![t] = c]
      BY ZenonT(60), <2>2 DEF ReturnDelayed
    <3>3. c \in Calls /\ c.env = e /\ c.inc = inc /\ c.pc = "deliver"
      BY ZenonT(60), <1>2, <3>1 DEF Calls
    <3> HIDE DEF c
    <3> QED BY ZenonT(60), <3>2, <3>3
  <2>3. CASE Sent(t, call)
    <3>1. PICK act \in SentActions :
              /\ act = "reorder" => delayed # <<>>
              /\ calls' = [calls EXCEPT ![t] =
                     [call EXCEPT !.pc = "check", !.act = act,
                                  !.kept = IF act = "reorder" THEN Head(delayed) ELSE NoReply]]
      BY ZenonT(60), <2>3 DEF Sent
    <3> DEFINE held == IF act = "reorder" THEN Head(delayed) ELSE NoReply
    <3>2. held \in Replies \cup {NoReply}
      BY <3>1, HeadReply DEF OnceInv
    <3> DEFINE c == [call EXCEPT !.pc = "check", !.act = act, !.kept = held]
    <3>3. c \in Calls /\ c.env = e /\ c.inc = inc /\ c.pc = "check"
      BY ZenonT(60), <1>2, <3>2 DEF Calls
    <3>4. calls' = [calls EXCEPT ![t] = c]
      BY <3>1
    <3> HIDE DEF c
    <3> QED BY ZenonT(60), <3>3, <3>4
  <2> QED BY <1>0, <2>1, <2>2, <2>3 DEF call
<1>4. Asked' = [Asked EXCEPT ![t] = [inc |-> inc, env |-> e, state |-> "open"]]
  BY ZenonT(60), <1>3, AskedMoves
<1>5. Asked[t].state # "open"
  BY <1>1 DEF Asked
<1> QED BY ZenonT(60), <1>1, <1>4, <1>5 DEF Once!Ask

\* The server's handle is the moment a request is applied.
LEMMA ApplyStep ==
    ASSUME OnceInv, AppliedOnce', NEW t \in Threads, Enter(t)
    PROVE  UNCHANGED <<applied, Asked>> \/ Once!Apply(t)
<1> DEFINE e == calls[t].env
<1>1. /\ calls[t] \in Calls /\ e \in Envelopes /\ incarnation \in Incarnations
      /\ calls[t].pc = "enter" /\ calls[t].inc = incarnation
  BY ZenonT(60), CallFacts, EnterCases DEF Calls, At, Served
<1>2. ASSUME NEW p \in {"leave", "remember"}, NEW r,
             calls' = [calls EXCEPT ![t].pc = p, ![t].reply = r]
      PROVE  Asked' = Asked
  <2> DEFINE c == [calls[t] EXCEPT !.pc = p, !.reply = r]
  <2>1. /\ calls' = [calls EXCEPT ![t] = c]
        /\ c.inc = calls[t].inc /\ c.env = calls[t].env /\ c.pc # "idle"
    BY ZenonT(60), <1>1, <1>2 DEF Calls
  <2> QED BY ZenonT(60), <1>1, <2>1, AskedStays
<1>3. CASE applied' = applied
           /\ \E r : calls' = [calls EXCEPT ![t].pc = "leave", ![t].reply = r]
  BY ZenonT(60), <1>2, <1>3
<1>4. CASE /\ applied' = [applied EXCEPT ![<<incarnation, e>>] = @ + 1]
           /\ \E r : calls' = [calls EXCEPT ![t].pc = "remember", ![t].reply = r]
  <2>1. Asked' = Asked
    BY ZenonT(60), <1>2, <1>4
  <2>2. /\ applied \in [Incarnations \X Envelopes -> Nat]
        /\ <<incarnation, e>> \in Incarnations \X Envelopes
    BY <1>1 DEF OnceInv, Types
  <2>3. applied'[<<incarnation, e>>] = applied[<<incarnation, e>>] + 1
        /\ applied'[<<incarnation, e>>] <= 1 /\ applied[<<incarnation, e>>] \in Nat
    BY <1>4, <2>2 DEF AppliedOnce
  <2>4. applied[<<incarnation, e>>] = 0 /\ applied' = [applied EXCEPT ![<<incarnation, e>>] = 1]
    <3>1. applied[<<incarnation, e>>] = 0 /\ applied[<<incarnation, e>>] + 1 = 1
      BY <2>3
    <3> QED BY ZenonT(60), <1>4, <3>1
  <2>5. Asked[t].inc = incarnation /\ Asked[t].env = e /\ Asked[t].state = "open"
    BY ZenonT(60), <1>1 DEF Asked, At
  <2> QED BY <2>1, <2>4, <2>5 DEF Once!Apply
<1> QED BY ZenonT(60), <1>3, <1>4, EnterCases

\* decode_response decides whether a call succeeds: it may only if a request
\* with its id was applied by the incarnation the call expects.
LEMMA ReturnStep ==
    ASSUME OnceInv, NEW t \in Threads, Deliver(t)
    PROVE  UNCHANGED <<applied, Asked>> \/ Once!Succeed(t) \/ Once!Fail(t)
<1> DEFINE call == calls[t]
<1>1. call \in Calls /\ call.pc = "deliver" /\ applied' = applied
  BY ZenonT(60), CallFacts, DeliverCases DEF At
<1>2. Asked[t] = [inc |-> call.inc, env |-> call.env, state |-> "open"]
  BY <1>1 DEF Asked, At
<1>3. ASSUME NEW r \in Replies \cup {NoReply}, Honest(r),
             calls' = [calls EXCEPT ![t] = Returned(call, r)]
      PROVE  Once!Succeed(t) \/ Once!Fail(t)
  <2> DEFINE c == Returned(call, r)
  <2>1. /\ c.pc = "idle" /\ c.inc = call.inc /\ c.env = call.env
        /\ c.outcome = IF Accepts(call, r) THEN "ok" ELSE "failed"
    BY SMTT(60), <1>3, ReturnedFacts
  <2> HIDE DEF c
  <2>2. Asked' = [Asked EXCEPT ![t] = [inc |-> call.inc, env |-> call.env,
                      state |-> IF c.outcome = "ok" THEN "ok" ELSE "failed"]]
    BY ZenonT(60), <1>3, <2>1, AskedMoves DEF c
  <2>3. CASE Accepts(call, r)
    <3>1. Asked' = [Asked EXCEPT ![t].state = "ok"]
      BY ZenonT(60), <1>2, <2>1, <2>2, <2>3 DEF Asked
    <3>2. r.env \in Envelopes /\ SameRequestId(r.env, call.env) /\ applied[<<call.inc, r.env>>] = 1
      BY <1>3, <2>3 DEF Accepts, Replies, NoReply, SameRequestId, Honest
    <3> QED BY <1>1, <1>2, <3>1, <3>2 DEF Once!Succeed
  <2>4. CASE ~Accepts(call, r)
    <3>1. Asked' = [Asked EXCEPT ![t].state = "failed"]
      BY ZenonT(60), <1>2, <2>1, <2>2, <2>4 DEF Asked
    <3> QED BY <1>1, <1>2, <3>1 DEF Once!Fail
  <2> QED BY ZenonT(60), <2>3, <2>4
<1>4. CASE calls' = [calls EXCEPT ![t] =
               [call EXCEPT !.pc = "check", !.act = "again", !.kept = call.reply, !.reply = NoReply]]
  <2> DEFINE c == [call EXCEPT !.pc = "check", !.act = "again", !.kept = call.reply, !.reply = NoReply]
  <2>1. c.inc = call.inc /\ c.env = call.env /\ c.pc = "check"
    BY <1>1 DEF Calls
  <2> QED BY ZenonT(60), <1>1, <1>4, <2>1, AskedStays
<1> QED BY ZenonT(60), <1>3, <1>4, DeliverCases

\* The other steps of the endpoint and the server are invisible.
LEMMA QuietStep ==
    ASSUME OnceInv, NEW t \in Threads,
           CheckWire(t) \/ Admit(t) \/ Remember(t) \/ Leave(t) \/ StoreReply(t) \/ Broken(t)
    PROVE  UNCHANGED <<applied, Asked>>
<1>1. calls[t] \in Calls
  BY ZenonT(60), CallFacts
<1>2. ASSUME NEW c, calls' = [calls EXCEPT ![t] = c], c.inc = calls[t].inc, c.env = calls[t].env,
             c.pc # "idle", calls[t].pc # "idle"
      PROVE  Asked' = Asked
  BY ZenonT(60), <1>2, AskedStays
<1>3. ASSUME NEW p \in {"enter", "leave", "store", "deliver"}, calls[t].pc # "idle",
             \/ calls' = [calls EXCEPT ![t].pc = p]
             \/ \E r : calls' = [calls EXCEPT ![t].pc = p, ![t].reply = r]
      PROVE  Asked' = Asked
  <2>1. CASE calls' = [calls EXCEPT ![t].pc = p]
    <3> DEFINE c == [calls[t] EXCEPT !.pc = p]
    <3>1. /\ calls' = [calls EXCEPT ![t] = c]
          /\ c.inc = calls[t].inc /\ c.env = calls[t].env /\ c.pc # "idle"
      BY ZenonT(60), <1>1, <2>1 DEF Calls
    <3> QED BY ZenonT(60), <1>2, <1>3, <3>1
  <2>2. ASSUME NEW r, calls' = [calls EXCEPT ![t].pc = p, ![t].reply = r]
        PROVE  Asked' = Asked
    <3> DEFINE c == [calls[t] EXCEPT !.pc = p, !.reply = r]
    <3>1. /\ calls' = [calls EXCEPT ![t] = c]
          /\ c.inc = calls[t].inc /\ c.env = calls[t].env /\ c.pc # "idle"
      BY ZenonT(60), <1>1, <2>2 DEF Calls
    <3> QED BY ZenonT(60), <1>2, <1>3, <3>1
  <2> QED BY <1>3, <2>1, <2>2
<1>4. CASE CheckWire(t)
  <2> DEFINE refused == [calls[t] EXCEPT !.pc = "deliver", !.reply = Reply(FALSE, calls[t].env)]
             taken == [calls[t] EXCEPT !.on = incarnation, !.pc = "admit"]
  <2>1. /\ calls[t].pc = "check" /\ applied' = applied
        /\ calls' = [calls EXCEPT ![t] = refused] \/ calls' = [calls EXCEPT ![t] = taken]
    BY ZenonT(60), <1>4 DEF CheckWire, At, server
  <2>2. /\ refused.inc = calls[t].inc /\ refused.env = calls[t].env /\ refused.pc # "idle"
        /\ taken.inc = calls[t].inc /\ taken.env = calls[t].env /\ taken.pc # "idle"
    BY <1>1 DEF Calls
  <2> HIDE DEF refused, taken
  <2> QED BY <1>2, <2>1, <2>2
<1>5. CASE Admit(t)
  <2>1. /\ calls[t].pc = "admit" /\ applied' = applied
        /\ \/ \E r : calls' = [calls EXCEPT ![t].pc = "deliver", ![t].reply = r]
           \/ calls' = [calls EXCEPT ![t].pc = "enter"]
    BY ZenonT(60), <1>5 DEF Admit, Serving, At, Answer, Goto, server
  <2> QED BY ZenonT(60), <1>3, <2>1
<1>6. CASE Remember(t)
  <2>1. /\ calls[t].pc = "remember" /\ applied' = applied
        /\ calls' = [calls EXCEPT ![t].pc = "leave"]
    BY <1>6 DEF Remember, Serving, At, Goto
  <2> QED BY ZenonT(60), <1>3, <2>1
<1>7. CASE Leave(t)
  <2>1. calls[t].pc = "leave" /\ applied' = applied /\ calls' = [calls EXCEPT ![t].pc = "store"]
    BY <1>7 DEF Leave, Serving, At, Goto, server
  <2> QED BY <1>3, <2>1
<1>8. CASE StoreReply(t)
  <2>1. calls[t].pc = "store" /\ applied' = applied /\ calls' = [calls EXCEPT ![t].pc = "deliver"]
    BY <1>8 DEF StoreReply, Serving, At, Goto, server
  <2> QED BY ZenonT(60), <1>3, <2>1
<1>9. CASE Broken(t)
  <2>1. /\ calls[t].pc # "idle" /\ applied' = applied
        /\ calls' = [calls EXCEPT ![t].pc = "deliver", ![t].reply = NoReply]
    BY ZenonT(60), <1>9 DEF Broken, Answer, server
  <2> QED BY ZenonT(60), <1>3, <2>1
<1> QED BY ZenonT(60), <1>4, <1>5, <1>6, <1>7, <1>8, <1>9

\* The initial state is one of RequestOnce.
LEMMA InitRefines == TInit => Once!RInit
<1> SUFFICES ASSUME TInit PROVE Once!RInit
  BY ZenonT(60)
<1>1. SomeEnvelope \in Envelopes /\ 1 \in Incarnations
  BY SomeEnvelopeThere, TransportAssumption DEF Incarnations
<1>2. Asked = [t \in Threads |-> [inc |-> 1, env |-> SomeEnvelope, state |-> "failed"]]
  BY DEF TInit, Asked, At, NoCall
<1> QED BY ZenonT(60), <1>1, <1>2 DEF TInit, Once!RInit

\* Every step is a step of RequestOnce or leaves it alone.
LEMMA NextRefines ==
    OnceInv /\ OnceInv' /\ [TNext]_tvars => [Once!RNext]_<<applied, Asked>>
<1> SUFFICES ASSUME OnceInv, OnceInv', [TNext]_tvars
             PROVE  Once!RNext \/ UNCHANGED <<applied, Asked>>
  BY ZenonT(60)
<1>1. ASSUME NEW t \in Threads, Proceed(t)
      PROVE  Once!RNext \/ UNCHANGED <<applied, Asked>>
  <2>1. CASE Enter(t)
    BY ZenonT(60), <2>1, ApplyStep DEF OnceInv, Once!RNext
  <2>2. CASE Deliver(t)
    BY ZenonT(60), <2>2, ReturnStep DEF Once!RNext
  <2> QED BY ZenonT(60), <1>1, <2>1, <2>2, QuietStep DEF Proceed
<1>2. ASSUME NEW t \in Threads, Retry(t)
      PROVE  Once!RNext
  <2>1. PICK u \in Threads : CallWire(t, calls[u].env)
    BY ZenonT(60), <1>2 DEF Retry
  <2>2. calls[u].env \in Envelopes
    BY ZenonT(60), CallFacts DEF Calls
  <2> QED BY ZenonT(60), <2>1, <2>2, AskStep DEF Once!RNext
<1>3. ASSUME NEW t \in Threads, NEW c \in Clients, NewRequest(t, c)
      PROVE  Once!RNext
  <2>1. PICK d \in Opens[c], limit \in Deadlines :
            /\ next_request_id[c] <= MaxId
            /\ CallWire(t, [client |-> c, id |-> next_request_id[c], target |-> d, deadline |-> limit])
    BY ZenonT(60), <1>3 DEF NewRequest
  <2>2. next_request_id[c] \in Ids /\ d \in Targets
    <3>1. next_request_id[c] \in 1 .. MaxId + 1
      BY ZenonT(60) DEF OnceInv, Types
    <3>2. next_request_id[c] \in Ids
      BY <3>1, <2>1, TransportAssumption DEF Ids
    <3>3. d \in Targets
      BY ZenonT(60), TransportAssumption
    <3> QED BY ZenonT(60), <3>2, <3>3
  <2>3. [client |-> c, id |-> next_request_id[c], target |-> d, deadline |-> limit] \in Envelopes
    BY ZenonT(60), <2>2 DEF Envelopes
  <2> QED BY ZenonT(60), <2>1, <2>3, AskStep DEF Once!RNext
<1>4. CASE SetShutdown \/ SetLogicalTime \/ Restart \/ UNCHANGED tvars
  <2>1. applied' = applied /\ calls' = calls
    BY <1>4 DEF SetShutdown, SetLogicalTime, Restart, tvars, server
  <2> QED BY ZenonT(60), <2>1 DEF Asked, At
<1> QED BY ZenonT(60), <1>1, <1>2, <1>3, <1>4 DEF TNext

\* The serialized transports implement RequestOnce: at most one execution, and no
\* call succeeds without the execution of a request with its id.
THEOREM OnceRefined == TSpec => ImplementsOnce
<1>1. TInit => Once!RInit
  BY InitRefines
<1>2. OnceInv /\ OnceInv' /\ [TNext]_tvars => [Once!RNext]_<<applied, Asked>>
  BY NextRefines
<1> QED BY <1>1, <1>2, OnceInvCorrect, PTL DEF TSpec, ImplementsOnce, Once!RSpec
=============================================================================
