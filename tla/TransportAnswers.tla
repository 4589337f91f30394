-------------------------- MODULE TransportAnswers --------------------------
(***************************************************************************)
(* For every number of clients, threads, targets, requests, faults and     *)
(* restarts: a call that succeeds got the result of its own request unless *)
(* another client used the same request id, and the endpoint's memory      *)
(* stays within its capacities.                                            *)
(*                                                                         *)
(* OwnAnswer compares two envelopes that may have met nowhere.  What links *)
(* them is that a client makes one envelope per request id: there is a     *)
(* naming of ids by envelopes that every envelope in the system agrees     *)
(* with (NameInv).  EndpointBounded is inductive once the calls inside the *)
(* endpoint are known to be finitely many (OrderInv, MailInv, CountInv).   *)
(***************************************************************************)
EXTENDS TransportProofs

(***************************************************************************)
(* Names.                                                                  *)
(***************************************************************************)
Names == [Clients \X Ids -> Envelopes]

\* Envelope e was made by its client, and is the one that names its id.
Made(next, F, e) ==
    e \in Envelopes /\ e.id < next[e.client] /\ F[<<e.client, e.id>>] = e
Trusted(next, F, r) == r.ok => Made(next, F, r.env)

\* What a call carries was made; a success came from a reply with the same id.
Sound(next, F, c) ==
    /\ c.pc # "idle" => c.outcome # "none"
    /\ c.outcome # "none" => Made(next, F, c.env)
    /\ Trusted(next, F, c.reply) /\ Trusted(next, F, c.kept)
    /\ c.outcome = "ok" => Made(next, F, c.from) /\ c.from.id = c.env.id

Held(next, F) ==
    /\ \A n \in 1 .. Len(delayed) : Trusted(next, F, delayed[n])
    /\ \A i \in Ids : cache[i].known => Trusted(next, F, cache[i].reply)
    /\ \A i \in Ids : responses[i].known => Trusted(next, F, responses[i].reply)

Named(next, F) == Held(next, F) /\ \A t \in Threads : Sound(next, F, calls[t])

NameInv == \E F \in Names : Named(next_request_id, F)

-----------------------------------------------------------------------------
\* Answers from the wire, the cache and the server belong to their request: the
\* argument of decode_response, given NameInv.
LEMMA NamesAnswer ==
    ASSUME OnceInv, NameInv
    PROVE  OwnAnswer
<1>1. PICK F \in Names : Named(next_request_id, F)
  BY DEF NameInv
<1> SUFFICES ASSUME NEW t \in Threads, calls[t].outcome = "ok",
                    {c \in Clients \ {calls[t].env.client} :
                        next_request_id[c] > calls[t].env.id} = {}
             PROVE  calls[t].from = calls[t].env
  BY ZenonT(60) DEF OwnAnswer
<1> DEFINE e == calls[t].env
           f == calls[t].from
<1>2. Made(next_request_id, F, e) /\ Made(next_request_id, F, f) /\ f.id = e.id
  BY ZenonT(60), <1>1 DEF Named, Sound
<1>3. next_request_id \in [Clients -> 1 .. MaxId + 1] /\ MaxId \in Nat
  BY ZenonT(60), TransportAssumption DEF OnceInv, Types
<1>4. f \in Envelopes /\ f.id < next_request_id[f.client]
  BY ZenonT(60), <1>2 DEF Made
<1>5. f.client \in Clients /\ f.id \in Nat
  BY <1>4, <1>3 DEF Envelopes, Ids
<1>6. next_request_id[f.client] > e.id
  <2>1. next_request_id[f.client] \in Nat
    BY <1>3, <1>5
  <2> QED
    BY ZenonT(60), <1>2, <1>4, <1>5, <2>1
<1>7. f.client = e.client
  BY <1>5, <1>6
<1> QED
  BY <1>2, <1>7 DEF Made

\* A step of one call.
LEMMA NameStep ==
    ASSUME OnceInv, NEW t \in Threads, NEW c, calls' = [calls EXCEPT ![t] = c],
           NEW next, NEW F, Named(next, F), Sound(next, F, c), Held(next, F)'
    PROVE  Named(next, F)'
<1>1. calls \in [Threads -> Calls]
  BY DEF OnceInv, Types
<1>2. \A u \in Threads : calls'[u] = IF u = t THEN c ELSE calls[u]
  BY ZenonT(60), <1>1
<1>3. \A u \in Threads : Sound(next, F, calls'[u])
  BY ZenonT(60), <1>2 DEF Named
<1> QED
  BY ZenonT(60), <1>3 DEF Named

\* A step that moves no reply.
LEMMA HeldSame ==
    ASSUME NEW next, NEW F, Named(next, F), UNCHANGED <<delayed, cache, responses>>
    PROVE  Held(next, F)'
BY DEF Named, Held

-----------------------------------------------------------------------------
\* chaos.rs, call_wire: the request goes out, or comes back with a reply the wire
\* held back.
LEMMA CallWireNamed ==
    ASSUME OnceInv, NEW next, NEW F, Named(next, F), NEW t \in Threads, NEW e,
           Made(next, F, e), CallWire(t, e)
    PROVE  Named(next, F)'
<1>0. PICK inc \in 1 .. incarnation :
          LET call == [calls[t] EXCEPT !.outcome = "failed", !.env = e, !.inc = inc] IN
          Lost(t, call) \/ ReturnDelayed(t, call) \/ Sent(t, call)
  BY Zenon DEF CallWire
<1> DEFINE call == [calls[t] EXCEPT !.outcome = "failed", !.env = e, !.inc = inc]
<1>1. calls[t] \in Calls /\ inc \in Incarnations /\ e \in Envelopes
  BY CallFacts, TransportAssumption DEF Incarnations, Made
<1>2. /\ call \in Calls /\ call.outcome = "failed" /\ call.env = e
      /\ call.reply = calls[t].reply /\ call.kept = calls[t].kept
  BY <1>1, Zenon DEF Calls
<1>3. cache' = cache /\ responses' = responses
  BY DEF CallWire, endpoint, server
<1>4. Trusted(next, F, call.reply) /\ Trusted(next, F, call.kept)
  BY ZenonT(60), <1>2 DEF Named, Sound
<1>5. \A n \in 1 .. Len(delayed) : Trusted(next, F, delayed[n])
  BY ZenonT(60) DEF Named, Held
<1>6. ASSUME delayed # <<>>
      PROVE  /\ Trusted(next, F, Head(delayed)) /\ Head(delayed) \in Replies \cup {NoReply}
             /\ \A n \in 1 .. Len(Tail(delayed)) : Trusted(next, F, Tail(delayed)[n])
  <2>1. Types
    BY DEF OnceInv
  <2> QED
    BY ZenonT(60), <1>5, <1>6, <2>1, HeadReply
<1>7. ASSUME \A n \in 1 .. Len(delayed') : Trusted(next, F, delayed'[n])
      PROVE  Held(next, F)'
  BY ZenonT(60), <1>3, <1>7 DEF Named, Held
<1>8. ASSUME NEW c \in Calls, c.outcome = "failed", c.env = e, Trusted(next, F, c.reply),
             Trusted(next, F, c.kept)
      PROVE  Sound(next, F, c)
  BY <1>8 DEF Sound
<1> HIDE DEF call
<1>9. CASE Lost(t, call)
  <2> DEFINE c == [call EXCEPT !.pc = "deliver"]
  <2>1. calls' = [calls EXCEPT ![t] = c] /\ delayed' = delayed
    BY ZenonT(60), <1>9 DEF Lost
  <2>2. /\ c \in Calls /\ c.outcome = "failed" /\ c.env = e /\ c.reply = call.reply
        /\ c.kept = call.kept
    BY ZenonT(60), <1>2 DEF Calls
  <2> HIDE DEF c
  <2>3. Sound(next, F, c)
    BY ZenonT(60), <1>4, <1>8, <2>2
  <2>4. Held(next, F)'
    BY ZenonT(60), <1>5, <1>7, <2>1
  <2> QED
    BY <2>1, <2>3, <2>4, NameStep, Zenon
<1>10. CASE ReturnDelayed(t, call)
  <2> DEFINE h == Head(delayed)
             c == [call EXCEPT !.pc = "deliver", !.reply = h]
  <2>1. calls' = [calls EXCEPT ![t] = c] /\ delayed' = Tail(delayed) /\ delayed # <<>>
    BY <1>10 DEF ReturnDelayed
  <2>2. Trusted(next, F, h) /\ h \in Replies \cup {NoReply}
    BY ZenonT(60), <1>6, <2>1
  <2>3. Held(next, F)'
    BY ZenonT(60), <1>6, <1>7, <2>1
  <2> HIDE DEF h
  <2>4. c \in Calls /\ c.outcome = "failed" /\ c.env = e /\ c.reply = h /\ c.kept = call.kept
    BY <1>2, <2>2, Zenon DEF Calls
  <2> HIDE DEF c
  <2>5. Sound(next, F, c)
    BY ZenonT(60), <1>4, <1>8, <2>2, <2>4
  <2> QED
    BY <2>1, <2>3, <2>5, NameStep, Zenon
<1>11. CASE Sent(t, call)
  <2>1. PICK act \in SentActions :
            /\ act = "reorder" => delayed # <<>>
            /\ calls' = [calls EXCEPT ![t] =
                   [call EXCEPT !.pc = "check", !.act = act,
                                !.kept = IF act = "reorder" THEN Head(delayed) ELSE NoReply]]
            /\ delayed' = IF act = "reorder" THEN Tail(delayed) ELSE delayed
    BY <1>11, Zenon DEF Sent
  <2> DEFINE h == IF act = "reorder" THEN Head(delayed) ELSE NoReply
             c == [call EXCEPT !.pc = "check", !.act = act, !.kept = h]
  <2>2. Trusted(next, F, h) /\ h \in Replies \cup {NoReply}
    BY ZenonT(60), <1>6, <2>1 DEF Trusted, NoReply
  <2>3. Held(next, F)'
    BY ZenonT(60), <1>5, <1>6, <1>7, <2>1
  <2>4. calls' = [calls EXCEPT ![t] = c]
    BY ZenonT(60), <2>1
  <2> HIDE DEF h
  <2>5. c \in Calls /\ c.outcome = "failed" /\ c.env = e /\ c.reply = call.reply /\ c.kept = h
    BY <1>2, <2>2, Zenon DEF Calls
  <2> HIDE DEF c
  <2>6. Sound(next, F, c)
    BY ZenonT(60), <1>4, <1>8, <2>2, <2>5
  <2> QED
    BY <2>3, <2>4, <2>6, NameStep, Zenon
<1> QED
  BY ZenonT(60), <1>0, <1>9, <1>10, <1>11 DEF call

\* A step of a call that is under way and takes reply r.
LEMMA TakesReply ==
    ASSUME OnceInv, NEW next, NEW F, Named(next, F), NEW t \in Threads,
           calls[t].pc # "idle", NEW pc, NEW r, Trusted(next, F, r),
           [calls[t] EXCEPT !.pc = pc, !.reply = r] \in Calls,
           calls' = [calls EXCEPT ![t].pc = pc, ![t].reply = r], Held(next, F)'
    PROVE  Named(next, F)'
<1> DEFINE d == [calls[t] EXCEPT !.pc = pc, !.reply = r]
<1>1. calls[t] \in Calls /\ calls \in [Threads -> Calls]
  BY CallFacts DEF OnceInv, Types
<1>2. calls' = [calls EXCEPT ![t] = d]
  BY <1>1, Zenon
<1>3. /\ d.outcome = calls[t].outcome /\ d.env = calls[t].env /\ d.from = calls[t].from
      /\ d.reply = r /\ d.kept = calls[t].kept
  BY <1>1 DEF Calls
<1>4. Sound(next, F, calls[t])
  BY ZenonT(60) DEF Named
<1>5. calls[t].outcome # "none" /\ Trusted(next, F, calls[t].kept)
  BY ZenonT(60), <1>4 DEF Sound
<1> HIDE DEF d
<1>6. Sound(next, F, d)
  BY ZenonT(60), <1>3, <1>4, <1>5 DEF Sound
<1> QED
  BY <1>2, <1>6, NameStep, Zenon

\* A step of a call that is under way and only moves on.
LEMMA MovesOn ==
    ASSUME OnceInv, NEW next, NEW F, Named(next, F), NEW t \in Threads,
           calls[t].pc # "idle", NEW pc, calls' = [calls EXCEPT ![t].pc = pc], Held(next, F)'
    PROVE  Named(next, F)'
<1> DEFINE d == [calls[t] EXCEPT !.pc = pc]
<1>1. calls[t] \in Calls /\ calls \in [Threads -> Calls]
  BY CallFacts DEF OnceInv, Types
<1>2. calls' = [calls EXCEPT ![t] = d]
  BY ZenonT(60), <1>1
<1>3. /\ d.outcome = calls[t].outcome /\ d.env = calls[t].env /\ d.from = calls[t].from
      /\ d.reply = calls[t].reply /\ d.kept = calls[t].kept
  BY ZenonT(60), <1>1 DEF Calls
<1>4. Sound(next, F, calls[t])
  BY ZenonT(60) DEF Named
<1>5. calls[t].outcome # "none"
  BY ZenonT(60), <1>4 DEF Sound
<1> HIDE DEF d
<1>6. Sound(next, F, d)
  BY <1>3, <1>4, <1>5 DEF Sound
<1> QED
  BY <1>2, <1>6, NameStep, Zenon

\* remote.rs, handle_wire: the checks, admission, a broken call and the way out of
\* the mailbox.
LEMMA HandleNamed ==
    ASSUME OnceInv, NEW next, NEW F, Named(next, F), NEW t \in Threads,
           CheckWire(t) \/ Admit(t) \/ Leave(t) \/ Broken(t)
    PROVE  Named(next, F)'
<1> DEFINE call == calls[t]
           refusal == Reply(FALSE, call.env)
<1>1. /\ calls \in [Threads -> Calls] /\ call \in Calls /\ call.env \in Envelopes
      /\ call.env.id \in Ids /\ incarnation \in Incarnations
  BY ZenonT(60), CallFacts DEF OnceInv, Types, Calls, Envelopes
<1>2. UNCHANGED <<delayed, cache, responses>> /\ call.pc # "idle"
  BY Zenon DEF CheckWire, Admit, Leave, Broken, endpoint, server, At, Serving
<1>3. Held(next, F)'
  BY ZenonT(60), <1>2, HeldSame
<1>4. refusal \in Replies /\ Trusted(next, F, refusal)
  BY <1>1 DEF Reply, Replies, Trusted
<1>5. ASSUME NEW r \in Replies \cup {NoReply}, Trusted(next, F, r),
             calls' = [calls EXCEPT ![t].pc = "deliver", ![t].reply = r]
      PROVE  Named(next, F)'
  <2>1. [call EXCEPT !.pc = "deliver", !.reply = r] \in Calls
    BY <1>1, Zenon DEF Calls
  <2> QED
    BY <1>2, <1>3, <1>5, <2>1, TakesReply, Zenon
<1>6. CASE CheckWire(t)
  <2> HIDE DEF refusal
  <2> DEFINE taken == [call EXCEPT !.on = incarnation, !.pc = "admit"]
  <2>1. \/ calls' = [calls EXCEPT ![t] = [call EXCEPT !.pc = "deliver", !.reply = refusal]]
        \/ calls' = [calls EXCEPT ![t] = taken]
    BY <1>6, Zenon DEF CheckWire, refusal
  <2>2. CASE calls' = [calls EXCEPT ![t] = [call EXCEPT !.pc = "deliver", !.reply = refusal]]
    <3>1. calls' = [calls EXCEPT ![t].pc = "deliver", ![t].reply = refusal]
      BY <1>1, <2>2, Zenon
    <3> QED
      BY <1>4, <1>5, <3>1, Zenon
  <2>3. CASE calls' = [calls EXCEPT ![t] = taken]
    <3>1. /\ taken.outcome = call.outcome /\ taken.env = call.env /\ taken.from = call.from
          /\ taken.reply = call.reply /\ taken.kept = call.kept
      BY ZenonT(60), <1>1 DEF Calls
    <3>2. Sound(next, F, call)
      BY ZenonT(60) DEF Named
    <3> HIDE DEF taken, call
    <3>3. Sound(next, F, taken)
      BY ZenonT(60), <1>2, <3>1, <3>2 DEF Sound
    <3> QED
      BY <1>3, <2>3, <3>3, NameStep, Zenon
  <2> QED
    BY <2>1, <2>2, <2>3
<1>7. CASE Admit(t)
  <2>1. \/ calls' = [calls EXCEPT ![t].pc = "deliver", ![t].reply = refusal]
        \/ /\ cache[call.env.id].known
           /\ calls' = [calls EXCEPT ![t].pc = "deliver", ![t].reply = cache[call.env.id].reply]
        \/ calls' = [calls EXCEPT ![t].pc = "enter"]
    BY <1>7, Zenon DEF Admit, Answer, Goto
  <2>2. CASE calls' = [calls EXCEPT ![t].pc = "deliver", ![t].reply = refusal]
    BY <1>4, <1>5, <2>2, Zenon
  <2>3. CASE /\ cache[call.env.id].known
             /\ calls' = [calls EXCEPT ![t].pc = "deliver", ![t].reply = cache[call.env.id].reply]
    <3>1. cache[call.env.id].reply \in Replies /\ Trusted(next, F, cache[call.env.id].reply)
      BY ZenonT(60), <1>1, <2>3 DEF OnceInv, Types, Named, Held
    <3> QED
      BY <1>5, <2>3, <3>1, Zenon
  <2>4. CASE calls' = [calls EXCEPT ![t].pc = "enter"]
    BY <1>2, <1>3, <2>4, MovesOn, Zenon
  <2> QED
    BY <2>1, <2>2, <2>3, <2>4, Zenon
<1>8. CASE Leave(t)
  <2>1. calls' = [calls EXCEPT ![t].pc = "store"]
    BY <1>8 DEF Leave, Goto
  <2> QED
    BY <1>2, <1>3, <2>1, MovesOn, Zenon
<1>9. CASE Broken(t)
  <2>1. calls' = [calls EXCEPT ![t].pc = "deliver", ![t].reply = NoReply]
    BY ZenonT(60), <1>9 DEF Broken, Answer
  <2>2. NoReply \in Replies \cup {NoReply} /\ Trusted(next, F, NoReply)
    BY DEF NoReply, Trusted
  <2> QED
    BY <1>5, <2>1, <2>2, ZenonT(30)
<1> QED
  BY ZenonT(60), <1>6, <1>7, <1>8, <1>9

\* server.rs: a request is executed, or answered from what the server remembers.
LEMMA EnterNamed ==
    ASSUME OnceInv, NEW next, NEW F, Named(next, F), NEW t \in Threads, Enter(t)
    PROVE  Named(next, F)'
<1> DEFINE call == calls[t]
           e == call.env
<1>1. /\ calls \in [Threads -> Calls] /\ call \in Calls /\ e \in Envelopes
      /\ e.id \in Ids /\ incarnation \in Incarnations
  BY ZenonT(60), CallFacts DEF OnceInv, Types, Calls, Envelopes
<1>2. UNCHANGED <<delayed, cache, responses>> /\ call.pc # "idle"
  BY DEF Enter, endpoint, At, Serving
<1>3. Held(next, F)'
  BY ZenonT(60), <1>2, HeldSame
<1>4. Made(next, F, e)
  BY ZenonT(60), <1>2 DEF Named, Sound
<1>5. PICK pc \in {"leave", "remember"}, r \in Replies :
          Trusted(next, F, r) /\ calls' = [calls EXCEPT ![t].pc = pc, ![t].reply = r]
  <2>1. \A ok \in BOOLEAN : Reply(ok, e) \in Replies /\ Trusted(next, F, Reply(ok, e))
    BY ZenonT(60), <1>1, <1>4 DEF Reply, Replies, Trusted
  <2>2. responses[e.id].known =>
            responses[e.id].reply \in Replies /\ Trusted(next, F, responses[e.id].reply)
    BY ZenonT(60), <1>1 DEF OnceInv, Types, Named, Held
  <2>3. CASE responses[e.id].known
    <3> DEFINE r == IF responses[e.id].env.target = e.target THEN responses[e.id].reply
                    ELSE Reply(FALSE, e)
    <3>1. calls' = [calls EXCEPT ![t].pc = "leave", ![t].reply = r]
      BY <2>3, Zenon DEF Enter, Answer
    <3>2. r \in Replies /\ Trusted(next, F, r)
      BY <2>1, <2>2, <2>3, Zenon
    <3> HIDE DEF r
    <3> QED
      BY <3>1, <3>2, Zenon
  <2>4. CASE ~ responses[e.id].known
    <3>1. PICK ok \in BOOLEAN :
              calls' = [calls EXCEPT ![t].pc = "remember", ![t].reply = Reply(ok, e)]
      BY ZenonT(60), <2>4 DEF Enter, Answer
    <3> QED
      BY <2>1, <3>1, Zenon
  <2> QED
    BY ZenonT(60), <2>3, <2>4
<1>6. [call EXCEPT !.pc = pc, !.reply = r] \in Calls
  BY <1>1, <1>5, Zenon DEF Calls
<1> QED
  BY <1>2, <1>3, <1>5, <1>6, TakesReply, Zenon

\* server.rs, remember_response.
LEMMA RememberNamed ==
    ASSUME OnceInv, NEW next, NEW F, Named(next, F), NEW t \in Threads, Remember(t)
    PROVE  Named(next, F)'
<1> DEFINE call == calls[t]
<1>1. /\ call.pc # "idle" /\ UNCHANGED <<delayed, cache>>
      /\ calls' = [calls EXCEPT ![t].pc = "leave"]
      /\ responses' = [responses EXCEPT ![call.env.id] =
                          [known |-> TRUE, env |-> call.env, reply |-> call.reply]]
  BY ZenonT(60) DEF Remember, Serving, At, Goto, endpoint
<1>2. Trusted(next, F, call.reply) /\ DOMAIN responses = Ids
  BY DEF Named, Sound, OnceInv, Types
<1>3. ASSUME NEW i \in Ids, responses'[i].known PROVE Trusted(next, F, responses'[i].reply)
  <2>1. CASE i = call.env.id
    <3>1. responses'[i] = [known |-> TRUE, env |-> call.env, reply |-> call.reply]
      BY ZenonT(60), <1>1, <1>2, <2>1
    <3> QED
      BY <1>2, <3>1
  <2>2. CASE i # call.env.id
    <3>1. responses'[i] = responses[i]
      BY ZenonT(60), <1>1, <1>2, <2>2
    <3> QED
      BY ZenonT(60), <1>3, <3>1 DEF Named, Held
  <2> QED
    BY ZenonT(60), <2>1, <2>2
<1>4. Held(next, F)'
  BY ZenonT(60), <1>1, <1>3 DEF Named, Held
<1> QED
  BY <1>1, <1>4, MovesOn, Zenon

\* remote.rs: the reply goes into the endpoint's cache.
LEMMA StoreNamed ==
    ASSUME OnceInv, NEW next, NEW F, Named(next, F), NEW t \in Threads, StoreReply(t)
    PROVE  Named(next, F)'
<1> DEFINE call == calls[t]
           entry == [known |-> TRUE, env |-> call.env, reply |-> call.reply]
<1>1. /\ call.pc # "idle" /\ UNCHANGED <<delayed, responses>>
      /\ calls' = [calls EXCEPT ![t].pc = "deliver"]
  BY ZenonT(60) DEF StoreReply, Serving, At, Goto, server
<1>2. \/ cache' = cache
      \/ \E gone : cache' = [i \in Ids |-> IF i \in gone THEN [known |-> FALSE]
                                          ELSE IF i = call.env.id THEN entry ELSE cache[i]]
  BY ZenonT(60) DEF StoreReply
<1>3. Trusted(next, F, call.reply)
  BY DEF Named, Sound
<1>4. ASSUME NEW i \in Ids, cache'[i].known PROVE Trusted(next, F, cache'[i].reply)
  <2>1. cache'[i] \in {cache[i], entry, [known |-> FALSE]}
    BY <1>2
  <2>2. cache'[i] # [known |-> FALSE]
    BY <1>4
  <2>3. CASE cache'[i] = cache[i]
    BY ZenonT(60), <1>4, <2>3 DEF Named, Held
  <2>4. CASE cache'[i] = entry
    BY <1>3, <2>4
  <2> QED
    BY <2>1, <2>2, <2>3, <2>4, Zenon
<1>5. Held(next, F)'
  BY ZenonT(60), <1>1, <1>4 DEF Named, Held
<1> QED
  BY <1>1, <1>5, MovesOn, Zenon

\* client.rs, decode_response: the result of a call that returns.
LEMMA ReturnNamed ==
    ASSUME OnceInv, NEW next, NEW F, Named(next, F), NEW t \in Threads,
           calls[t].pc # "idle", NEW r \in Replies \cup {NoReply}, Trusted(next, F, r)
    PROVE  Sound(next, F, Returned(calls[t], r))
<1> DEFINE call == calls[t]
           c == Returned(call, r)
<1>1. call \in Calls /\ Made(next, F, call.env)
  BY ZenonT(60), CallFacts DEF Named, Sound
<1>2. CASE Accepts(call, r)
  <2>1. r.ok /\ r.env.id = call.env.id /\ r.env \in Envelopes
    BY ZenonT(60), <1>2 DEF Accepts, Trusted, Made
  <2>2. /\ c.pc = "idle" /\ c.outcome = "ok" /\ c.env = call.env /\ c.from = r.env
        /\ c.reply = NoReply /\ c.kept = NoReply
    BY ZenonT(60), <1>1, <1>2, <2>1 DEF Returned, Calls
  <2> HIDE DEF c
  <2>3. Trusted(next, F, NoReply)
    BY ZenonT(60) DEF Trusted, NoReply
  <2>4. Sound(next, F, c)
    BY ZenonT(60), <1>1, <2>1, <2>2, <2>3 DEF Sound, Trusted
  <2> QED
    BY ZenonT(60), <2>4 DEF c
<1>3. CASE ~Accepts(call, r)
  <2>1. /\ c.pc = "idle" /\ c.outcome = "failed" /\ c.env = call.env
        /\ c.reply = NoReply /\ c.kept = NoReply
    BY ZenonT(60), <1>1, <1>3 DEF Returned, Calls
  <2> HIDE DEF c
  <2>2. Trusted(next, F, NoReply)
    BY DEF Trusted, NoReply
  <2>3. Sound(next, F, c)
    BY ZenonT(60), <1>1, <2>1, <2>2 DEF Sound
  <2> QED
    BY <2>3 DEF c
<1> QED
  BY ZenonT(60), <1>2, <1>3

\* chaos.rs, call_wire: what the wire makes of a reply.
LEMMA DeliverNamed ==
    ASSUME OnceInv, NEW next, NEW F, Named(next, F), NEW t \in Threads, Deliver(t)
    PROVE  Named(next, F)'
<1> DEFINE call == calls[t]
           again == [call EXCEPT !.pc = "check", !.act = "again", !.kept = call.reply,
                                 !.reply = NoReply]
<1>1. /\ call \in Calls /\ call.pc # "idle"
      /\ call.reply \in Replies \cup {NoReply} /\ call.kept \in Replies \cup {NoReply}
      /\ UNCHANGED <<cache, responses>>
      /\ delayed' = delayed \/ delayed' = Append(delayed, call.reply)
      /\ delayed \in Seq(Replies \cup {NoReply})
  BY CallFacts, DeliverCases, ZenonT(30) DEF Calls, At, OnceInv, Types
<1>2. /\ Trusted(next, F, call.reply) /\ Trusted(next, F, call.kept)
      /\ Trusted(next, F, NoReply) /\ Sound(next, F, call)
  BY ZenonT(60) DEF Named, Sound, Trusted, NoReply
<1>3. Held(next, F)'
  <2>1. \A n \in 1 .. Len(delayed) : Trusted(next, F, delayed[n])
    BY ZenonT(60) DEF Named, Held
  <2>2. \A n \in 1 .. Len(delayed') : Trusted(next, F, delayed'[n])
    BY <1>1, <1>2, <2>1
  <2> QED
    BY ZenonT(60), <1>1, <2>2 DEF Named, Held
<1>4. \/ \E r \in {NoReply, call.reply, call.kept} :
            calls' = [calls EXCEPT ![t] = Returned(call, r)]
      \/ calls' = [calls EXCEPT ![t] = again]
  <2>1. call.act \in SentActions \cup {"again"}
    BY ZenonT(60), <1>1 DEF Calls
  <2>2. CASE call.act = "pass"
    BY <2>2 DEF Deliver
  <2>3. CASE call.act \in {"drop_response", "corrupt"}
    BY <2>3, Zenon DEF Deliver
  <2>4. CASE call.act = "duplicate"
    BY <2>4 DEF Deliver
  <2>5. CASE call.act = "again"
    <3>1. calls' = [calls EXCEPT ![t] =
              Returned(call, IF call.reply = NoReply THEN NoReply ELSE call.kept)]
      BY <2>5 DEF Deliver
    <3> QED
      BY <3>1, Zenon
  <2>6. CASE call.act \in {"delay", "reorder"}
    BY <2>6, Zenon DEF Deliver
  <2> QED
    BY ZenonT(60), <2>1, <2>2, <2>3, <2>4, <2>5, <2>6 DEF SentActions
<1>5. ASSUME NEW r \in {NoReply, call.reply, call.kept},
             calls' = [calls EXCEPT ![t] = Returned(call, r)]
      PROVE  Named(next, F)'
  <2>1. r \in Replies \cup {NoReply} /\ Trusted(next, F, r)
    BY ZenonT(60), <1>1, <1>2
  <2>2. Sound(next, F, Returned(call, r))
    BY ZenonT(60), <1>1, <2>1, ReturnNamed
  <2> QED
    BY <1>3, <1>5, <2>2, NameStep, ZenonT(30)
<1>6. CASE calls' = [calls EXCEPT ![t] = again]
  <2>1. /\ again.outcome = call.outcome /\ again.env = call.env /\ again.from = call.from
        /\ again.kept = call.reply /\ again.reply = NoReply
    BY ZenonT(60), <1>1 DEF Calls
  <2> HIDE DEF again
  <2>2. Sound(next, F, again)
    BY ZenonT(60), <1>1, <1>2, <2>1 DEF Sound
  <2> QED
    BY <1>3, <1>6, <2>2, NameStep, Zenon
<1> QED
  BY ZenonT(60), <1>4, <1>5, <1>6

\* Every step that makes no request keeps the names.
LEMMA OldNames ==
    ASSUME OnceInv, NEW next, NEW F, Named(next, F), [TNext]_tvars,
           \A t \in Threads, c \in Clients : ~NewRequest(t, c)
    PROVE  Named(next, F)'
<1>1. ASSUME NEW t \in Threads, Proceed(t) PROVE Named(next, F)'
  BY ZenonT(60), <1>1, HandleNamed, EnterNamed, RememberNamed, StoreNamed, DeliverNamed DEF Proceed
<1>2. ASSUME NEW t \in Threads, Retry(t) PROVE Named(next, F)'
  <2>1. PICK u \in Threads : calls[u].outcome = "failed" /\ CallWire(t, calls[u].env)
    BY ZenonT(60), <1>2 DEF Retry
  <2>2. Made(next, F, calls[u].env)
    BY <2>1 DEF Named, Sound
  <2> QED
    BY ZenonT(60), <2>1, <2>2, CallWireNamed
<1>3. ASSUME UNCHANGED <<delayed, cache, responses, calls>> PROVE Named(next, F)'
  BY ZenonT(60), <1>3, HeldSame DEF Named
<1>4. CASE SetShutdown \/ SetLogicalTime \/ UNCHANGED tvars
  BY ZenonT(60), <1>3, <1>4 DEF SetShutdown, SetLogicalTime, tvars, endpoint, server
<1>5. CASE Restart
  <2>1. /\ \A i \in Ids : ~cache'[i].known /\ ~responses'[i].known
        /\ delayed' = delayed /\ calls' = calls
    BY ZenonT(60), <1>5 DEF Restart, EmptyEndpoint
  <2> QED
    BY ZenonT(60), <2>1 DEF Named, Held
<1> QED
  BY ZenonT(60), <1>1, <1>2, <1>4, <1>5 DEF TNext

\* What was made stays made when a client names its next id.
LEMMA MadeStays ==
    ASSUME NEW next \in [Clients -> 1 .. MaxId + 1], NEW F \in Names, NEW c \in Clients,
           next[c] \in Ids, NEW e \in Envelopes, NEW f, Made(next, F, f)
    PROVE  Made([next EXCEPT ![c] = @ + 1], [F EXCEPT ![<<c, next[c]>>] = e], f)
<1> DEFINE G == [F EXCEPT ![<<c, next[c]>>] = e]
           later == [next EXCEPT ![c] = @ + 1]
<1>1. /\ f \in Envelopes /\ f.id < next[f.client] /\ F[<<f.client, f.id>>] = f
      /\ f.client \in Clients /\ f.id \in Ids /\ MaxId \in Nat
  BY ZenonT(60), TransportAssumption DEF Made, Envelopes
<1>2. f.id \in Nat /\ next[f.client] \in Nat
  BY <1>1 DEF Ids
<1>3. f.id < later[f.client]
  BY <1>1, <1>2
<1>4. <<f.client, f.id>> # <<c, next[c]>>
  BY <1>1, <1>2
<1>5. G[<<f.client, f.id>>] = f
  BY ZenonT(60), <1>1, <1>4 DEF Names
<1> QED
  BY ZenonT(60), <1>1, <1>3, <1>5 DEF Made

\* client.rs: the request of a new call names the id it takes.
LEMMA NewNames ==
    ASSUME OnceInv, NameInv, NEW t \in Threads, NEW c \in Clients, NewRequest(t, c)
    PROVE  NameInv'
<1>1. PICK F \in Names : Named(next_request_id, F)
  BY ZenonT(60) DEF NameInv
<1>2. PICK next : next = next_request_id
  BY ZenonT(60)
<1>3. PICK d \in Opens[c], limit \in Deadlines :
          CallWire(t, [client |-> c, id |-> next[c], target |-> d, deadline |-> limit])
  BY ZenonT(60), <1>2 DEF NewRequest
<1> DEFINE e == [client |-> c, id |-> next[c], target |-> d, deadline |-> limit]
           G == [F EXCEPT ![<<c, next[c]>>] = e]
           later == [next EXCEPT ![c] = @ + 1]
<1>4. next \in [Clients -> 1 .. MaxId + 1] /\ next[c] <= MaxId /\ d \in Targets
  BY <1>2, TransportAssumption, ZenonT(30) DEF NewRequest, OnceInv, Types
<1>5. next[c] \in Ids /\ next[c] \in Nat /\ later[c] = next[c] + 1
  BY <1>4, TransportAssumption DEF Ids
<1>6. e \in Envelopes /\ e.id = next[c] /\ e.client = c
  BY ZenonT(60), <1>4, <1>5 DEF Envelopes
<1>7. next_request_id' = later
  BY ZenonT(60), <1>2 DEF NewRequest
<1>8. G \in Names /\ G[<<c, next[c]>>] = e
  BY ZenonT(60), <1>5, <1>6 DEF Names
<1>9. CallWire(t, e)
  BY <1>3
<1>10. \A f : Made(next, F, f) => Made(later, G, f)
  BY <1>4, <1>5, <1>6, MadeStays, ZenonT(30)
<1> HIDE DEF e, G, later
<1>11. Made(later, G, e)
  BY SMTT(60), <1>5, <1>6, <1>8 DEF Made
<1>12. Named(next, F)
  BY ZenonT(60), <1>1, <1>2
<1>13. Named(later, G)
  <2>1. \A r : Trusted(next, F, r) => Trusted(later, G, r)
    BY ZenonT(60), <1>10 DEF Trusted
  <2>2. \A k : Sound(next, F, k) => Sound(later, G, k)
    BY ZenonT(60), <1>10, <2>1 DEF Sound
  <2> QED
    BY ZenonT(60), <1>12, <2>1, <2>2 DEF Named, Held
<1>14. Named(later, G)'
  BY ZenonT(60), <1>9, <1>11, <1>13, CallWireNamed
<1> QED
  BY ZenonT(60), <1>7, <1>8, <1>14 DEF NameInv

\* Every step keeps a naming.
LEMMA NextNames == OnceInv /\ NameInv /\ [TNext]_tvars => NameInv'
<1> SUFFICES ASSUME OnceInv, NameInv, [TNext]_tvars PROVE NameInv'
  OBVIOUS
<1>1. CASE \E t \in Threads, c \in Clients : NewRequest(t, c)
  BY <1>1, NewNames
<1>2. CASE \A t \in Threads, c \in Clients : ~NewRequest(t, c)
  <2>1. PICK F \in Names : Named(next_request_id, F)
    BY ZenonT(60) DEF NameInv
  <2>2. PICK next : next = next_request_id
    BY ZenonT(60)
  <2>3. next_request_id' = next
    BY <1>2, <2>2, ZenonT(30) DEF TNext, Retry, Proceed, CheckWire, Admit, Enter, Remember,
       Leave, StoreReply, Deliver, Broken, SetShutdown, SetLogicalTime, Restart, tvars
  <2>4. Named(next, F)
    BY <2>1, <2>2
  <2>5. Named(next, F)'
    BY <1>2, <2>4, OldNames
  <2> QED
    BY ZenonT(60), <2>3, <2>5 DEF NameInv
<1> QED
  BY ZenonT(60), <1>1, <1>2

\* Nothing is made at first.
LEMMA InitNames == TInit => NameInv
<1> SUFFICES ASSUME TInit PROVE NameInv
  OBVIOUS
<1> DEFINE F == [ci \in Clients \X Ids |-> SomeEnvelope]
<1>1. F \in Names
  BY SMTT(60), SomeEnvelopeThere DEF Names
<1>2. Sound(next_request_id, F, NoCall)
  BY ZenonT(60) DEF NoCall, NoReply, Sound, Trusted
<1>3. Named(next_request_id, F)
  BY <1>2 DEF TInit, Named, Held
<1> QED
  BY <1>1, <1>3 DEF NameInv

\* remote.rs, client.rs: however the wire drops, repeats, delays and reorders, and
\* whichever incarnation answers, a call that succeeds got the result of its own
\* request, if no other client used its request id.
THEOREM OwnAnswerCorrect == TSpec => []OwnAnswer
<1>1. OnceInv /\ NameInv => OwnAnswer
  BY ZenonT(60), NamesAnswer
<1> QED
  BY <1>1, InitNames, NextNames, OnceInvCorrect, PTL DEF TSpec

(***************************************************************************)
(* Capacities.                                                             *)
(***************************************************************************)
INSTANCE FiniteSetTheorems

\* The ids the endpoint has cached are due for eviction.
OrderInv ==
    /\ order \in Seq(Ids)
    /\ Len(order) <= DedupeCapacity
    /\ \A i \in Ids : cache[i].known => \E n \in 1 .. Len(order) : order[n] = i

\* The calls the running endpoint let in, and their number.
Entered(c) == c.pc \in {"enter", "remember", "leave"} /\ c.on = incarnation
Inside == {t \in Threads : Entered(calls[t])}
MailInv ==
    /\ IsFiniteSet(Inside)
    /\ in_flight = Cardinality(Inside)
    /\ in_flight <= MailboxCapacity

CountInv ==
    /\ shutdown \in BOOLEAN /\ logical_time \in 0 .. MaxTime
    /\ faults \in 0 .. MaxFault
    /\ requests \in 0 .. MaxRequest /\ retries \in 0 .. MaxRetry

\* A step of one call lets in no other.
LEMMA InsideStep ==
    ASSUME OnceInv, NEW t \in Threads, NEW c, calls' = [calls EXCEPT ![t] = c],
           UNCHANGED incarnation
    PROVE  Inside' = IF Entered(c) THEN Inside \cup {t} ELSE Inside \ {t}
<1>1. calls \in [Threads -> Calls]
  BY ZenonT(60) DEF OnceInv, Types
<1>2. \A u \in Threads : calls'[u] = IF u = t THEN c ELSE calls[u]
  BY ZenonT(60), <1>1
<1>3. \A u \in Threads : Entered(calls[u])' <=> Entered(IF u = t THEN c ELSE calls[u])
  BY ZenonT(60), <1>2 DEF Entered
<1> QED
  BY ZenonT(60), <1>3 DEF Inside

\* A call that stays inside, or outside, leaves the count alone.
LEMMA SameMail ==
    ASSUME OnceInv, MailInv, NEW t \in Threads, NEW c, calls' = [calls EXCEPT ![t] = c],
           Entered(c) <=> Entered(calls[t]), UNCHANGED <<incarnation, in_flight>>
    PROVE  MailInv'
<1>1. Inside' = Inside
  BY InsideStep, Zenon DEF Inside
<1> QED
  BY ZenonT(60), <1>1 DEF MailInv

LEMMA CallWireMail ==
    ASSUME OnceInv, MailInv, NEW t \in Threads, NEW e, CallWire(t, e)
    PROVE  MailInv'
<1>0. PICK inc \in 1 .. incarnation :
          LET call == [calls[t] EXCEPT !.outcome = "failed", !.env = e, !.inc = inc] IN
          Lost(t, call) \/ ReturnDelayed(t, call) \/ Sent(t, call)
  BY Zenon DEF CallWire
<1> DEFINE call == [calls[t] EXCEPT !.outcome = "failed", !.env = e, !.inc = inc]
<1>1. calls[t] \in Calls /\ ~Entered(calls[t]) /\ UNCHANGED <<incarnation, in_flight>>
  BY ZenonT(60), CallFacts DEF CallWire, At, Entered, endpoint, server
<1>2. \A f, g : [call EXCEPT !.pc = "check", !.act = f, !.kept = g].pc = "check"
  BY ZenonT(60), <1>1 DEF Calls
<1>3. \A r : [call EXCEPT !.pc = "deliver", !.reply = r].pc = "deliver"
  BY ZenonT(60), <1>1 DEF Calls
<1>4. [call EXCEPT !.pc = "deliver"].pc = "deliver"
  BY ZenonT(60), <1>1 DEF Calls
<1> HIDE DEF call
<1>5. PICK c : calls' = [calls EXCEPT ![t] = c] /\ c.pc \in {"check", "deliver"}
  <2>1. Lost(t, call) \/ ReturnDelayed(t, call) \/ Sent(t, call)
    BY ZenonT(60), <1>0 DEF call
  <2>2. CASE Lost(t, call)
    BY <1>4, <2>2, Zenon DEF Lost
  <2>3. CASE ReturnDelayed(t, call)
    BY <1>3, <2>3, Zenon DEF ReturnDelayed
  <2>4. CASE Sent(t, call)
    <3>1. PICK act, h :
              calls' = [calls EXCEPT ![t] = [call EXCEPT !.pc = "check", !.act = act, !.kept = h]]
      BY <2>4, Zenon DEF Sent
    <3> QED
      BY <1>2, <3>1, Zenon
  <2> QED
    BY ZenonT(60), <2>1, <2>2, <2>3, <2>4
<1>6. ~Entered(c)
  BY ZenonT(60), <1>5 DEF Entered
<1> QED
  BY <1>1, <1>5, <1>6, SameMail, Zenon

\* remote.rs, handle_wire: a request is let in below the mailbox's capacity.
LEMMA AdmitMail ==
    ASSUME OnceInv, MailInv, NEW t \in Threads, Admit(t)
    PROVE  MailInv'
<1> DEFINE call == calls[t]
           inner == [call EXCEPT !.pc = "enter"]
<1>1. /\ call \in Calls /\ calls \in [Threads -> Calls] /\ call.pc = "admit"
      /\ call.on = incarnation /\ UNCHANGED incarnation /\ ~Entered(call)
  BY CallFacts, ZenonT(30) DEF OnceInv, Types, Admit, Serving, At, Entered, server
<1>2. \/ /\ \E r : calls' = [calls EXCEPT ![t].pc = "deliver", ![t].reply = r]
         /\ in_flight' = in_flight
      \/ /\ ~ (in_flight >= MailboxCapacity)
         /\ calls' = [calls EXCEPT ![t].pc = "enter"]
         /\ in_flight' = in_flight + 1
  BY Zenon DEF Admit, Answer, Goto
<1>3. ASSUME NEW r, calls' = [calls EXCEPT ![t].pc = "deliver", ![t].reply = r],
             in_flight' = in_flight
      PROVE  MailInv'
  <2> DEFINE c == [call EXCEPT !.pc = "deliver", !.reply = r]
  <2>1. calls' = [calls EXCEPT ![t] = c] /\ c.pc = "deliver"
    BY <1>1, <1>3, Zenon DEF Calls
  <2> HIDE DEF c
  <2>2. ~Entered(c)
    BY ZenonT(60), <2>1 DEF Entered
  <2> QED
    BY <1>1, <1>3, <2>1, <2>2, SameMail, Zenon
<1>4. CASE /\ ~ (in_flight >= MailboxCapacity)
           /\ calls' = [calls EXCEPT ![t].pc = "enter"]
           /\ in_flight' = in_flight + 1
  <2>1. calls' = [calls EXCEPT ![t] = inner] /\ inner.pc = "enter" /\ inner.on = incarnation
    BY ZenonT(60), <1>1, <1>4 DEF Calls
  <2> HIDE DEF inner
  <2>2. Inside' = Inside \cup {t}
    BY <1>1, <2>1, InsideStep, Zenon DEF Entered
  <2>3. t \notin Inside
    BY ZenonT(60), <1>1 DEF Inside
  <2>4. IsFiniteSet(Inside') /\ Cardinality(Inside') = Cardinality(Inside) + 1
    BY ZenonT(60), <2>2, <2>3, FS_AddElement DEF MailInv
  <2>5. Cardinality(Inside) \in Nat
    BY ZenonT(60), FS_CardinalityType DEF MailInv
  <2> QED
    BY SMTT(60), <1>4, <2>4, <2>5, TransportAssumption DEF MailInv
<1> QED
  BY ZenonT(60), <1>2, <1>3, <1>4

LEMMA LeaveMail ==
    ASSUME OnceInv, MailInv, NEW t \in Threads, Leave(t)
    PROVE  MailInv'
<1> DEFINE c == [calls[t] EXCEPT !.pc = "store"]
<1>1. /\ calls[t] \in Calls /\ calls \in [Threads -> Calls] /\ UNCHANGED incarnation
      /\ calls' = [calls EXCEPT ![t].pc = "store"] /\ t \in Inside
      /\ in_flight' = IF in_flight = 0 THEN 0 ELSE in_flight - 1
  BY ZenonT(60), CallFacts DEF OnceInv, Types, Leave, Serving, At, Goto, Inside, Entered, server
<1>2. calls' = [calls EXCEPT ![t] = c] /\ c.pc = "store"
  BY ZenonT(60), <1>1 DEF Calls
<1> HIDE DEF c
<1>3. Inside' = Inside \ {t}
  BY <1>1, <1>2, InsideStep, ZenonT(30) DEF Entered
<1>4. IsFiniteSet(Inside') /\ Cardinality(Inside') = Cardinality(Inside) - 1
  BY ZenonT(60), <1>1, <1>3, FS_RemoveElement DEF MailInv
<1>5. Cardinality(Inside) \in Nat /\ Cardinality(Inside') \in Nat
  BY ZenonT(60), <1>4, FS_CardinalityType DEF MailInv
<1> QED
  BY SMTT(60), <1>1, <1>4, <1>5, TransportAssumption DEF MailInv

\* The other steps of a call.
LEMMA ProceedMail ==
    ASSUME OnceInv, MailInv, NEW t \in Threads, Proceed(t)
    PROVE  MailInv'
<1> DEFINE call == calls[t]
<1>1. call \in Calls /\ calls \in [Threads -> Calls]
  BY ZenonT(60), CallFacts DEF OnceInv, Types
<1>2. ASSUME NEW c, calls' = [calls EXCEPT ![t] = c], ~Entered(call),
             c.pc \in {"idle", "check", "admit", "deliver"}, UNCHANGED <<incarnation, in_flight>>
      PROVE  MailInv'
  <2>1. ~Entered(c)
    BY ZenonT(60), <1>2 DEF Entered
  <2> QED
    BY <1>2, <2>1, SameMail, Zenon
<1>3. CASE CheckWire(t)
  <2>1. PICK c : calls' = [calls EXCEPT ![t] = c] /\ c.pc \in {"deliver", "admit"}
    <3> DEFINE late == call.env.deadline # NoDeadline /\ call.env.deadline < logical_time
               c == IF call.inc # incarnation \/ late
                    THEN [call EXCEPT !.pc = "deliver", !.reply = Reply(FALSE, call.env)]
                    ELSE [call EXCEPT !.on = incarnation, !.pc = "admit"]
    <3>1. calls' = [calls EXCEPT ![t] = c]
      BY ZenonT(60), <1>3 DEF CheckWire
    <3>2. c.pc \in {"deliver", "admit"}
      BY ZenonT(60), <1>1 DEF Calls
    <3> HIDE DEF c
    <3> QED
      BY <3>1, <3>2, Zenon
  <2>2. ~Entered(call) /\ UNCHANGED <<incarnation, in_flight>>
    BY ZenonT(60), <1>3 DEF CheckWire, At, Entered, endpoint, server
  <2> QED
    BY <1>2, <2>1, <2>2, Zenon
<1>4. CASE Enter(t)
  <2>1. \/ \E r : calls' = [calls EXCEPT ![t].pc = "leave", ![t].reply = r]
        \/ \E r : calls' = [calls EXCEPT ![t].pc = "remember", ![t].reply = r]
    BY ZenonT(60), <1>4 DEF Enter, Answer
  <2>2. ASSUME NEW pc \in {"leave", "remember"}, NEW r,
               calls' = [calls EXCEPT ![t].pc = pc, ![t].reply = r]
        PROVE  MailInv'
    <3> DEFINE c == [call EXCEPT !.pc = pc, !.reply = r]
    <3>1. calls' = [calls EXCEPT ![t] = c] /\ c.pc = pc /\ c.on = call.on
      BY <1>1, <2>2, ZenonT(30) DEF Calls
    <3> HIDE DEF c
    <3>2. Entered(call) /\ Entered(c) /\ UNCHANGED <<incarnation, in_flight>>
      BY ZenonT(60), <1>4, <2>2, <3>1 DEF Enter, Serving, At, Entered, endpoint
    <3> QED
      BY ZenonT(60), <3>1, <3>2, SameMail
  <2> QED
    BY ZenonT(60), <2>1, <2>2
<1>5. CASE Remember(t)
  <2> DEFINE c == [call EXCEPT !.pc = "leave"]
  <2>1. calls' = [calls EXCEPT ![t] = c] /\ c.pc = "leave" /\ c.on = call.on
    BY ZenonT(60), <1>1, <1>5 DEF Calls, Remember, Goto
  <2> HIDE DEF c
  <2>2. Entered(call) /\ Entered(c) /\ UNCHANGED <<incarnation, in_flight>>
    BY ZenonT(60), <1>5, <2>1 DEF Remember, Serving, At, Entered, endpoint
  <2> QED
    BY <2>1, <2>2, SameMail, Zenon
<1>6. CASE StoreReply(t)
  <2> DEFINE c == [call EXCEPT !.pc = "deliver"]
  <2>1. calls' = [calls EXCEPT ![t] = c] /\ c.pc = "deliver"
    BY ZenonT(60), <1>1, <1>6 DEF Calls, StoreReply, Goto
  <2> HIDE DEF c
  <2>2. ~Entered(call) /\ UNCHANGED <<incarnation, in_flight>>
    BY <1>6, Zenon DEF StoreReply, Serving, At, Entered, server
  <2> QED
    BY <1>2, <2>1, <2>2, ZenonT(30)
<1>7. CASE Deliver(t)
  <2>1. ~Entered(call) /\ UNCHANGED <<incarnation, in_flight>>
    BY ZenonT(60), <1>7 DEF Deliver, At, Entered, server, endpoint
  <2>2. ASSUME NEW r \in Replies \cup {NoReply}, Honest(r),
               calls' = [calls EXCEPT ![t] = Returned(call, r)]
        PROVE  MailInv'
    BY <1>2, <2>1, <2>2, ReturnedFacts, Zenon
  <2> DEFINE again == [call EXCEPT !.pc = "check", !.act = "again", !.kept = call.reply,
                                   !.reply = NoReply]
  <2>3. again.pc = "check"
    BY ZenonT(60), <1>1 DEF Calls
  <2>4. CASE calls' = [calls EXCEPT ![t] = again]
    <3> HIDE DEF again
    <3> QED
      BY <1>2, <2>1, <2>3, <2>4, Zenon
  <2> QED
    BY <1>7, <2>2, <2>4, DeliverCases, ZenonT(30)
<1>8. CASE Broken(t)
  <2> DEFINE c == [call EXCEPT !.pc = "deliver", !.reply = NoReply]
  <2>1. calls' = [calls EXCEPT ![t] = c] /\ c.pc = "deliver"
    BY <1>1, <1>8, ZenonT(30) DEF Calls, Broken, Answer
  <2> HIDE DEF c
  <2>2. ~Entered(call) /\ UNCHANGED <<incarnation, in_flight>>
    BY ZenonT(60), <1>8 DEF Broken, Entered, endpoint, server
  <2> QED
    BY ZenonT(60), <1>2, <2>1, <2>2
<1> QED
  BY ZenonT(60), <1>3, <1>4, <1>5, <1>6, <1>7, <1>8, AdmitMail, LeaveMail DEF Proceed

LEMMA NextMail == OnceInv /\ MailInv /\ [TNext]_tvars => MailInv'
<1> SUFFICES ASSUME OnceInv, MailInv, [TNext]_tvars PROVE MailInv'
  BY ZenonT(60)
<1>1. CASE SetShutdown \/ SetLogicalTime \/ UNCHANGED tvars
  <2>1. UNCHANGED <<calls, incarnation, in_flight>>
    BY ZenonT(60), <1>1 DEF SetShutdown, SetLogicalTime, tvars, endpoint, server
  <2> QED
    BY ZenonT(60), <2>1 DEF MailInv, Inside, Entered
<1>2. CASE Restart
  <2>1. calls' = calls /\ incarnation' = incarnation + 1 /\ in_flight' = 0
    BY ZenonT(60), <1>2 DEF Restart, EmptyEndpoint
  <2>2. \A t \in Threads : calls[t].on # incarnation + 1
    <3> SUFFICES ASSUME NEW t \in Threads PROVE calls[t].on # incarnation + 1
      BY ZenonT(60)
    <3>1. calls[t].on \in Nat /\ calls[t].on <= incarnation /\ incarnation \in Nat
      BY CallFacts DEF Calls, Incarnations
    <3> QED
      BY <3>1
  <2>3. Inside' = {}
    BY ZenonT(60), <2>1, <2>2 DEF Inside, Entered
  <2> QED
    BY SMTT(60), <2>1, <2>3, FS_EmptySet, TransportAssumption DEF MailInv
<1>3. ASSUME NEW t \in Threads, Retry(t) \/ \E c \in Clients : NewRequest(t, c) PROVE MailInv'
  BY <1>3, CallWireMail, Zenon DEF Retry, NewRequest
<1> QED
  BY ZenonT(60), <1>1, <1>2, <1>3, ProceedMail DEF TNext

\* remote.rs: the reply is cached, and the oldest ids go with their replies.
LEMMA StoreOrder ==
    ASSUME OnceInv, OrderInv, NEW t \in Threads, StoreReply(t)
    PROVE  OrderInv'
<1> DEFINE e == calls[t].env
           ids == Append(order, e.id)
<1>1. e.id \in Ids /\ order \in Seq(Ids) /\ DedupeCapacity \in Nat /\ Len(order) <= DedupeCapacity
  BY ZenonT(60), CallFacts, TransportAssumption DEF Calls, Envelopes, OrderInv
<1>2. CASE DedupeCapacity = 0
  BY ZenonT(60), <1>2 DEF StoreReply, OrderInv
<1>3. CASE DedupeCapacity # 0
  <2>1. /\ order' = Kept(ids)
        /\ \A i \in Ids : cache'[i].known => i \notin Evicted(ids) /\ (i = e.id \/ cache[i].known)
    <3>1. /\ order' = Kept(ids)
          /\ cache' = [i \in Ids |->
                 IF i \in Evicted(ids) THEN [known |-> FALSE]
                 ELSE IF i = e.id THEN [known |-> TRUE, env |-> e, reply |-> calls[t].reply]
                 ELSE cache[i]]
      BY ZenonT(60), <1>3 DEF StoreReply
    <3> QED
      BY ZenonT(60), <3>1
  <2>2. /\ ids \in Seq(Ids) /\ Len(ids) = Len(order) + 1 /\ Len(order) \in Nat
        /\ ids[Len(ids)] = e.id /\ \A n \in 1 .. Len(order) : ids[n] = order[n]
    BY SMTT(60), <1>1
  <2>3. \A i \in Ids : cache'[i].known =>
            i \notin Evicted(ids) /\ \E n \in 1 .. Len(ids) : ids[n] = i
    <3> SUFFICES ASSUME NEW i \in Ids, cache'[i].known
                 PROVE  \E n \in 1 .. Len(ids) : ids[n] = i
      BY ZenonT(60), <2>1
    <3>1. CASE i = e.id
      BY SMTT(60), <2>2, <3>1
    <3>2. CASE cache[i].known
      <4>1. PICK n \in 1 .. Len(order) : order[n] = i
        BY ZenonT(60), <3>2 DEF OrderInv
      <4>2. n \in 1 .. Len(ids) /\ ids[n] = i
        BY SMTT(60), <2>2, <4>1
      <4> QED
        BY ZenonT(60), <4>2
    <3> QED
      BY ZenonT(60), <2>1, <3>1, <3>2
  <2> HIDE DEF ids
  <2>4. CASE Len(ids) > DedupeCapacity
    <3>1. order' = Tail(ids) /\ Evicted(ids) = {Head(ids)}
      BY ZenonT(60), <2>1, <2>4 DEF Kept, Evicted
    <3>2. /\ Tail(ids) \in Seq(Ids) /\ Len(Tail(ids)) = Len(ids) - 1 /\ Head(ids) = ids[1]
          /\ \A n \in 1 .. Len(ids) - 1 : Tail(ids)[n] = ids[n + 1]
      BY <2>2
    <3>3. ASSUME NEW i \in Ids, cache'[i].known PROVE \E n \in 1 .. Len(order') : order'[n] = i
      <4>1. PICK n \in 1 .. Len(ids) : ids[n] = i
        BY ZenonT(60), <2>3, <3>3
      <4>2. n # 1
        BY ZenonT(60), <2>3, <3>1, <3>2, <3>3, <4>1
      <4>3. n - 1 \in 1 .. Len(ids) - 1 /\ (n - 1) + 1 = n
        BY SMTT(60), <2>2, <4>1, <4>2
      <4>4. Tail(ids)[n - 1] = i /\ n - 1 \in 1 .. Len(Tail(ids))
        BY ZenonT(60), <3>2, <4>1, <4>3
      <4> QED
        BY <3>1, <4>4, ZenonT(30)
    <3> QED
      BY SMTT(60), <1>1, <2>2, <3>1, <3>2, <3>3 DEF OrderInv
  <2>5. CASE ~ (Len(ids) > DedupeCapacity)
    <3>1. order' = ids
      BY ZenonT(60), <2>1, <2>5 DEF Kept
    <3> QED
      BY SMTT(60), <1>1, <2>2, <2>3, <2>5, <3>1 DEF OrderInv
  <2> QED
    BY ZenonT(60), <2>4, <2>5
<1> QED
  BY ZenonT(60), <1>2, <1>3

LEMMA NextOrder == OnceInv /\ OrderInv /\ [TNext]_tvars => OrderInv'
<1> SUFFICES ASSUME OnceInv, OrderInv, [TNext]_tvars PROVE OrderInv'
  BY ZenonT(60)
<1>1. ASSUME UNCHANGED <<cache, order>> PROVE OrderInv'
  BY ZenonT(60), <1>1 DEF OrderInv
<1>2. ASSUME NEW t \in Threads, Proceed(t) PROVE OrderInv'
  BY <1>1, <1>2, StoreOrder, ZenonT(30) DEF Proceed, CheckWire, Admit, Enter, Remember,
     Leave, Deliver, Broken,
     endpoint
<1>3. ASSUME NEW t \in Threads, Retry(t) \/ \E c \in Clients : NewRequest(t, c) PROVE OrderInv'
  BY <1>1, <1>3, ZenonT(30) DEF Retry, NewRequest, CallWire, endpoint
<1>4. CASE SetShutdown \/ SetLogicalTime \/ UNCHANGED tvars
  BY ZenonT(60), <1>1, <1>4 DEF SetShutdown, SetLogicalTime, tvars, endpoint
<1>5. CASE Restart
  <2>1. order' = <<>> /\ \A i \in Ids : ~cache'[i].known
    BY ZenonT(60), <1>5 DEF Restart, EmptyEndpoint
  <2> QED
    BY SMTT(60), <2>1, TransportAssumption DEF OrderInv
<1> QED
  BY ZenonT(60), <1>2, <1>3, <1>4, <1>5 DEF TNext

\* The bounds on faults, requests and retries, and the endpoint's switches.
LEMMA NextCounts == CountInv /\ [TNext]_tvars => CountInv'
<1> SUFFICES ASSUME CountInv, [TNext]_tvars PROVE CountInv'
  BY ZenonT(60)
<1> USE TransportAssumption DEF CountInv
<1>1. ASSUME NEW t \in Threads, Proceed(t) PROVE CountInv'
  <2>1. UNCHANGED <<shutdown, logical_time, faults, requests, retries>>
    BY <1>1, ZenonT(30) DEF Proceed, CheckWire, Admit, Enter, Remember, Leave,
       StoreReply, Deliver, Broken,
       endpoint, counts
  <2> QED
    BY ZenonT(60), <2>1
<1>2. ASSUME NEW t \in Threads, NEW e, CallWire(t, e)
      PROVE  shutdown' = shutdown /\ logical_time' = logical_time /\ faults' \in 0 .. MaxFault
  <2>1. shutdown' = shutdown /\ logical_time' = logical_time /\ (faults' = faults \/ Spend)
    BY <1>2, ZenonT(30) DEF CallWire, Lost, ReturnDelayed, Sent, endpoint
  <2> QED
    BY <2>1 DEF Spend
<1>3. ASSUME NEW t \in Threads, Retry(t) PROVE CountInv'
  <2>1. retries < MaxRetry /\ retries' = retries + 1 /\ requests' = requests
    BY ZenonT(60), <1>3 DEF Retry
  <2>2. shutdown' = shutdown /\ logical_time' = logical_time /\ faults' \in 0 .. MaxFault
    BY ZenonT(60), <1>2, <1>3 DEF Retry
  <2> QED
    BY SMTT(60), <2>1, <2>2
<1>4. ASSUME NEW t \in Threads, NEW c \in Clients, NewRequest(t, c) PROVE CountInv'
  <2>1. requests < MaxRequest /\ requests' = requests + 1 /\ retries' = retries
    BY ZenonT(60), <1>4 DEF NewRequest
  <2>2. shutdown' = shutdown /\ logical_time' = logical_time /\ faults' \in 0 .. MaxFault
    BY ZenonT(60), <1>2, <1>4 DEF NewRequest
  <2> QED
    BY SMTT(60), <2>1, <2>2
<1>5. CASE SetShutdown \/ SetLogicalTime
  <2>1. shutdown' \in BOOLEAN
    BY <1>5, Zenon DEF SetShutdown, SetLogicalTime
  <2>2. /\ logical_time' \in 0 .. MaxTime /\ (faults' = faults \/ Spend)
        /\ UNCHANGED <<requests, retries>>
    BY ZenonT(60), <1>5 DEF SetShutdown, SetLogicalTime
  <2>3. faults' \in 0 .. MaxFault
    BY <2>2 DEF Spend
  <2> QED
    BY ZenonT(60), <2>1, <2>2, <2>3
<1>6. CASE Restart \/ UNCHANGED tvars
  <2>1. shutdown' \in BOOLEAN
    BY <1>6, Zenon DEF Restart, EmptyEndpoint, tvars, endpoint
  <2>2. logical_time' \in {0, logical_time} /\ UNCHANGED <<faults, requests, retries>>
    BY ZenonT(60), <1>6 DEF Restart, EmptyEndpoint, tvars, endpoint, counts
  <2> QED
    BY <2>1, <2>2
<1> QED
  BY ZenonT(60), <1>1, <1>3, <1>4, <1>5, <1>6 DEF TNext

LEMMA InitBounds == TInit => OrderInv /\ MailInv /\ CountInv
<1> SUFFICES ASSUME TInit PROVE OrderInv /\ MailInv /\ CountInv
  BY ZenonT(60)
<1>1. OrderInv
  BY SMTT(60), TransportAssumption DEF TInit, OrderInv
<1>2. Inside = {}
  BY ZenonT(60) DEF TInit, Inside, Entered, NoCall
<1>3. MailInv
  BY SMTT(60), <1>2, FS_EmptySet, TransportAssumption DEF TInit, MailInv
<1>4. CountInv
  <2>1. shutdown \in BOOLEAN
    BY Zenon DEF TInit
  <2>2. logical_time = 0 /\ faults = 0 /\ requests = 0 /\ retries = 0
    BY ZenonT(60) DEF TInit
  <2> QED
    BY SMTT(60), <2>1, <2>2, TransportAssumption DEF CountInv
<1> QED
  BY ZenonT(60), <1>1, <1>3, <1>4

\* remote.rs: the endpoint never caches more replies than dedupe_capacity, drops
\* every one it cached in its turn, and counts as in flight exactly the requests
\* that are inside, at most mailbox_capacity, across faults, retries and restarts.
THEOREM EndpointBoundedCorrect == TSpec => []EndpointBounded
<1>1. OnceInv /\ OrderInv /\ MailInv /\ CountInv => EndpointBounded
  <2> SUFFICES ASSUME OnceInv, OrderInv, MailInv, CountInv PROVE EndpointBounded
    BY ZenonT(60)
  <2>1. in_flight \in Nat
    BY ZenonT(60), FS_CardinalityType DEF MailInv
  <2>2. TTypeOK
    BY ZenonT(60), <2>1 DEF OnceInv, Types, OrderInv, CountInv, TTypeOK
  <2> QED
    BY ZenonT(60), <2>2 DEF OrderInv, MailInv, Inside, Entered, EndpointBounded
<1> QED
  BY <1>1, InitBounds, NextOrder, NextMail, NextCounts, OnceInvCorrect, PTL DEF TSpec
=============================================================================
