---------------------------- MODULE RequestOnce ----------------------------
(***************************************************************************)
(* What a caller of a block or native transport is promised, whatever the  *)
(* wire does: a request is applied at most once by each incarnation of the *)
(* server, and a call that succeeds was answered from a request with the   *)
(* same request id that this incarnation applied.  A call may always fail, *)
(* applied or not ("Transport failure does not imply storage failure",     *)
(* api.rs).                                                                *)
(***************************************************************************)
EXTENDS Naturals

CONSTANTS
    Callers,
    Envelopes,
    Incarnations,
    SameId(_, _)    \* do two envelopes carry the same request id?

VARIABLES
    applied,        \* incarnation and envelope -> how often it was applied
    asked           \* caller -> the incarnation and the envelope of its latest
                    \* call, and "open", "ok" or "failed"

RInit ==
    /\ applied = [ie \in Incarnations \X Envelopes |-> 0]
    /\ \E i \in Incarnations, e \in Envelopes :
           asked = [c \in Callers |-> [inc |-> i, env |-> e, state |-> "failed"]]

Ask(c) ==
    /\ asked[c].state # "open"
    /\ \E i \in Incarnations, e \in Envelopes :
           asked' = [asked EXCEPT ![c] = [inc |-> i, env |-> e, state |-> "open"]]
    /\ UNCHANGED applied

\* The server applies a request somebody is waiting for.
Apply(c) ==
    LET request == <<asked[c].inc, asked[c].env>> IN
    /\ asked[c].state = "open"
    /\ applied[request] = 0
    /\ applied' = [applied EXCEPT ![request] = 1]
    /\ UNCHANGED asked

Succeed(c) ==
    /\ asked[c].state = "open"
    /\ \E e \in Envelopes :
           /\ SameId(e, asked[c].env)
           /\ applied[<<asked[c].inc, e>>] = 1
    /\ asked' = [asked EXCEPT ![c].state = "ok"]
    /\ UNCHANGED applied

Fail(c) ==
    /\ asked[c].state = "open"
    /\ asked' = [asked EXCEPT ![c].state = "failed"]
    /\ UNCHANGED applied

RNext == \E c \in Callers : Ask(c) \/ Apply(c) \/ Succeed(c) \/ Fail(c)

RSpec == RInit /\ [][RNext]_<<applied, asked>>
=============================================================================
