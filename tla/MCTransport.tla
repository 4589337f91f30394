---------------------------- MODULE MCTransport ----------------------------
(* Instances of Transport for TLC.                                           *)
EXTENDS Transport, TLC

\* Every target has a server lock of its own.
StripePerTarget == [d \in Targets |-> d]

\* Clients that share all targets, or have one each.
SharedTargets == [c \in Clients |-> Targets]
OwnTarget ==
    LET pairing == CHOOSE f \in [Clients -> Targets] :
                       \A b, c \in Clients : f[b] = f[c] => b = c IN
    [c \in Clients |-> {pairing[c]}]

ThreadSymmetry == Permutations(Threads)

=============================================================================
