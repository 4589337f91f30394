--------------------------- MODULE AtomicVolumes ---------------------------
(***************************************************************************)
(* What a block metadata backend promises its callers: a write of several  *)
(* shards becomes visible in one step, on top of everything that is there; *)
(* nothing else changes a volume that exists.  A fork or a restore starts  *)
(* a new volume, each shard of it at something its source holds.           *)
(***************************************************************************)
CONSTANTS Volumes, Pieces, Writes

VARIABLES
    status,     \* volume -> "absent", "live" or "deleted"
    contents,   \* volume and piece -> the writes it holds
    reported    \* writes reported to their callers

Empty == [p \in Pieces |-> {}]

VInit ==
    /\ status = [v \in Volumes |-> "absent"]
    /\ contents = [v \in Volumes |-> Empty]
    /\ reported = {}

Start(v, holds) ==
    /\ status[v] = "absent"
    /\ status' = [status EXCEPT ![v] = "live"]
    /\ contents' = [contents EXCEPT ![v] = holds]
    /\ UNCHANGED reported

Create(v) == Start(v, Empty)

Copy(v, source) ==
    /\ status[source] # "absent"
    /\ \E holds \in [Pieces -> SUBSET Writes] :
          /\ \A p \in Pieces : holds[p] \subseteq contents[source][p]
          /\ Start(v, holds)

\* A write reaches all its pieces at once, and is reported.
Write(v, w, over) ==
    /\ status[v] # "absent" /\ w \notin reported
    /\ contents' = [contents EXCEPT ![v] = [p \in Pieces |->
                       IF p \in over THEN @[p] \cup {w} ELSE @[p]]]
    /\ reported' = reported \cup {w}
    /\ UNCHANGED status

Delete(v) ==
    /\ status[v] = "live"
    /\ status' = [status EXCEPT ![v] = "deleted"]
    /\ UNCHANGED <<contents, reported>>

VNext ==
    \E v \in Volumes :
        \/ Create(v)
        \/ \E source \in Volumes : Copy(v, source)
        \/ \E w \in Writes, over \in SUBSET Pieces \ {{}} : Write(v, w, over)
        \/ Delete(v)

VSpec == VInit /\ [][VNext]_<<status, contents, reported>>
=============================================================================
