--------------------------- MODULE MCTxnMetadata ---------------------------
(* Small instances of TxnMetadata. *)
EXTENDS TxnMetadata

\* A placement that spreads the keys of one device over both store shards.
Spread(key) ==
    CASE key[1] = "manifest" -> 0
      [] key[1] = "head" -> key[3] % 2
      [] key[1] = "commit" -> (key[3] + key[4]) % 2
      [] OTHER -> key[2] % 2

\* One device, up to three writes, and one of everything else, in any order.
Few == [create |-> 1, write |-> 3, checkpoint |-> 1, fork |-> 1, restore |-> 1, delete |-> 1]
\* Two writes that race with a checkpoint.
Pitr == [create |-> 1, write |-> 2, checkpoint |-> 1, fork |-> 0, restore |-> 0, delete |-> 0]
=============================================================================
