----------------------------- MODULE MCStoreOpen -----------------------------
(* StoreOpen and StartUp on small sets, each in a world of its own: in "alone" *)
(* any two writers and a reader open at the same time and may be killed, in    *)
(* "started" they are the connections of one proxy after another, with two     *)
(* upstreams, and of a dashboard.  There is a column of each kind of table, so *)
(* that a file can be between two columns of one schema version and of two.    *)
EXTENDS StartUp

VARIABLE world

MCTables == {"tool_fingerprints", "sessions", "messages"}
MCColumns ==
  << [table |-> "tool_fingerprints", name |-> "fp_version"],
     [table |-> "tool_fingerprints", name |-> "last_seen_ts_ms"],
     [table |-> "sessions", name |-> "server_id"],
     [table |-> "messages", name |-> "raw_len"] >>

Alone == {"first", "u1", "cached"}

MCInit == world \in {"alone", "started"} /\ StartInit
          /\ (world = "alone" => program = "wrap")

MCNext ==
  \/ /\ world = "alone" /\ \E o \in Alone : Open(o) \/ Kill(o)
     /\ UNCHANGED <<world, program, stage, sessions, dash, restarts, misled>>
  \/ world = "started" /\ StartNext /\ Moved /\ UNCHANGED world

MCSpec == MCInit /\ [][MCNext]_<<world, startVars>>
=============================================================================
