---------------------------- MODULE DurableStore ----------------------------
(***************************************************************************)
(* What the persistent volume promises (docs/STORAGE.md, "Commit and       *)
(* recovery"): one snapshot is authoritative, a mutation replaces it as a  *)
(* whole or not at all, and only an unacknowledged mutation is uncertain.  *)
(***************************************************************************)
CONSTANTS
  Snapshots,   \* the non-empty /USER trees
  Seed,        \* the tree a fresh volume is created with
  Nothing      \* no tree

VARIABLES
  mode,      \* "down", "open", "busy" with a commit, "closed" to mutations
  durable,   \* the authoritative snapshot
  maybe,     \* the snapshots an unacknowledged commit may have published
  view       \* what running applications see while the machine is up

storeVars == <<mode, durable, maybe, view>>

StoreTypeOK ==
  /\ mode \in {"down", "open", "busy", "closed"}
  /\ durable \in Snapshots \cup {Nothing}
  /\ maybe \in SUBSET Snapshots
  /\ view \in Snapshots \cup {Nothing}

StoreInit == mode = "down" /\ durable = Nothing /\ maybe = {} /\ view = Nothing

\* A mutation starts; until it ends, power loss may or may not publish it.
Begin(v) ==
  /\ mode = "open"
  /\ mode' = "busy" /\ maybe' = {v}
  /\ UNCHANGED <<durable, view>>

\* A blank volume is created with the seed tree.
Create ==
  /\ mode = "down" /\ durable = Nothing
  /\ mode' = "busy" /\ maybe' = {Seed}
  /\ UNCHANGED <<durable, view>>

\* The mutation is acknowledged: it is now authoritative.
Acknowledge ==
  /\ mode = "busy"
  /\ mode' = "open"
  /\ durable' \in maybe /\ maybe' = {} /\ view' = durable'

\* The mutation fails: applications see the old tree and no further mutation is
\* accepted.  "Not published" rules the new tree out, "unknown" does not.
Abort ==
  /\ mode = "busy"
  /\ mode' = "closed"
  /\ maybe' \in {{}, maybe}
  /\ UNCHANGED <<durable, view>>

PowerLoss ==
  /\ mode' = "down" /\ view' = Nothing
  /\ UNCHANGED <<durable, maybe>>

\* A mount settles what is authoritative: the acknowledged snapshot or a
\* complete unacknowledged one, never a mixture and never anything else.
Mount ==
  /\ mode = "down"
  /\ mode' \in {"open", "closed"}
  /\ durable' \in ({durable} \cup maybe) \ {Nothing}
  /\ view' = durable' /\ maybe' = {}

\* Only a volume that never acknowledged a snapshot can come up without one.
MountNothing ==
  /\ mode = "down" /\ durable = Nothing
  /\ mode' = "closed" /\ view' = Nothing
  /\ UNCHANGED <<durable, maybe>>

StoreNext ==
  \/ \E v \in Snapshots : Begin(v)
  \/ Create \/ Acknowledge \/ Abort \/ PowerLoss \/ Mount \/ MountNothing

StoreSpec == StoreInit /\ [][StoreNext]_storeVars
=============================================================================
