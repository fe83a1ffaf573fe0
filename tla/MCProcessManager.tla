-------------------------- MODULE MCProcessManager --------------------------
(***************************************************************************)
(* Model checking of ProcessManager on small tables.  One run asks three   *)
(* questions, chosen in the initial state, each about a part of the state  *)
(* space: message passing between two processes that are restarted, the    *)
(* supervision of three processes, and process handles over many launches. *)
(***************************************************************************)
EXTENDS ProcessManager, TLC

CONSTANTS p1, p2, p3

ThreePids == {p1, p2, p3}
PidSymmetry == Permutations(ThreePids)

VARIABLE question

Launches(n) == \A i \in Occupied : slots[i].next_request <= n + 1
Incarnations(n) == \A i \in Slots : incarnations[i] <= n
Endpoints(handle, generation, messages) ==
    \A i \in Slots : /\ \A s \in CapSlots : s > handle => endpoints[i].handles[s] = NoCap
                     /\ endpoints[i].next_generation <= generation + 1
                     /\ Len(endpoints[i].queue) <= messages

Asked ==
    CASE question = "messages" ->
           slots[3] = NoProc /\ Launches(0) /\ Incarnations(2) /\ Endpoints(2, 3, 2)
      [] question = "supervision" ->
           Launches(2) /\ Incarnations(1) /\ Endpoints(0, 0, 0)
      [] question = "reuse" ->
           slots[3] = NoProc /\ Launches(3) /\ Incarnations(2) /\ Endpoints(0, 0, 0)

MCInit == Init /\ question \in {"messages", "supervision", "reuse"}

MCNext == Next /\ UNCHANGED question /\ Asked'

MCSpec == MCInit /\ [][MCNext]_<<vars, question>>
=============================================================================
