---------------------------- MODULE ConstantLoad ----------------------------
(***************************************************************************)
(* What loading the constants of a model promises its callers: however many *)
(* threads call the model, its constant block is published at most once     *)
(* while the library is open, nobody runs the graph before that, and the    *)
(* block a thread runs with is the one that was published.                  *)
(***************************************************************************)
CONSTANTS Threads, Models, Blocks, NoBlock, NoModel

VARIABLES
  block,    \* the published block of a model, or NoBlock
  status,   \* of a thread: "idle", "loading", "running", "failed"
  model     \* the model a thread has called

vars == <<block, status, model>>

Init ==
  /\ block = [m \in Models |-> NoBlock]
  /\ status = [t \in Threads |-> "idle"]
  /\ model = [t \in Threads |-> NoModel]

Call(t, m) ==
  /\ status[t] = "idle"
  /\ status' = [status EXCEPT ![t] = "loading"]
  /\ model' = [model EXCEPT ![t] = m]
  /\ UNCHANGED block

Publish(t, b) ==
  /\ status[t] = "loading"
  /\ block[model[t]] = NoBlock
  /\ block' = [block EXCEPT ![model[t]] = b]
  /\ UNCHANGED <<status, model>>

Run(t) ==
  /\ status[t] = "loading"
  /\ block[model[t]] # NoBlock
  /\ status' = [status EXCEPT ![t] = "running"]
  /\ UNCHANGED <<block, model>>

Fail(t) ==
  /\ status[t] = "loading"
  /\ status' = [status EXCEPT ![t] = "failed"]
  /\ UNCHANGED <<block, model>>

Return(t) ==
  /\ status[t] \in {"running", "failed"}
  /\ status' = [status EXCEPT ![t] = "idle"]
  /\ model' = [model EXCEPT ![t] = NoModel]
  /\ UNCHANGED block

(* The library is closed when no thread is in the model.                     *)
Unload(m) ==
  /\ \A t \in Threads : model[t] # m
  /\ block' = [block EXCEPT ![m] = NoBlock]
  /\ UNCHANGED <<status, model>>

Next ==
  \/ \E t \in Threads : \/ \E m \in Models : Call(t, m)
                        \/ \E b \in Blocks : Publish(t, b)
                        \/ Run(t) \/ Fail(t) \/ Return(t)
  \/ \E m \in Models : Unload(m)

Spec == Init /\ [][Next]_vars
=============================================================================
