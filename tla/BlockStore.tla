------------------------------ MODULE BlockStore ------------------------------
(***************************************************************************)
(* What NvmeUserspaceDriver (src/src/nvmetoy.rs) promises the REPL: an     *)
(* array of blocks.  A read that returns Ok returns the blocks' contents,  *)
(* a write that returns Ok has replaced them, a write that returns an      *)
(* error may have replaced any of them, and no call touches other blocks.  *)
(* The promise ends with the first command that times out: its late        *)
(* effects cannot be told from those of the calls after it.                *)
(***************************************************************************)
EXTENDS Integers, Sequences

CONSTANTS DEVICE_BLOCKS, IdentifyData

VARIABLES
  store,    \* contents of the blocks
  call,     \* the call in progress, or the last one
  result,   \* "pending" while it is in progress, then "ok" or "error"
  output,   \* what it returned
  broken    \* some command has timed out

storeVars == <<store, call, result, output, broken>>

Blocks == 0 .. DEVICE_BLOCKS - 1
Span(c) == c.slba .. c.slba + c.count - 1

\* A call is made; it may be refused at once.
Begin ==
  /\ result # "pending"
  /\ result' \in {"pending", "error"}
  /\ output' = << >>
  /\ UNCHANGED <<store, broken>>

ReadOk ==
  /\ result = "pending" /\ call.op = "read"
  /\ Span(call) \subseteq Blocks
  /\ result' = "ok"
  /\ output' = [k \in 1 .. call.count |-> store[call.slba + k - 1]]
  /\ UNCHANGED <<store, call, broken>>

WriteOk ==
  /\ result = "pending" /\ call.op = "write"
  /\ Span(call) \subseteq Blocks
  /\ result' = "ok"
  /\ store' = [b \in Blocks |-> IF b \in Span(call)
                                  THEN call.data[b - call.slba + 1]
                                  ELSE store[b]]
  /\ UNCHANGED <<call, output, broken>>

IdentifyOk ==
  /\ result = "pending" /\ call.op = "identify"
  /\ result' = "ok"
  /\ output' = <<IdentifyData>>
  /\ UNCHANGED <<store, call, broken>>

\* The controller refused or aborted the command.
Fail ==
  /\ result = "pending"
  /\ result' = "error"
  /\ \A b \in Blocks :
       \/ store'[b] = store[b]
       \/ call.op = "write" /\ b \in Span(call)
            /\ store'[b] = call.data[b - call.slba + 1]
  /\ UNCHANGED <<call, output, broken>>

\* A call times out.  From then on nothing is promised.
Break ==
  /\ result = "pending"
  /\ ~broken
  /\ broken' = TRUE

Unspecified == broken /\ broken'

Init ==
  /\ result = "none"
  /\ output = << >>
  /\ broken = FALSE

Next ==
  \/ Begin
  \/ ReadOk
  \/ WriteOk
  \/ IdentifyOk
  \/ Fail
  \/ Break
  \/ Unspecified

Spec == Init /\ [][Next]_storeVars
=============================================================================
