--------------------------- MODULE ResponseStream ---------------------------
(***************************************************************************)
(* What the caller of model.LLM.GenerateContent may rely on, whichever     *)
(* provider answers.  The call returns a Go push iterator: the adapter     *)
(* runs inside the caller's range loop, hands one item at a time to yield, *)
(* and is suspended until the caller asks for more or stops.               *)
(*                                                                         *)
(* The contract: any number of partial responses, then at most one         *)
(* terminal item (the complete response, or an error), then the end.       *)
(* Nothing follows a terminal item, and nothing follows a caller that      *)
(* stopped.                                                                *)
(***************************************************************************)
EXTENDS Naturals

CONSTANT SilentEnd   \* BOOLEAN: may the iterator end although nobody saw a terminal item?

VARIABLE it          \* where the iterator stands between adapter and caller

Items    == {"partial", "final", "error"}
Terminal == {"final", "error"}
States   == Items \cup {"idle", "running", "stop", "returned"}

Init == it = "idle"

\* The range loop starts the iterator.
Begin == it = "idle" /\ it' = "running"

\* The adapter hands an item to the caller's loop body.
Yield == it = "running" /\ it' \in Items

\* The caller asks for the item after a partial response.
More == it = "partial" /\ it' = "running"

\* The caller leaves the loop, or the item was the last one.
Stop == it \in Items /\ it' = "stop"

Return ==
    /\ it = "stop" \/ (SilentEnd /\ it = "running")
    /\ it' = "returned"

Next == Begin \/ Yield \/ More \/ Stop \/ Return

Spec == Init /\ [][Next]_it
=============================================================================
