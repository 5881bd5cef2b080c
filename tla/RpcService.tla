----------------------------- MODULE RpcService -----------------------------
(***************************************************************************)
(* What the muxer promises to the rest of a page (web/core/clira.muxer.js): *)
(* the callbacks of an RPC are any number of replies and then one of        *)
(* complete, error and close.  Muxer is shown to implement this, and the    *)
(* modules of the page and of the apps take their callbacks from it.        *)
(***************************************************************************)
EXTENDS Naturals

CONSTANT Rpc      \* RPCs that may be asked for

VARIABLE call     \* how far each RPC is

Endings == {"complete", "error", "close"}

Ask(r) == call[r] = "idle" /\ call' = [call EXCEPT ![r] = "asked"]

\* onreply: the RPC goes on
Replies(r) == call[r] = "asked" /\ UNCHANGED call

\* oncomplete, onerror or onclose
Ends(r, how) == call[r] = "asked" /\ call' = [call EXCEPT ![r] = how]

\* Several RPCs end at once when a connection does, and when several frames arrive
\* in one message
EndTogether ==
    \E R \in SUBSET {r \in Rpc : call[r] = "asked"} : \E how \in [R -> Endings] :
        call' = [r \in Rpc |-> IF r \in R THEN how[r] ELSE call[r]]

RpcTypeOK == call \in [Rpc -> {"idle", "asked"} \cup Endings]

RpcInit == call = [r \in Rpc |-> "idle"]
RpcNext == (\E r \in Rpc : Ask(r)) \/ EndTogether
RpcSpec == RpcInit /\ [][RpcNext]_call
=============================================================================
