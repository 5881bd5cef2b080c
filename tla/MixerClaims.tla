---------------------------- MODULE MixerClaims ----------------------------
(***************************************************************************)
(* What the comments and the README of the mixer say of it and what the    *)
(* program does not do.  Each property is checked by a run of its own,     *)
(* which exhibits the behaviour that contradicts it.                       *)
(***************************************************************************)
EXTENDS Mixer

HandlingUnnamed == pc = "handle" /\ rbuf # <<>> /\ Incoming.reqid = None
                   /\ Incoming.op \in {"data", "error"} /\ Addressed # None

\* A message that carries no request id is for a request with its muxid: "If no
\* request id is passed in, then use the muxid to find the request".
MuxidFindsRequest ==
    HandlingUnnamed => request[Addressed].muxid = Incoming.muxid

\* The results of a request are sent to its client: what is relayed under the
\* name of a request is the reply to that request.
ResultsAreTheRequests == \A r \in RequestId : got[r] \subseteq {r}

\* A socket that has failed "needs to be closed": its state stays MSS_FAILED
\* until it is.
FailedIsClosed ==
    [][\A s \in FailedSocks : s \in socks' => sock'[s].state = "FAILED"]_vars

\* When a write to a client does not go through "we move on": the poll loop
\* always comes round to its next poll().
LoopComesRound == []<>(pc = "prep")

=============================================================================
