-------------------------- MODULE RequestCoalescer --------------------------
(***************************************************************************)
(* InProcessCoalescer.do: concurrent calls with one key share one          *)
(* computation.  The event loop switches calls only where one awaits, so   *)
(* everything between two awaits is one action.  A future is named after   *)
(* the call that created it.                                               *)
(***************************************************************************)
EXTENDS Naturals, FiniteSets

CONSTANTS
    Calls,   \* calls of do, each made once
    Keys,    \* coalescing keys
    NoCall   \* no call

ASSUME CoalescerAssumption == NoCall \notin Calls \cup Keys

VARIABLES
    call,      \* where each call is
    keyOf,     \* its key, once made
    inflight,  \* _inflight: the call whose future is registered for a key
    joined,    \* the call whose future a call awaits
    future     \* what has become of a call's future

coVars == <<call, keyOf, inflight, joined, future>>

CallStates == {"new", "computing", "waiting", "returned", "raised",
               "cancelled"}
Futures    == {"none", "pending", "result", "exception"}

CoInit ==
    /\ call = [c \in Calls |-> "new"]
    /\ keyOf = [c \in Calls |-> NoCall]
    /\ inflight = [k \in Keys |-> NoCall]
    /\ joined = [c \in Calls |-> NoCall]
    /\ future = [c \in Calls |-> "none"]

\* Faulty variant: the key is released before the computation.
Lead_ReleasesEarly(c, k) ==
    /\ call[c] = "new"
    /\ inflight[k] = NoCall
    /\ call' = [call EXCEPT ![c] = "computing"]
    /\ keyOf' = [keyOf EXCEPT ![c] = k]
    /\ future' = [future EXCEPT ![c] = "pending"]
    /\ UNCHANGED <<inflight, joined>>

\* Nothing is in flight for the key: register a future and compute.
Lead(c, k) ==
    /\ call[c] = "new"
    /\ inflight[k] = NoCall
    /\ call' = [call EXCEPT ![c] = "computing"]
    /\ keyOf' = [keyOf EXCEPT ![c] = k]
    /\ inflight' = [inflight EXCEPT ![k] = c]
    /\ future' = [future EXCEPT ![c] = "pending"]
    /\ UNCHANGED joined

\* A future is registered: await it, shielded.
Join(c, k) ==
    /\ call[c] = "new"
    /\ inflight[k] # NoCall
    /\ call' = [call EXCEPT ![c] = "waiting"]
    /\ keyOf' = [keyOf EXCEPT ![c] = k]
    /\ joined' = [joined EXCEPT ![c] = inflight[k]]
    /\ UNCHANGED <<inflight, future>>

\* Faulty variant: an error is raised to the leader only.
Finish_ForgetsError(c, outcome, f) ==
    /\ call[c] = "computing"
    /\ call' = [call EXCEPT ![c] = outcome]
    /\ future' = [future EXCEPT ![c] = IF f = "exception" THEN "pending" ELSE f]
    /\ inflight' = [inflight EXCEPT ![keyOf[c]] = NoCall]
    /\ UNCHANGED <<keyOf, joined>>

\* The computation ends: set the future, then the finally clause.
Finish(c, outcome, f) ==
    /\ call[c] = "computing"
    /\ call' = [call EXCEPT ![c] = outcome]
    /\ future' = [future EXCEPT ![c] = f]
    /\ inflight' = [inflight EXCEPT ![keyOf[c]] = NoCall]
    /\ UNCHANGED <<keyOf, joined>>

ComputeReturns(c) == Finish(c, "returned", "result")

ComputeRaises(c) == Finish(c, "raised", "exception")

\* The task of the leader is cancelled: CancelledError is no Exception, so
\* only the finally clause runs and the future stays pending.
LeaderCancelled(c) == Finish(c, "cancelled", "pending")

\* The joined future is done.
Released(c) ==
    /\ call[c] = "waiting"
    /\ future[joined[c]] \in {"result", "exception"}
    /\ call' = [call EXCEPT ![c] = IF future[joined[c]] = "result"
                                   THEN "returned" ELSE "raised"]
    /\ UNCHANGED <<keyOf, inflight, joined, future>>

\* The task of a joiner is cancelled; the shield keeps the future.
JoinerCancelled(c) ==
    /\ call[c] = "waiting"
    /\ call' = [call EXCEPT ![c] = "cancelled"]
    /\ UNCHANGED <<keyOf, inflight, joined, future>>

CoNext ==
    \E c \in Calls :
        \/ \E k \in Keys : Lead(c, k) \/ Join(c, k)
        \/ ComputeReturns(c) \/ ComputeRaises(c) \/ LeaderCancelled(c)
        \/ Released(c) \/ JoinerCancelled(c)

CoSpec == CoInit /\ [][CoNext]_coVars

\* A computation ends, and the loop resumes a task whose future is done.
CoFairness ==
    \A c \in Calls :
        /\ WF_coVars(ComputeReturns(c) \/ ComputeRaises(c) \/ LeaderCancelled(c))
        /\ WF_coVars(Released(c))

-----------------------------------------------------------------------------
(* Properties. *)

CoTypeOK ==
    /\ call \in [Calls -> CallStates]
    /\ keyOf \in [Calls -> Keys \cup {NoCall}]
    /\ inflight \in [Keys -> Calls \cup {NoCall}]
    /\ joined \in [Calls -> Calls \cup {NoCall}]
    /\ future \in [Calls -> Futures]

\* Whatever fails, is cancelled or joins late, one key never has two
\* computations at once, and a call that finds none starts one: what is
\* registered is exactly what computes.
OneComputationPerKey ==
    \A k \in Keys :
        {c \in Calls : call[c] = "computing" /\ keyOf[c] = k}
            = {inflight[k]} \ {NoCall}

\* Again and again every joiner has been released by the call it joined: only
\* the cancellation of that call leaves a joiner waiting.
JoinersReleased ==
    []<>(\A c \in Calls : call[c] = "waiting" => call[joined[c]] = "cancelled")
=============================================================================
