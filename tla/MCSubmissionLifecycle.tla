------------------------ MODULE MCSubmissionLifecycle ------------------------
(***************************************************************************)
(* Small instances of SubmissionLifecycle for TLC.  A behaviour of MCSpec  *)
(* looks either at the requests and the gate of the challenge, with no     *)
(* scan, or at the scan, with an open challenge, no idempotency keys and   *)
(* submissions that stay CREATED.                                          *)
(***************************************************************************)
EXTENDS SubmissionLifecycle, TLC

VARIABLE focus

MCInit == Init /\ focus \in {"requests", "scan"}

MCNext ==
    /\ Next
    /\ focus = "requests" => <<old, scanVars>>' = <<old, scanVars>>
    /\ focus = "scan" =>
         /\ challenge' # "closed"
         /\ \A s \in Requests : sub'[s].status \in {"none", "created"}
         /\ \A r \in Requests : req'[r].key = None
         /\ \A r \in Requests : pc[r] = "idle" /\ pc'[r] # "idle" =>
               challenge = "published" /\ hackathon = "published"
    /\ UNCHANGED focus

MCSpec == MCInit /\ [][MCNext]_<<vars, focus>>

Symmetry == Permutations(Requests) \cup Permutations(Payloads)
=============================================================================
