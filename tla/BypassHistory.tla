---------------------------- MODULE BypassHistory ----------------------------
(***************************************************************************)
(* EvaluationQueue with a history variable that counts, independently of   *)
(* the scheduler row, how often a HEAVY evaluation at the head of the      *)
(* queue has been passed by the row behind it.  It observes claims and     *)
(* never restricts them.                                                   *)
(***************************************************************************)
EXTENDS EvaluationQueue

VARIABLE streak  \* passes of a head since the last claim of a head

histVars == <<vars, streak>>

\* A claim commits the row behind head h.
Passed(h) == \E w \in Workers :
                pc[w] = "bypass" /\ pc'[w] = "exec" /\ head[w] = h

\* A claim commits the head it selected.
HeadClaimed == \E w \in Workers : pc[w] = "decide" /\ pc'[w] = "exec"

HistInit ==
    /\ Init
    /\ streak = [h \in Evals |-> 0]

HistNext ==
    /\ Next
    /\ streak' = [h \in Evals |-> IF HeadClaimed THEN 0
                                  ELSE IF Passed(h) THEN streak[h] + 1
                                  ELSE streak[h]]

HistSpec == HistInit /\ [][HistNext]_histVars

\* The bound the scheduler row keeps across workers, crashes and rolled-back
\* claims: between two claims of a head, a HEAVY head is passed at most
\* LightBypassLimit times.
BypassStreakBound == \A h \in Evals : streak[h] <= LightBypassLimit

-----------------------------------------------------------------------------
(* The inductive invariant behind the bound. *)

\* blocked_heavy_id names a HEAVY row that is still QUEUED: only a claim of a
\* head takes one out of the queue, and that claim clears the scheduler row.
MarkInv ==
    blockedHeavy # 0 => blockedHeavy \in Queued /\ row[blockedHeavy].cls = "heavy"

\* A head with passes on record still waits, not before the marked head; the
\* counter of the scheduler row covers the passes of the marked head.
StreakInv ==
    /\ streak \in [Evals -> Nat]
    /\ \A h \in Evals : streak[h] > 0 =>
          /\ h \in Queued /\ row[h].cls = "heavy"
          /\ blockedHeavy # 0 /\ blockedHeavy <= h
    /\ \A h \in Evals : blockedHeavy = h => streak[h] <= lightBypass

\* A selected head is not behind the marked one nor behind one with passes on
\* record; a claim that looks for a row to pass it has found it HEAVY and the
\* counter below the limit.
HeadInv ==
    \A w \in Workers :
        /\ pc[w] \in {"decide", "bypass"} =>
              /\ blockedHeavy # 0 => head[w] <= blockedHeavy
              /\ \A h \in Evals : streak[h] > 0 => head[w] <= h
        /\ pc[w] = "bypass" =>
              row[head[w]].cls = "heavy" /\ BypassCount(w) < LightBypassLimit

BypassInv == MarkInv /\ StreakInv /\ HeadInv /\ BypassStreakBound
=============================================================================
