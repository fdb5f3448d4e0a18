----------------------------- MODULE JobDelivery -----------------------------
(***************************************************************************)
(* What collection promises about every ingestion job, without queues,     *)
(* workers or faults: an accepted job stays owed until it is settled, and  *)
(* it is settled in one of three ways only.  CollectionPipeline implements *)
(* this specification.                                                     *)
(***************************************************************************)
CONSTANT Jobs

VARIABLE phase

Settled == {"finished", "dropped", "dead"}

Phases == {"idle", "owed"} \cup Settled

TypeOK == phase \in [Jobs -> Phases]

Init == phase = [j \in Jobs |-> "idle"]

(* A schedule fires or an operator sends the job, again or for the first   *)
(* time.                                                                   *)
Accept(j) ==
    /\ phase[j] # "owed"
    /\ phase' = [phase EXCEPT ![j] = "owed"]

(* finished: persisted, and for live polling the window is over or         *)
(* maintenance stopped it; dropped: another ingestion held the lock; dead: *)
(* in a dead-letter queue, where an alarm reports it.                      *)
Settle(j) ==
    /\ phase[j] = "owed"
    /\ \E how \in Settled : phase' = [phase EXCEPT ![j] = how]

Next == \E j \in Jobs : Accept(j) \/ Settle(j)

Spec == Init /\ [][Next]_phase
=============================================================================
