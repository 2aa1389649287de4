----------------------------- MODULE TwoPhase -----------------------------
(***************************************************************************)
(* What the two-phase release promises (the comments above                 *)
(* tcp_session_destroy and tcp_graveyard_collect in tcp_sess.c; udp_sess.c *)
(* has its own copy): a session is created, possibly lent to one           *)
(* background thread, parked at some point, and its memory returns to the  *)
(* allocator only while no thread has it on loan.                          *)
(*                                                                         *)
(* One step of the engine may move many sessions at once (a soft reset     *)
(* parks them all and frees those that are ready), so Next moves every     *)
(* slot independently.                                                     *)
(***************************************************************************)
CONSTANT Slots

VARIABLES
    stage,  \* per slot: "free", "live" (in the hash) or "parked"
    lent    \* the sessions some background thread may still touch

tpvars == <<stage, lent>>

Stages == {"free", "live", "parked"}

TPInit == stage = [s \in Slots |-> "free"] /\ lent = {}

\* A loan starts only when the session is created and ends for good.
Create(s) == stage[s] = "free" /\ stage'[s] \in {"live", "parked"}
Return(s) == stage'[s] = stage[s] /\ (s \in lent' => s \in lent)
Park(s)   == /\ stage[s] = "live" /\ stage'[s] = "parked"
             /\ s \in lent' => s \in lent
Free(s)   == /\ stage[s] # "free" /\ stage'[s] = "free"
             /\ s \notin lent /\ s \notin lent'

TPNext ==
    /\ stage' \in [Slots -> Stages]
    /\ lent' \subseteq Slots
    /\ \A s \in Slots : Create(s) \/ Return(s) \/ Park(s) \/ Free(s)

TPSpec == TPInit /\ [][TPNext]_tpvars

\* Memory on loan to a thread is never free memory.
NeverFreeOnLoan == \A s \in lent : stage[s] # "free"
=============================================================================
