------------------------------- MODULE PowerUp -------------------------------
(***************************************************************************)
(* The constructor of the scoreboard leaves lrsc_buf_m as the storage was: *)
(* until the first load-reserved it may hold a reservation that nothing    *)
(* made.  Two history variables note when the scoreboard acts on it.       *)
(***************************************************************************)
EXTENDS TestBench

VARIABLES lrTaken,   \* the cache has taken a load-reserved
          misled     \* a store-conditional matched the reservation before that

powerUpVars == <<vars, lrTaken, misled>>

\* The cache takes a request of the driver in this step.
Taken == drv.pc = "valid" /\ drv'.pc = "idle"

Watch ==
    /\ lrTaken' = (lrTaken \/ (Taken /\ drv.t.op = "LR"))
    /\ misled' = (misled \/ (Taken /\ drv.t.op = "SC" /\ ~lrTaken /\ LrscMatch(drv.t.addr)))

PowerUpInit == Init /\ lrTaken = FALSE /\ misled = FALSE
PowerUpSpec == PowerUpInit /\ [][Next /\ Watch]_powerUpVars /\ WF_vars(Next)
=============================================================================
