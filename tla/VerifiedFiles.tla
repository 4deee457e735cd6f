---------------------------- MODULE VerifiedFiles ---------------------------
(***************************************************************************)
(* What downloads promise their user: verified pieces are only ever gained *)
(* (whoever gains them, and across crashes), and a download ends either    *)
(* done, with every piece verified, or failed, or killed with its client.  *)
(***************************************************************************)
CONSTANTS Download, Piece

VARIABLES
    held,       \* per download, the pieces of its file verified on disk
    status      \* per download, what show_downloads tells of it

vars == <<held, status>>

Init ==
    /\ held = [d \in Download |-> {}]
    /\ status = [d \in Download |-> "new"]

Gain ==
    /\ held' \in [Download -> SUBSET Piece]
    /\ \A d \in Download : held[d] \subseteq held'[d]
    /\ UNCHANGED status

Turn(d, from, to) ==
    /\ status[d] = from
    /\ status' = [status EXCEPT ![d] = to]
    /\ UNCHANGED held

Begin(d) == Turn(d, "new", "running")

Complete(d) == held[d] = Piece /\ Turn(d, "running", "done")

GiveUp(d) == Turn(d, "running", "failed")

Crash ==
    /\ status' = [d \in Download |-> IF status[d] = "new" THEN "new" ELSE "killed"]
    /\ UNCHANGED held

Next == Gain \/ Crash \/ \E d \in Download : Begin(d) \/ Complete(d) \/ GiveUp(d)

Spec == Init /\ [][Next]_vars

=============================================================================
