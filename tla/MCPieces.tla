------------------------------ MODULE MCPieces ------------------------------
(***************************************************************************)
(* What a client does with single pieces, for TLC: the bitmap of a store,  *)
(* the thread pool that hashes a file, and the connection over which       *)
(* pieces are fetched.  The three share no state (Download has what joins  *)
(* them), so a behaviour is about one of them.                             *)
(***************************************************************************)
EXTENDS PieceStore, HashPool, PieceFetch

VARIABLE subject

piecesVars == <<vars, poolVars, fetchVars, subject>>

PiecesInit ==
    /\ Init /\ PoolInit /\ FetchInit
    /\ subject \in {"store", "pool", "fetch"}
    /\ subject # "pool" => stops /\ readable = Slot

StoreStep ==
    subject = "store" /\ Next /\ UNCHANGED <<poolVars, fetchVars, subject>>

PoolReturns ==
    subject = "pool" /\ Return /\ UNCHANGED <<vars, fetchVars, subject>>

ThreadStep(t) ==
    subject = "pool" /\ Step(t) /\ UNCHANGED <<vars, fetchVars, subject>>

WorkerSteps ==
    subject = "fetch" /\ WorkerGoesOn /\ UNCHANGED <<vars, poolVars, subject>>

SeederSteps ==
    subject = "fetch" /\ ServePeer /\ UNCHANGED <<vars, poolVars, subject>>

FetchSteps ==
    subject = "fetch" /\ FetchNext /\ UNCHANGED <<vars, poolVars, subject>>

PiecesNext ==
    \/ StoreStep
    \/ PoolReturns \/ \E t \in Thread : ThreadStep(t)
    \/ FetchSteps

\* The fairness of PoolSpec and of FetchFairSpec.
PiecesSpec ==
    /\ PiecesInit /\ [][PiecesNext]_piecesVars
    /\ WF_piecesVars(PoolReturns) /\ \A t \in Thread : WF_piecesVars(ThreadStep(t))
    /\ WF_piecesVars(WorkerSteps) /\ WF_piecesVars(SeederSteps)

----------------------------------------------------------------------------

\* A peer that misses few requests delivers every piece (PieceFetch).
AllPiecesFetched == subject = "fetch" => AllFetched

=============================================================================
