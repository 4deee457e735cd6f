------------------------------- MODULE MCLink -------------------------------
(***************************************************************************)
(* The link between the trackers below the level of Replication, for TLC:  *)
(* the threads that wait for full sockets, the length of the frames, and   *)
(* the descriptor numbers.  The three share no state, so a behaviour is    *)
(* about one of them.                                                      *)
(***************************************************************************)
EXTENDS FrameLimit, Descriptors

CONSTANTS Worker, Active, Capacity, Backlog, MaxOps

ASSUME FlowAssumption ==
    /\ Active \subseteq {0, 1} /\ Capacity \in Nat \ {0}
    /\ Backlog \in Nat /\ MaxOps \in Nat /\ None \notin Worker

VARIABLES chan, send_mu, worker, outbox, log, ops, subject

Flow == INSTANCE SyncFlow

flowVars == <<chan, send_mu, worker, outbox, log, ops>>
vars == <<flowVars, frameVars, fdVars, subject>>

Init ==
    /\ Flow!Init /\ FrameInit /\ FdInit
    /\ subject \in {"flow", "frames", "descriptors"}

PeerThread(t) ==
    subject = "flow" /\ Flow!PeerThread(t) /\ UNCHANGED <<frameVars, fdVars, subject>>

SessionThread(t, w) ==
    subject = "flow" /\ Flow!Session(t, w) /\ UNCHANGED <<frameVars, fdVars, subject>>

FlowStep ==
    subject = "flow" /\ Flow!Next /\ UNCHANGED <<frameVars, fdVars, subject>>

DialStep ==
    subject = "frames" /\ Dial /\ UNCHANGED <<flowVars, fdVars, subject>>

ReadStep ==
    subject = "frames" /\ LinkReads /\ UNCHANGED <<flowVars, fdVars, subject>>

AnswerStep ==
    subject = "frames" /\ LinkAnswers /\ UNCHANGED <<flowVars, fdVars, subject>>

UploaderStep(u) ==
    subject = "frames" /\ UploaderGoesOn(u) /\ UNCHANGED <<flowVars, fdVars, subject>>

FrameStep ==
    subject = "frames" /\ FrameNext /\ UNCHANGED <<flowVars, fdVars, subject>>

FdStep ==
    subject = "descriptors" /\ FdNext /\ UNCHANGED <<flowVars, frameVars, subject>>

Next == FlowStep \/ FrameStep \/ FdStep

\* The fairness of SyncFlow's FairSpec and of FrameSpec.
Spec ==
    /\ Init /\ [][Next]_vars
    /\ \A t \in {0, 1} :
         WF_vars(PeerThread(t)) /\ \A w \in Worker : WF_vars(SessionThread(t, w))
    /\ WF_vars(DialStep) /\ WF_vars(ReadStep) /\ WF_vars(AnswerStep)
    /\ \A u \in Uploader : WF_vars(UploaderStep(u))

----------------------------------------------------------------------------

\* Only the two readers of a link can bring it to a halt (SyncFlow).
StandstillIsMutual == subject = "flow" => Flow!StandstillIsMutual

=============================================================================
