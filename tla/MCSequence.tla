----------------------------- MODULE MCSequence -----------------------------
(***************************************************************************)
(* Small instances for TLC of the two parts of the SDK that must keep      *)
(* going: the sequence manager and the event followers.  They share no     *)
(* state, so a behaviour exercises one of them.                            *)
(***************************************************************************)
EXTENDS SequenceManager, EventStream

CONSTANTS c1, c2, c3, s1, Parts

VARIABLE part

InSequence(A) == part = "sequence" /\ A /\ UNCHANGED <<part, streamVars>>

PartsInit ==
    /\ part \in Parts
    /\ Init /\ StreamInit
    /\ part = "sequence" => follower = "watch" /\ filter = AnySchema

PartsNext ==
    \/ InSequence(Next)
    \/ part = "stream" /\ StreamNext /\ UNCHANGED <<part, vars>>

partsVars == <<part, vars, streamVars>>

(* Fairness and StreamFairness, each for its part: the stream's actions    *)
(* are disabled while the follower is an idle watcher.                     *)
PartsSpec ==
    /\ PartsInit /\ [][PartsNext]_partsVars
    /\ \A c \in Callers : WF_partsVars(InSequence(CallerStep(c)))
    /\ WF_partsVars(InSequence(\E t \in queue : Include(t)))
    /\ StreamFairness
=============================================================================
