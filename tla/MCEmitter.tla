------------------------------ MODULE MCEmitter ------------------------------
(* The emitter for TLC.  A behaviour is about signing, with events that carry *)
(* no transaction, over three epochs; about signing through two crashes in    *)
(* one epoch; about the counters of two senders' transactions, in three       *)
(* events of one epoch; or about them over two epochs and a crash.  The       *)
(* constants of Emitter itself bound all of them.                             *)
EXTENDS Emitter

VARIABLE about

S == INSTANCE Emitter WITH Sender <- {}, MaxCrash <- 1
R == INSTANCE Emitter WITH Sender <- {}, MaxEpoch <- 1
C == INSTANCE Emitter WITH MaxInterval <- 0, Protection <- 0,
        ValidatorEpochs <- {1}, YoungNetwork <- FALSE, MaxEpoch <- 1, MaxCrash <- 0
D == INSTANCE Emitter WITH MaxInterval <- 0, Protection <- 0,
        ValidatorEpochs <- {1, 2}, YoungNetwork <- TRUE, MaxId <- 2, MaxEpoch <- 2, MaxCrash <- 1

ASSUME InstanceAssumptions ==
    S!EmitterAssumption /\ R!EmitterAssumption /\ C!EmitterAssumption /\ D!EmitterAssumption

MCInit == \/ about = "signing" /\ S!Init
          \/ about = "restarts" /\ R!Init
          \/ about = "counters" /\ C!Init
          \/ about = "epochs" /\ D!Init

MCNext == /\ \/ about = "signing" /\ S!Next
             \/ about = "restarts" /\ R!Next
             \/ about = "counters" /\ C!CountNext
             \/ about = "epochs" /\ D!CountNext
          /\ UNCHANGED about

MCSpec == MCInit /\ [][MCNext]_<<vars, about>> /\ S!Fairness

(* If a peer has the last signed event, the emitter does not stay blocked     *)
(* (NotBlockedForever of Emitter; emitter.go isSyncedToEmit).                 *)
SigningGoesOn == about \in {"signing", "restarts"} => NotBlockedForever
=============================================================================
