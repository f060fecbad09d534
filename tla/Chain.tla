-------------------------------- MODULE Chain --------------------------------
(* What the processing of blocks promises to those who read the chain, sync  *)
(* from it or subscribe to it: the chain grows block by block, a block has a *)
(* later time than the one before it and an ID of its own, every block is    *)
(* announced before the next one appears, and a crash takes the chain back   *)
(* to a point where it was made durable, never in the middle of a block.     *)
EXTENDS Naturals

VARIABLES chain,       \* the published blocks: sequence of [ID, Time]
          durable,     \* what a crash leaves of it
          announcing   \* the last block is published and not announced yet

vars == <<chain, durable, announcing>>

Extends(new, old) ==
    \E n \in DOMAIN old :
        /\ DOMAIN old = 1..n /\ DOMAIN new = 1..(n + 1)
        /\ \A i \in 1..n : new[i] = old[i] /\ new[i].ID # new[n + 1].ID
        /\ new[n + 1].Time > old[n].Time

(* The genesis block.                                                        *)
Init == DOMAIN chain = {1} /\ durable = chain /\ announcing = FALSE

Publish ==
    /\ ~announcing
    /\ Extends(chain', chain)
    /\ announcing' = TRUE
    /\ UNCHANGED durable

Announce == announcing /\ announcing' = FALSE /\ UNCHANGED <<chain, durable>>

Persist == ~announcing /\ durable' = chain /\ UNCHANGED <<chain, announcing>>

Recover == chain' = durable /\ announcing' = FALSE /\ UNCHANGED durable

Next == Publish \/ Announce \/ Persist \/ Recover

Spec == Init /\ [][Next]_vars
=============================================================================
