-------------------------------- MODULE Vecmt --------------------------------
(* The vector index with times (vecmt): what every event observes of every   *)
(* validator, with forks split into branches, the median time, and the       *)
(* parents an emitter may choose.  The engine that numbers branches and      *)
(* finds forks (vecengine) is external.                                      *)
EXTENDS Integers, Sequences, FiniteSets, SequencesExt, FiniteSetsExt

CONSTANTS Events,       \* [id -> [creator, seq, time, parents, self]], self is {} or {id}
          Validators,   \* 1..n
          Weights,      \* the weights to try: a set of [Validators -> Nat]
          DefaultTime

VARIABLES weight,
          db,       \* the vector of every event indexed
          flushed,  \* the part of it that is on disk
          branchOf, \* the branch of every event
          owner     \* the creator of every branch

vvars == <<weight, db, flushed, branchOf, owner>>

NewHighestBefore == [b \in {} |-> 0]
None == [seq |-> 0, min |-> 0, fork |-> FALSE, time |-> 0]

(* HighestBeforeSeq.Get and HighestBeforeTime.Get: zero beyond the size.     *)
At(vec, b) == IF b \in DOMAIN vec THEN vec[b] ELSE None
Set(vec, b, x) == [c \in DOMAIN vec \cup {b} |-> IF c = b THEN x ELSE vec[c]]

InitWithEvent(vec, b, e) ==
    Set(vec, b, [seq |-> Events[e].seq, min |-> Events[e].seq, fork |-> FALSE, time |-> Events[e].time])

(* CollectFrom, for one branch.  Mutant: the time of the first parent stays. *)
MergeKeepsTime(my, his) ==
    IF (his.seq = 0 /\ ~his.fork) \/ my.fork THEN my
    ELSE IF his.fork THEN [my EXCEPT !.seq = 0, !.min = 0, !.fork = TRUE]
    ELSE [my EXCEPT !.min = IF my.seq = 0 \/ my.min > his.min THEN his.min ELSE @,
                    !.seq = Max({my.seq, his.seq}),
                    !.time = IF my.seq = 0 THEN his.time ELSE @]

Merge(my, his) ==
    IF (his.seq = 0 /\ ~his.fork) \/ my.fork THEN my
    ELSE IF his.fork THEN [my EXCEPT !.seq = 0, !.min = 0, !.fork = TRUE]
    ELSE [my EXCEPT !.min = IF my.seq = 0 \/ my.min > his.min THEN his.min ELSE @,
                    !.seq = Max({my.seq, his.seq}),
                    !.time = IF my.seq < his.seq THEN his.time ELSE @]

CollectFrom(vec, other) == [b \in DOMAIN vec \cup DOMAIN other |-> Merge(At(vec, b), At(other, b))]

(* GatherFrom: the branch with the highest event, or a fork.                 *)
GatherFrom(vec, branches) ==
    LET forked == {b \in branches : At(vec, b).fork}
        top == CHOOSE b \in branches : \A c \in branches : At(vec, c).seq <= At(vec, b).seq
    IN  IF forked # {} THEN [None EXCEPT !.fork = TRUE] ELSE At(vec, top)
-----------------------------------------------------------------------------
(* The engine (external).                                                    *)
Branches(own, v) == {b \in DOMAIN own : own[b] = v}
LastSeq(b) == Max({0} \cup {Events[e].seq : e \in {x \in DOMAIN branchOf : branchOf[x] = b}})

(* fillGlobalBranchID: the self-parent's branch if the event continues it.   *)
BranchOf(e) ==
    LET b == IF Events[e].self = {} THEN Events[e].creator ELSE branchOf[CHOOSE p \in Events[e].self : TRUE]
    IN  IF LastSeq(b) + 1 = Events[e].seq THEN b ELSE Len(owner) + 1

(* Forks seen by a parent, or between branches both observed.                *)
ForkObserved(vec, branches) ==
    \/ \E b \in branches : At(vec, b).fork
    \/ \E a, b \in branches :
         /\ a # b /\ At(vec, a).seq # 0 /\ At(vec, b).seq # 0
         /\ At(vec, a).min <= At(vec, b).seq /\ At(vec, b).min <= At(vec, a).seq

MarkForks(vec, own) ==
    [b \in DOMAIN vec \cup DOMAIN own |->
        IF ForkObserved(vec, Branches(own, own[b])) THEN [None EXCEPT !.fork = TRUE, !.time = At(vec, b).time]
        ELSE At(vec, b)]

GetMergedHighestBefore(e) == [v \in Validators |-> GatherFrom(db[e], Branches(owner, v))]
-----------------------------------------------------------------------------
VecmtInit ==
    /\ weight \in Weights
    /\ db = [e \in {} |-> 0] /\ flushed = {}
    /\ branchOf = [e \in {} |-> 0] /\ owner = [v \in Validators |-> v]

(* The stored vectors.                                                       *)
GetHighestBefore(e) == db[e]
SetHighestBefore(e, vec) == db' = Set(db, e, vec)

(* Add of an event whose parents are indexed.                                *)
Add(e) ==
    /\ e \notin DOMAIN db /\ Events[e].parents \subseteq DOMAIN db
    /\ LET b == BranchOf(e)
           own == IF b > Len(owner) THEN Append(owner, Events[e].creator) ELSE owner
           start == InitWithEvent(NewHighestBefore, b, e)
           all == FoldSet(LAMBDA p, vec : CollectFrom(vec, GetHighestBefore(p)), start, Events[e].parents)
       IN  /\ owner' = own
           /\ branchOf' = Set(branchOf, e, b)
           /\ SetHighestBefore(e, MarkForks(all, own))
    /\ UNCHANGED <<weight, flushed>>

Flush ==
    /\ flushed # DOMAIN db /\ flushed' = DOMAIN db
    /\ UNCHANGED <<weight, db, branchOf, owner>>

(* DropNotFlushed after an event was rejected: the engine's branches come    *)
(* from the disk again, and the cache of vectors, not modelled, is purged.   *)
DropNotFlushed ==
    /\ flushed # DOMAIN db
    /\ db' = [e \in flushed |-> db[e]]
    /\ branchOf' = [e \in flushed |-> branchOf[e]]
    /\ owner' = SubSeq(owner, 1, Max(Validators \cup {branchOf[e] : e \in flushed}))
    /\ UNCHANGED <<weight, flushed>>

VecmtNext == Flush \/ DropNotFlushed \/ \E e \in DOMAIN Events : Add(e)
-----------------------------------------------------------------------------
(* MedianTime.  Mutant: cheaters count. *)
HighestCountsCheaters(merged, v) ==
    [weight |-> weight[v],
     time |-> IF ~merged[v].fork /\ merged[v].seq = 0 THEN DefaultTime ELSE merged[v].time]

(* Cheaters have no weight; of whom nothing was observed has the default.    *)
Highest(merged, v) ==
    [weight |-> IF merged[v].fork THEN 0 ELSE weight[v],
     time |-> IF ~merged[v].fork /\ merged[v].seq = 0 THEN DefaultTime ELSE merged[v].time]

Sum(f, S) == FoldSet(LAMBDA v, s : f[v].weight + s, 0, S)

(* The first in the order of times at which the weights add up to half.      *)
MedianOf(highests) ==
    LET total == Sum(highests, Validators)
        upTo(t) == {v \in Validators : highests[v].time <= t}
    IN  Min({t \in {highests[v].time : v \in Validators} : Sum(highests, upTo(t)) >= total \div 2})

MedianTime(e) ==
    LET merged == GetMergedHighestBefore(e) IN MedianOf([v \in Validators |-> Highest(merged, v)])

(* NoCheaters; self is {} or {selfParent}.                                   *)
NoCheaters(self, options) ==
    IF self = {} \/ Len(owner) = Cardinality(Validators) THEN options
    ELSE LET vec == db[CHOOSE p \in self : TRUE]
         IN  {o \in options : ~At(vec, Events[o].creator).fork}
-----------------------------------------------------------------------------
RECURSIVE Past(_)
Past(e) == {e} \cup UNION {Past(p) : p \in Events[e].parents}

By(v, S) == {e \in S : Events[e].creator = v}
Forks(v, S) == \E a, b \in By(v, S) : a # b /\ Events[a].seq = Events[b].seq

(* In whatever order the events arrive, and whatever was dropped before:     *)
(* of every validator an event observes a fork exactly when its past has     *)
(* one, and otherwise the highest event of the validator in its past, with   *)
(* that event's time.  The cheaters an emitter leaves out when it chooses    *)
(* parents are those its own last event observes.                            *)
VectorsAreExact ==
    \A e \in DOMAIN db :
        /\ \A v \in Validators : \E seen \in {GatherFrom(db[e], Branches(owner, v))} :
              IF Forks(v, Past(e)) THEN seen.fork
              ELSE /\ ~seen.fork
                   /\ seen.seq = Max({0} \cup {Events[x].seq : x \in By(v, Past(e))})
                   /\ \A x \in By(v, Past(e)) : Events[x].seq = seen.seq => seen.time = Events[x].time
        /\ NoCheaters({e}, DOMAIN db) = {o \in DOMAIN db : ~Forks(Events[o].creator, Past(e))}

(* "cheaters don't influence medianTime": when two units of weight or more   *)
(* are honest, half of the honest weight claims the median or an earlier     *)
(* time, and less than half an earlier one.                                  *)
HonestTimes(e) ==
    [v \in Validators |->
        IF Forks(v, Past(e)) THEN [weight |-> 0, time |-> 0]
        ELSE [weight |-> weight[v],
              time |-> IF By(v, Past(e)) = {} THEN DefaultTime
                       ELSE Events[CHOOSE x \in By(v, Past(e)) : \A y \in By(v, Past(e)) : Events[y].seq <= Events[x].seq].time]]

MedianIsHonest ==
    \A e \in DOMAIN db : \E t \in {MedianTime(e)} : \E h \in {HonestTimes(e)} :
        LET half == Sum(h, Validators) \div 2
        IN  half > 0 => /\ Sum(h, {v \in Validators : h[v].time <= t}) >= half
                        /\ Sum(h, {v \in Validators : h[v].time < t}) < half
=============================================================================
