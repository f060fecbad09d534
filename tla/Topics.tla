-------------------------------- MODULE Topics --------------------------------
(* Log search: the criteria of a request (filters/api.go), the filter over   *)
(* logs at hand (filters/filter.go) and the topics index (topicsdb), whose   *)
(* keys are topic, position and record ID, ordered by block, transaction and *)
(* index.  Addresses and topics come from one set, a log's ID is a number    *)
(* that grows with its block.                                                *)
EXTENDS Naturals, Sequences, FiniteSets, SequencesExt, FiniteSetsExt

CONSTANT MaxTopicsCount  \* patterns and logs beyond it are cut

Null == "null"
Bad == "bad"             \* what decodeTopic and decodeAddress refuse
Fail == [ok |-> FALSE]
-----------------------------------------------------------------------------
(* UnmarshalJSON: no address, one or a list of them; topics that are null, one    *)
(* topic, or a list in which null matches everything.                        *)

DecodeAddresses(raw) ==
    IF Bad \in ToSet(raw) THEN Fail ELSE [ok |-> TRUE, list |-> raw]

(* The alternatives are read from the left up to a null.                     *)
DecodeVariants(raw) ==
    LET nulls == {i \in DOMAIN raw : raw[i] = Null}
        read == IF nulls = {} THEN raw ELSE SubSeq(raw, 1, Min(nulls) - 1)
    IN  IF Bad \in ToSet(read) THEN Fail
        ELSE [ok |-> TRUE, list |-> IF nulls = {} THEN raw ELSE <<>>]

DecodeTopics(raw) ==
    IF \E i \in DOMAIN raw : ~DecodeVariants(raw[i]).ok THEN Fail
    ELSE [ok |-> TRUE, list |-> [i \in DOMAIN raw |-> DecodeVariants(raw[i]).list]]
-----------------------------------------------------------------------------
(* filterLogs.  Mutant: a log with fewer topics is not left out. *)
TopicsMatchShort(topics, log) ==
    \A i \in DOMAIN topics : topics[i] = <<>> \/ (i <= Len(log.topics) /\ log.topics[i] \in ToSet(topics[i]))

TopicsMatch(topics, log) ==
    /\ Len(topics) <= Len(log.topics)
    /\ \A i \in DOMAIN topics : topics[i] = <<>> \/ log.topics[i] \in ToSet(topics[i])

filterLogs(logs, from, to, addresses, topics) ==
    {log \in logs : /\ from <= log.block /\ log.block <= to
                    /\ addresses = <<>> \/ log.addr \in ToSet(addresses)
                    /\ TopicsMatch(topics, log)}

isEmpty(topics) == \A i \in DOMAIN topics : topics[i] = <<>>
-----------------------------------------------------------------------------
(* The index.                                                                *)

(* Push: a key for the address, at position 0, and one for every topic.      *)
Keys(log) ==
    LET count == Len(log.topics)
        indexed == SubSeq(log.topics, 1, Min({count, MaxTopicsCount}))
    IN  {[topic |-> log.addr, pos |-> 0, id |-> log.id, block |-> log.block, count |-> count]} \cup
        {[topic |-> indexed[i], pos |-> i, id |-> log.id, block |-> log.block, count |-> count] : i \in DOMAIN indexed}

Push(logs) == UNION {Keys(log) : log \in logs}

limitPattern(pattern) == SubSeq(pattern, 1, Min({Len(pattern), MaxTopicsCount}))

(* walkNexts: how often the record is handed to onMatched, one level per     *)
(* position that has alternatives.                                           *)
RECURSIVE walkNexts(_, _, _, _)
walkNexts(index, id, pattern, pos) ==
    IF pos >= Len(pattern) THEN 1
    ELSE IF pattern[pos + 1] = <<>> THEN walkNexts(index, id, pattern, pos + 1)
    ELSE Cardinality({i \in DOMAIN pattern[pos + 1] :
             \E k \in index : k.topic = pattern[pos + 1][i] /\ k.pos = pos /\ k.id = id})
         * walkNexts(index, id, pattern, pos + 1)

(* The records of one alternative of the first position that has any, in the *)
(* order of their keys, from the first block to the last.                    *)
walkVariant(index, topic, pos, from, to, pattern) ==
    LET hits == {k \in index : /\ k.topic = topic /\ k.pos = pos /\ from <= k.block /\ k.block <= to
                               /\ k.count >= Len(pattern) - 1}
        ids == SetToSortSeq({k.id : k \in hits}, <)
    IN  FlattenSeq([i \in DOMAIN ids |-> [j \in 1..walkNexts(index, ids[i], pattern, pos + 1) |-> ids[i]]])

walkFirst(index, from, to, pattern) ==
    LET pos == Min({p \in DOMAIN pattern : pattern[p] # <<>>}) - 1
    IN  FlattenSeq([v \in DOMAIN pattern[pos + 1] |->
                      walkVariant(index, pattern[pos + 1][v], pos, from, to, pattern)])

(* FindInBlocks; the pattern of indexedLogs starts with the addresses.       *)
FindInBlocks(index, from, to, addresses, topics) ==
    LET pattern == limitPattern(<<addresses>> \o topics)
    IN  IF from > to THEN <<>> ELSE walkFirst(index, from, to, pattern)
-----------------------------------------------------------------------------
(* What a request means: every topic position that is not null, or has no    *)
(* null among its alternatives, must hold one of them.                       *)
Means(req, log) ==
    /\ req.from <= log.block /\ log.block <= req.to
    /\ req.addr = <<>> \/ log.addr \in ToSet(req.addr)
    /\ Len(req.topics) <= Len(log.topics)
    /\ \A i \in DOMAIN req.topics :
          Null \in ToSet(req.topics[i]) \/ req.topics[i] = <<>> \/ log.topics[i] \in ToSet(req.topics[i])

(* GetLogs on a request: decoded, then searched with the index unless it     *)
(* names neither an address nor a topic.                                     *)
GetLogs(req, logs) ==
    LET addr == DecodeAddresses(req.addr)
        topics == DecodeTopics(req.topics)
    IN  IF ~addr.ok \/ ~topics.ok THEN Fail
        ELSE [ok |-> TRUE,
              found |-> IF isEmpty(topics.list) /\ addr.list = <<>>
                        THEN SetToSortSeq({l.id : l \in filterLogs(logs, req.from, req.to, addr.list, topics.list)}, <)
                        ELSE FindInBlocks(Push(logs), req.from, req.to, addr.list, topics.list),
              filtered |-> {l.id : l \in filterLogs(logs, req.from, req.to, addr.list, topics.list)}]

(* A request that is accepted finds exactly the logs it means, each as often *)
(* as the request repeats an alternative, and the index and the filter of    *)
(* live subscriptions agree on them.                                         *)
SearchIsExact(req, logs) ==
    LET got == GetLogs(req, logs)
        meant == {l.id : l \in {l \in logs : Means(req, l)}}
    IN  got.ok =>
          /\ ToSet(got.found) = meant
          /\ got.filtered = meant
          /\ (\A v \in ToSet(req.topics) \cup {req.addr} : IsInjective(v)) =>
               Len(got.found) = Cardinality(meant)
=============================================================================
