--------------------------------- MODULE Cser ---------------------------------
(* The encoding of events and transactions: bytes and bits side by side      *)
(* (utils/cser, utils/bits, utils/fast), the layout of an event              *)
(* (inter/event_serializer.go) and of a transaction                          *)
(* (inter/transaction_serializer.go).  A byte has ByteBits bits (8 in the    *)
(* code); hashes, addresses and signatures are one byte.                     *)
EXTENDS Integers, Sequences, SequencesExt, FiniteSetsExt

CONSTANT ByteBits

Base == 2^ByteBits
Fail == [ok |-> FALSE]
-----------------------------------------------------------------------------
(* bits.Writer.Write: fills the last byte, the rest goes into new ones.      *)
RECURSIVE WriteBits(_, _, _)
WriteBits(w, n, v) ==
    IF w.off = 0 /\ n > 0 /\ ~w.fresh
    THEN WriteBits([w EXCEPT !.bits = Append(@, 0), !.fresh = TRUE], n, v)
    ELSE LET free == ByteBits - w.off
         IN  IF n <= free
             THEN [w EXCEPT !.bits[Len(w.bits)] = @ + v * 2^w.off,
                            !.off = IF n = free THEN 0 ELSE @ + n, !.fresh = FALSE]
             ELSE WriteBits([w EXCEPT !.bits[Len(w.bits)] = @ + (v % 2^free) * 2^w.off,
                                      !.off = 0, !.fresh = FALSE], n - free, v \div 2^free)

(* bits.Reader.Read.                                                         *)
RECURSIVE ReadBits(_, _)
ReadBits(r, n) ==
    IF n = 0 THEN [ok |-> TRUE, v |-> 0, r |-> r]
    ELSE IF r.byte >= Len(r.bits) THEN Fail
    ELSE LET free == ByteBits - r.off
             here == r.bits[r.byte + 1] \div 2^r.off
         IN  IF n < free THEN [ok |-> TRUE, v |-> here % 2^n, r |-> [r EXCEPT !.off = @ + n]]
             ELSE LET rest == ReadBits([r EXCEPT !.off = 0, !.byte = @ + 1], n - free)
                  IN  IF rest.ok THEN [rest EXCEPT !.v = here + @ * 2^free] ELSE Fail

NonReadBytes(r) == Len(r.bits) - r.byte
NonReadBits(r) == NonReadBytes(r) * ByteBits - r.off

(* fast.Reader.Read.                                                         *)
ReadBytes(r, n) ==
    IF r.pos + n > Len(r.bytes) THEN Fail
    ELSE [ok |-> TRUE, v |-> SubSeq(r.bytes, r.pos + 1, r.pos + n), r |-> [r EXCEPT !.pos = @ + n]]
-----------------------------------------------------------------------------
(* Numbers.  Little-endian digits, at least minSize of them.                 *)
RECURSIVE writeUint64BitCompact(_, _)
writeUint64BitCompact(v, minSize) ==
    IF minSize <= 0 /\ v = 0 THEN <<>>
    ELSE <<v % Base>> \o writeUint64BitCompact(v \div Base, minSize - 1)

Value(digits) == FoldFunctionOnSet(LAMBDA x, y : x + y, 0,
                                   [i \in DOMAIN digits |-> digits[i] * Base^(i - 1)], DOMAIN digits)

(* Mutant: a superfluous zero digit is accepted. *)
readUint64BitCompactLoose(digits) == [ok |-> TRUE, v |-> Value(digits)]

readUint64BitCompact(digits) ==
    IF Len(digits) > 1 /\ Last(digits) = 0 THEN Fail ELSE [ok |-> TRUE, v |-> Value(digits)]

WriteU64Bits(w, minSize, bitsForSize, v) ==
    LET digits == writeUint64BitCompact(v, minSize)
    IN  WriteBits([w EXCEPT !.bytes = @ \o digits], bitsForSize, Len(digits) - minSize)

ReadU64Bits(r, minSize, bitsForSize) ==
    LET size == ReadBits(r, bitsForSize)
        buf == ReadBytes(size.r, size.v + minSize)
        num == readUint64BitCompact(buf.v)
    IN  IF ~size.ok \/ ~buf.ok \/ ~num.ok THEN Fail ELSE [ok |-> TRUE, v |-> num.v, r |-> buf.r]

(* writeUint64Compact: digits of one bit less, the last one with a stop flag.*)
RECURSIVE writeUint64Compact(_)
writeUint64Compact(v) ==
    IF v < Base \div 2 THEN <<v + Base \div 2>>
    ELSE <<v % (Base \div 2)>> \o writeUint64Compact(v \div (Base \div 2))

RECURSIVE readUint64Compact(_, _, _)
readUint64Compact(buf, i, v) ==
    IF i >= Len(buf) THEN Fail
    ELSE LET word == buf[i + 1] % (Base \div 2)
             sum == v + word * (Base \div 2)^i
         IN  IF buf[i + 1] < Base \div 2 THEN readUint64Compact(buf, i + 1, sum)
             ELSE IF i > 0 /\ word = 0 THEN Fail ELSE [ok |-> TRUE, v |-> sum, size |-> i + 1]

BigBytes(v) == Reverse(writeUint64BitCompact(v, 0))

(* The Writer's methods.                                                     *)
WriteSlice(w, v) == [WriteU64Bits(w, 0, 3, Len(v)) EXCEPT !.bytes = @ \o v]

Put(w, kind, v) ==
    CASE kind = "U8"    -> [w EXCEPT !.bytes = Append(@, v)]
      [] kind = "U16"   -> WriteU64Bits(w, 1, 1, v)
      [] kind = "U32"   -> WriteU64Bits(w, 1, 2, v)
      [] kind = "U64"   -> WriteU64Bits(w, 1, 3, v)
      [] kind = "U56"   -> WriteU64Bits(w, 0, 3, v)
      [] kind = "I64"   -> WriteU64Bits(WriteBits(w, 1, IF v < 0 THEN 1 ELSE 0), 1, 3, IF v < 0 THEN -v ELSE v)
      [] kind = "Bool"  -> WriteBits(w, 1, IF v THEN 1 ELSE 0)
      [] kind = "Mark"  -> WriteBits(w, 6, 0)
      [] kind = "Fixed" -> [w EXCEPT !.bytes = Append(@, v)]
      [] kind = "Slice" -> WriteSlice(w, v)
      [] kind = "Big"   -> WriteSlice(w, BigBytes(v))

(* The Reader's methods.                                                     *)
ReadSlice(r, size) == IF size.ok THEN ReadBytes(size.r, size.v) ELSE Fail
ReadByte(got) == IF got.ok THEN [got EXCEPT !.v = @[1]] ELSE Fail
ReadSigned(neg, abs) ==
    IF ~neg.ok \/ ~abs.ok \/ (neg.v = 1 /\ abs.v = 0) THEN Fail
    ELSE [abs EXCEPT !.v = IF neg.v = 1 THEN -@ ELSE @]

Get(r, kind) ==
    CASE kind \in {"U8", "Fixed"} -> ReadByte(ReadBytes(r, 1))
      [] kind = "U16"   -> ReadU64Bits(r, 1, 1)
      [] kind = "U32"   -> ReadU64Bits(r, 1, 2)
      [] kind = "U64"   -> ReadU64Bits(r, 1, 3)
      [] kind = "U56"   -> ReadU64Bits(r, 0, 3)
      [] kind = "I64"   -> LET neg == ReadBits(r, 1) IN IF neg.ok THEN ReadSigned(neg, ReadU64Bits(neg.r, 1, 3)) ELSE Fail
      [] kind = "Bool"  -> LET b == ReadBits(r, 1) IN IF b.ok THEN [b EXCEPT !.v = @ = 1] ELSE Fail
      [] kind = "Slice" -> ReadSlice(r, ReadU64Bits(r, 0, 3))
      [] kind = "Big"   -> LET b == ReadSlice(r, ReadU64Bits(r, 0, 3))
                           IN  IF b.ok THEN [b EXCEPT !.v = Value(Reverse(@))] ELSE Fail
-----------------------------------------------------------------------------
(* The adapters: body, bits, and the size of the bits, back to front.        *)
NewWriter == [bytes |-> <<>>, bits |-> <<>>, off |-> 0, fresh |-> FALSE]

binaryFromCSER(w) == w.bytes \o w.bits \o Reverse(writeUint64Compact(Len(w.bits)))

binaryToCSER(raw) ==
    LET size == readUint64Compact(Reverse(SubSeq(raw, Max({1, Len(raw) - 8}), Len(raw))), 0, 0)
        body == Len(raw) - size.size
    IN  IF ~size.ok THEN Fail
        ELSE IF body < size.v THEN Fail
        ELSE [ok |-> TRUE,
              r |-> [bits |-> SubSeq(raw, body - size.v + 1, body), byte |-> 0, off |-> 0,
                     bytes |-> SubSeq(raw, 1, body - size.v), pos |-> 0]]

(* Everything has been read, and the bits left over are zero.                *)
AllRead(r) ==
    /\ NonReadBytes(r) <= 1
    /\ ReadBits(r, NonReadBits(r)).v = 0
    /\ r.pos = Len(r.bytes)
-----------------------------------------------------------------------------
(* Layouts.  An encoder lists the fields; a decoder knows the kind of the    *)
(* next field from the values it has read.                                   *)

EmptyTxHash == 0
Legacy == 0
AccessList == 1

(* TransactionMarshalCSER.                                                   *)
TxFields(tx) ==
    (IF tx.type # Legacy THEN << <<"Mark", 0>>, <<"U8", tx.type>> >> ELSE <<>>) \o
    << <<"U64", tx.nonce>>, <<"U64", tx.gas>>, <<"Big", tx.price>>, <<"Big", tx.value>>, <<"Bool", tx.to # <<>> >> >> \o
    (IF tx.to # <<>> THEN << <<"Fixed", tx.to[1]>> >> ELSE <<>>) \o
    << <<"Slice", tx.data>>, <<"Big", tx.v>>, <<"Fixed", tx.sig>> >> \o
    (IF tx.type # AccessList THEN <<>>
     ELSE << <<"Big", tx.chain>>, <<"U32", Len(tx.list)>> >> \o
          FlattenSeq([i \in DOMAIN tx.list |-> << <<"Fixed", tx.list[i].addr>>, <<"U32", Len(tx.list[i].keys)>> >> \o
                        [j \in DOMAIN tx.list[i].keys |-> <<"Fixed", tx.list[i].keys[j]>>]]))

(* Mutant: a legacy transaction with any gas is written. *)
SerializableAny(tx) == tx.type \in {Legacy, AccessList}

(* A legacy transaction with little gas would look like a marker.            *)
Serializable(tx) == tx.type \in {Legacy, AccessList} /\ (tx.type = Legacy => tx.gas >= Base)

(* Event.MarshalCSER, then the signature and transactions of EventPayload.   *)
(* Parents are written without their epoch and read with the event's: the    *)
(* events here have parents of their epoch, as the emitter chooses them.     *)
EventFields(e) ==
    << <<"U32", e.epoch>>, <<"U32", e.lamport>>, <<"U32", e.creator>>, <<"U32", e.seq>>, <<"U32", e.frame>>,
       <<"U64", e.created>>, <<"I64", e.created - e.median>>, <<"U64", e.used>>, <<"U64", e.left[1]>>,
       <<"U64", e.left[2]>>, <<"U32", Len(e.parents)>> >> \o
    FlattenSeq([i \in DOMAIN e.parents |-> << <<"U32", e.lamport - e.parents[i].lamport>>, <<"Fixed", e.parents[i].hash>> >>]) \o
    << <<"Bool", e.prev # <<>> >> >> \o (IF e.prev # <<>> THEN << <<"Fixed", e.prev[1]>> >> ELSE <<>>) \o
    << <<"Bool", e.txHash # EmptyTxHash>> >> \o
    (IF e.txHash # EmptyTxHash THEN << <<"Fixed", e.txHash>> >> ELSE <<>>) \o
    << <<"Slice", e.extra>> >>

PayloadFields(e) ==
    EventFields(e) \o << <<"Fixed", e.sig>> >> \o
    (IF e.txHash = EmptyTxHash THEN <<>>
     ELSE << <<"U56", Len(e.txs)>> >> \o FlattenSeq([i \in DOMAIN e.txs |-> TxFields(e.txs[i])]))

MarshalError(e) ==
    \/ \E i \in DOMAIN e.parents : e.lamport < e.parents[i].lamport
    \/ (e.txHash = EmptyTxHash) # (e.txs = <<>>)
    \/ \E i \in DOMAIN e.txs : ~Serializable(e.txs[i])
-----------------------------------------------------------------------------
(* Decoding.  todo is what remains to be read, vals what has been.           *)
EventStart == <<"U32", "U32", "U32", "U32", "U32", "U64", "I64", "U64", "U64", "U64", "Parents",
                "Prev", "TxHash", "Slice", "Fixed", "Txs">>
TxStart == <<"U64", "U64", "Big", "Big", "To", "Slice", "Big", "Fixed">>

Repeat(n, kinds) == FlattenSeq([i \in 1..n |-> kinds])

(* What a field that was read adds to what remains.                          *)
Follow(kind, v) ==
    CASE kind = "Parents" -> Repeat(v, <<"U32", "Fixed">>)
      [] kind \in {"Prev", "To"} -> IF v THEN <<"Fixed">> ELSE <<>>
      [] kind = "TxHash" -> IF v THEN <<"NonEmpty">> ELSE <<>>
      [] kind = "Txs" -> Repeat(v, <<"Tx">>)
      [] kind = "Type" -> TxStart \o (IF v = AccessList THEN <<"Big", "List">> ELSE <<>>)
      [] kind = "List" -> Repeat(v, <<"Fixed", "Keys">>)
      [] kind = "Keys" -> Repeat(v, <<"Fixed">>)
      [] OTHER -> <<>>

As(kind) ==
    CASE kind \in {"Parents", "List", "Keys"} -> "U32"
      [] kind \in {"Prev", "To", "TxHash"} -> "Bool"
      [] kind = "NonEmpty" -> "Fixed"
      [] kind = "Txs" -> "U56"
      [] kind = "Type" -> "U8"
      [] OTHER -> kind

-----------------------------------------------------------------------------
(* One field is written, or read, at a time.  item is an event to marshal    *)
(* and read back, or a single number, or bytes offered as one number.        *)
VARIABLES item, phase, io, todo, vals

cvars == <<item, phase, io, todo, vals>>

Fields(it) == IF it.kind = "event" THEN PayloadFields(it.e) ELSE << <<it.kind, vals[2]>> >>
Layout(it) == IF it.kind = "event" THEN EventStart ELSE <<it.kind>>
Expected(it) == [i \in DOMAIN Fields(it) |-> Fields(it)[i][2]]

CserInit(items) ==
    /\ item \in items
    /\ vals = <<EmptyTxHash>>
    /\ IF item.kind = "event"
       THEN /\ phase = IF MarshalError(item.e) THEN "refused" ELSE "write"
            /\ io = NewWriter
            /\ todo = PayloadFields(item.e)
       ELSE phase = "open" /\ io = item.e /\ todo = <<>>

WriteField ==
    /\ phase = "write" /\ todo # <<>>
    /\ io' = Put(io, Head(todo)[1], Head(todo)[2])
    /\ todo' = Tail(todo)
    /\ UNCHANGED <<item, phase, vals>>

(* MarshalBinaryAdapter ends.                                                *)
Pack ==
    /\ phase = "write" /\ todo = <<>>
    /\ io' = binaryFromCSER(io)
    /\ phase' = IF item.kind = "event" THEN "open" ELSE "rewritten"
    /\ UNCHANGED <<item, todo, vals>>

(* UnmarshalBinaryAdapter begins.                                            *)
Open ==
    /\ phase = "open"
    /\ \E got \in {IF io = <<>> THEN Fail ELSE binaryToCSER(io)} :
          /\ phase' = IF got.ok THEN "read" ELSE "malformed"
          /\ io' = IF got.ok THEN got.r ELSE io
    /\ todo' = Layout(item)
    /\ UNCHANGED <<item, vals>>

(* eventUnmarshalCSER, UnmarshalCSER and TransactionUnmarshalCSER, a field   *)
(* at a time.                                                                *)
Accepts(kind, got) ==
    /\ got.ok
    /\ kind = "NonEmpty" => got.v # EmptyTxHash
    /\ kind = "Type" => got.v \in {Legacy, AccessList}

ReadField ==
    /\ phase = "read" /\ todo # <<>>
    /\ Head(todo) # "Tx"
    /\ ~(Head(todo) = "Txs" /\ vals[1] = EmptyTxHash)
    /\ \E got \in {Get(io, As(Head(todo)))} :
         IF Accepts(Head(todo), got)
         THEN /\ io' = got.r
              /\ todo' = Follow(Head(todo), got.v) \o Tail(todo)
              /\ vals' = IF Head(todo) = "NonEmpty" THEN [Append(vals, got.v) EXCEPT ![1] = got.v]
                         ELSE Append(vals, got.v)
              /\ UNCHANGED phase
         ELSE phase' = "malformed" /\ UNCHANGED <<io, todo, vals>>
    /\ UNCHANGED item

NoTransactions ==
    /\ phase = "read" /\ todo # <<>>
    /\ Head(todo) = "Txs" /\ vals[1] = EmptyTxHash
    /\ todo' = Tail(todo)
    /\ UNCHANGED <<item, phase, io, vals>>

ReadMarker ==
    /\ phase = "read" /\ todo # <<>>
    /\ Head(todo) = "Tx"
    /\ \E mark \in {ReadBits(io, 6)} :
         /\ phase' = IF mark.ok THEN phase ELSE "malformed"
         /\ IF mark.ok /\ mark.v = 0
            THEN io' = mark.r /\ todo' = <<"Type">> \o Tail(todo) /\ vals' = Append(vals, 0)
            ELSE todo' = TxStart \o Tail(todo) /\ UNCHANGED <<io, vals>>
    /\ UNCHANGED item

(* The end of UnmarshalBinaryAdapter; a number that was offered as bytes is  *)
(* then written again.                                                       *)
CheckRead ==
    /\ phase = "read" /\ todo = <<>>
    /\ phase' = IF ~AllRead(io) THEN "malformed" ELSE IF item.kind = "event" THEN "done" ELSE "write"
    /\ IF phase' = "write" THEN io' = NewWriter /\ todo' = Fields(item) ELSE UNCHANGED <<io, todo>>
    /\ UNCHANGED <<item, vals>>

CserNext == WriteField \/ Pack \/ Open \/ ReadField \/ NoTransactions \/ ReadMarker \/ CheckRead
-----------------------------------------------------------------------------
(* Every event that can be marshalled, with parents of its own epoch, is     *)
(* read back with the same fields, in spite of the bits and bytes kept       *)
(* apart, the optional fields and the marker of a transaction type.          *)
RoundTrip ==
    item.kind = "event" => /\ phase # "malformed"
                           /\ phase = "done" => Tail(vals) = Expected(item)

(* A number, or a flag, has one encoding only, save one: whatever bytes are  *)
(* accepted for it are the bytes it is written as, except that a zero byte   *)
(* may follow the bits when they end with a byte.                            *)
NumberIsCanonical ==
    phase = "rewritten" =>
        LET given == binaryToCSER(item.e).r
            own == binaryToCSER(io).r
        IN  given.bytes = own.bytes /\ given.bits \in {own.bits, Append(own.bits, 0)}

(* "check that everything is read": no byte of the bits is left over.        *)
EverythingIsRead == phase = "rewritten" => io = item.e
=============================================================================
