--------------------------- MODULE Serialization ---------------------------
(***************************************************************************)
(* The binary parameter encoder of psql (serialization.hpp) and the two    *)
(* ways the sources build libpq's parameter arrays from an argument list:  *)
(* serialize(omp, buffer, params) (serialization.hpp 27-50), which         *)
(* reserves the whole size up front and keeps pointers taken while         *)
(* appending, and the psql::params class (params.hpp), which appends       *)
(* first and turns offsets into pointers afterwards.                       *)
(* Types and values are those of PgTypes.                                *)
(***************************************************************************)
EXTENDS Integers, Sequences, SequencesExt, PgTypes

CONSTANTS
    NsPerUs,     \* system_clock ticks per microsecond (1000 in libstdc++)
    PgEpochUs,   \* 946684800000000 microseconds, scaled down for TLC
    UdtOid,      \* the oid_map: user-defined type name -> [self, array] OIDs
    ArgLists     \* the argument lists an exec may pass

-----------------------------------------------------------------------------
(* oid_of<T>(omp) (oid_of.hpp is not among the sources; from spec 4.A):    *)
(* built-in OIDs, the map for a user-defined type, RECORD for a tuple.     *)
Oid(t) ==
    CASE t.kind = "int"  -> (2 :> 21 @@ 4 :> 23 @@ 8 :> 20)[t.width]
      [] t.kind = "text" -> 25
      [] t.kind = "time" -> 1184
      [] t.kind = "composite" -> IF t.name = "tuple" THEN 2249
                                 ELSE UdtOid[t.name].self
      [] t.kind = "array" ->
            CASE t.elem.kind = "int"  -> (2 :> 1005 @@ 4 :> 1007 @@ 8 :> 1016)[t.elem.width]
              [] t.elem.kind = "text" -> 1009
              [] t.elem.kind = "time" -> 1185
              [] t.elem.kind = "composite" ->
                    IF t.elem.name = "tuple" THEN 2287 ELSE UdtOid[t.elem.name].array

(* size_of(v) (size_of.hpp is not among the sources; spec 4.B: recursive, *)
(* matching serialize byte for byte).  SizesOf adds h header bytes per     *)
(* member or element.                                                      *)
RECURSIVE SizeOf(_), SizesOf(_, _)
SizesOf(vs, h) ==
    IF vs = <<>> THEN 0 ELSE h + SizeOf(Head(vs)) + SizesOf(Tail(vs), h)

SizeOf(v) ==
    CASE v.type.kind = "int"       -> v.type.width
      [] v.type.kind = "text"      -> Len(v.val)
      [] v.type.kind = "time"      -> 8
      [] v.type.kind = "composite" -> 4 + SizesOf(v.val, 8)
      [] v.type.kind = "array"     -> 20 + SizesOf(v.val, 4)

-----------------------------------------------------------------------------
(* serialize_impl<integral>: resize by sizeof(T) and endian_store the      *)
(* value big-endian, two's complement.                                     *)
RECURSIVE BigEndian(_, _)
BigEndian(x, w) ==
    IF w = 0 THEN <<>> ELSE BigEndian(x \div 256, w - 1) \o <<x % 256>>

Int32(x) == BigEndian(x, 4)

(* Mutant: the sign of a time point before 1970 is lost.                    *)
PgTimeAbs(ns) ==
    (IF ns >= 0 THEN ns \div NsPerUs ELSE (-ns) \div NsPerUs) - PgEpochUs

(* duration_cast<microseconds> of a nanosecond count truncates toward zero *)
(* like C++ integer division; then the 2000-01-01 offset is subtracted.    *)
PgTime(ns) ==
    (IF ns >= 0 THEN ns \div NsPerUs ELSE -((-ns) \div NsPerUs)) - PgEpochUs

(* serialize() returns the appends it makes to the buffer, one byte        *)
(* sequence per resize/append call, in order; the buffer's growth depends  *)
(* on them one by one.                                                     *)
RECURSIVE Serialize(_), SerializeMembers(_), SerializeElements(_)

(* for_each_field / std::apply: serialize_member of each field: its oid,   *)
(* its size_of, then the field itself.                                     *)
SerializeMembers(vs) ==
    IF vs = <<>> THEN <<>>
    ELSE <<Int32(Oid(Head(vs).type)), Int32(SizeOf(Head(vs)))>>
            \o Serialize(Head(vs)) \o SerializeMembers(Tail(vs))

(* for (const auto& value : array): its size_of, then the element.         *)
SerializeElements(vs) ==
    IF vs = <<>> THEN <<>>
    ELSE <<Int32(SizeOf(Head(vs)))>> \o Serialize(Head(vs))
            \o SerializeElements(Tail(vs))

(* The field count, then the members.                                      *)
SerializeComposite(v) == <<Int32(Len(v.val))>> \o SerializeMembers(v.val)

(* ndim 1, no nulls, element OID, size, lower bound 0, then the elements.  *)
SerializeArray(v) ==
    <<Int32(1), Int32(0), Int32(Oid(v.type.elem)), Int32(Len(v.val)), Int32(0)>>
        \o SerializeElements(v.val)

Serialize(v) ==
    CASE v.type.kind = "int"       -> <<BigEndian(v.val, v.type.width)>>
      [] v.type.kind = "time"      -> <<BigEndian(PgTime(v.val), 8)>>
      [] v.type.kind = "text"      -> <<v.val>>
      [] v.type.kind = "composite" -> SerializeComposite(v)
      [] v.type.kind = "array"     -> SerializeArray(v)

Bytes(v) == FlattenSeq(Serialize(v))

-----------------------------------------------------------------------------
(* The std::string buffer of serialize(omp, buffer, params): its bytes,    *)
(* its capacity, the number of times it has moved to a new allocation      *)
(* (gen), and the pointers handed out into it, each with the gen it was    *)
(* taken in.  libstdc++ (_M_create): growing past the capacity allocates   *)
(* max(request, 2 * capacity) and moves the bytes, leaving every earlier   *)
(* pointer dangling.                                                       *)
NewCap(cap, n) == IF n < 2 * cap THEN 2 * cap ELSE n

(* reserve(n)                                                              *)
Reserve(acc, n) ==
    IF n <= acc.cap THEN acc
    ELSE [acc EXCEPT !.cap = NewCap(acc.cap, n), !.gen = @ + 1]

(* The resize/append calls of serialize_impl::apply, one by one: in place  *)
(* when the bytes fit, else into a new allocation.                         *)
RECURSIVE AppendAll(_, _)
AppendAll(acc, cs) ==
    IF cs = <<>> THEN acc
    ELSE LET n == Len(acc.bytes) + Len(Head(cs))
         IN  IF n <= acc.cap
             THEN AppendAll([acc EXCEPT !.bytes = @ \o Head(cs)], Tail(cs))
             ELSE AppendAll([acc EXCEPT !.bytes = @ \o Head(cs),
                                        !.cap = NewCap(acc.cap, n),
                                        !.gen = @ + 1], Tail(cs))

(* serialize(omp, buffer, v): ret = &buffer.front() + buffer.size(), then  *)
(* the appends of serialize_impl<T>::apply.                                *)
SerializeArg(acc, v) ==
    AppendAll([acc EXCEPT !.ptrs = Append(@, [off |-> Len(acc.bytes), gen |-> acc.gen])],
              Serialize(v))

RECURSIVE SerializeArgs(_, _)
SerializeArgs(acc, args) ==
    IF args = <<>> THEN acc
    ELSE SerializeArgs(SerializeArg(acc, Head(args)), Tail(args))

(* Mutant: no reserve before serializing.                                  *)
ParamsSizeNone(args) == 0

(* (0 + ... + size_of(args)), the size reserved.                           *)
ParamsSize(args) == SizesOf(args, 0)

(* serialize(omp, buffer, params): clear, reserve, then the four arrays;   *)
(* the braced initializer evaluates the serialize calls left to right.  A  *)
(* returned pointer is live if the buffer has not moved since.             *)
SerializeParams(capacity, args) ==
    LET cleared  == [bytes |-> <<>>, cap |-> capacity, gen |-> 0, ptrs |-> <<>>]
        filled   == SerializeArgs(Reserve(cleared, ParamsSize(args)), args)
    IN  [cap   |-> filled.cap,
         block |-> [args    |-> args,
                    bytes   |-> filled.bytes,
                    types   |-> [j \in DOMAIN args |-> Oid(args[j].type)],
                    values  |-> [j \in DOMAIN args |->
                                   [off  |-> filled.ptrs[j].off,
                                    live |-> filled.ptrs[j].gen = filled.gen]],
                    lengths |-> [j \in DOMAIN args |-> SizeOf(args[j])]]]

-----------------------------------------------------------------------------
(* psql::params (params.hpp): add() pushes the OID and size_of and appends *)
(* the encoding to buffer_, which grows as std::string does; then          *)
(* convert_offsets() walks the lengths.  A value pointer is null or an     *)
(* offset into buffer_, live while buffer_'s storage is where it was.      *)
ParamsAdd(p, v) ==
    LET n == Len(p.buffer) + SizeOf(v)
    IN  [p EXCEPT !.types = Append(@, Oid(v.type)),
                  !.lengths = Append(@, SizeOf(v)),
                  !.buffer = @ \o Bytes(v),
                  !.cap = IF n <= p.cap THEN p.cap ELSE NewCap(p.cap, n)]

RECURSIVE AddAll(_, _)
AddAll(p, args) ==
    IF args = <<>> THEN p ELSE AddAll(ParamsAdd(p, Head(args)), Tail(args))

(* Mutant: offset += length is dropped.                                    *)
RECURSIVE OffsetsNoAdvance(_, _)
OffsetsNoAdvance(offset, lens) ==
    IF lens = <<>> THEN <<>>
    ELSE <<[null |-> Head(lens) = 0, off |-> offset, live |-> TRUE]>>
            \o OffsetsNoAdvance(offset, Tail(lens))

(* The loop of convert_offsets(): values_.push_back(length ?               *)
(* buffer_.data() + offset : nullptr); offset += length.                   *)
RECURSIVE Offsets(_, _)
Offsets(offset, lens) ==
    IF lens = <<>> THEN <<>>
    ELSE <<[null |-> Head(lens) = 0, off |-> offset, live |-> TRUE]>>
            \o Offsets(offset + Head(lens), Tail(lens))

(* A default-constructed std::string keeps up to 15 bytes in the object    *)
(* itself (libstdc++'s small-string buffer).                               *)
SsoCapacity == 15

(* An empty psql::params (its buffer_ freshly constructed).                *)
NoParams == [args |-> <<>>, types |-> <<>>, lengths |-> <<>>, buffer |-> <<>>,
             values |-> <<>>, cap |-> SsoCapacity]

(* Mutant: the offsets counted from one.                                  *)
MakeParamsFromOne(args) ==
    LET p == AddAll([NoParams EXCEPT !.args = args, !.cap = NewCap(@, 64)], args)
    IN  [p EXCEPT !.values = Offsets(1, p.lengths)]

(* params(omp, args...): buffer_.reserve(64), add each argument, convert   *)
(* offsets (formats_ all 1).                                               *)
MakeParams(args) ==
    LET p == AddAll([NoParams EXCEPT !.args = args, !.cap = NewCap(@, 64)], args)
    IN  [p EXCEPT !.values = Offsets(0, p.lengths)]

(* The implicit move constructor of psql::params: the vectors move their   *)
(* arrays, so values_ keeps its pointers; std::string's move takes over a  *)
(* heap allocation but copies bytes held in the small-string buffer into   *)
(* the new object, leaving those pointers in the old one, which is gone.   *)
MovedParams(p) ==
    [p EXCEPT !.values = [i \in DOMAIN p.values |->
                            [p.values[i] EXCEPT !.live = @ /\ p.cap > SsoCapacity]]]

-----------------------------------------------------------------------------
(* Reference: the wire format of spec section 3, read back.                *)
(* A big-endian integer; magnitudes beyond 2^22 saturate before the next  *)
(* byte, which keeps TLC's 32-bit arithmetic exact for every value of the  *)
(* models (all far smaller) and any other value far from them.             *)
Saturate(x) == IF x > 2^22 THEN 2^22 ELSE IF x < -(2^22) THEN -(2^22) ELSE x

RECURSIVE BEValue(_, _)
BEValue(acc, b) ==
    IF b = <<>> THEN acc ELSE BEValue(Saturate(acc) * 256 + Head(b), Tail(b))

SignedBE(b) == BEValue(IF Head(b) >= 128 THEN Head(b) - 256 ELSE Head(b), Tail(b))

Int32At(b, n) == SignedBE(SubSeq(b, n, n + 3))

RECURSIVE Encodes(_, _), MembersEncode(_, _, _)

(* Each member or element: [int32 oid,] int32 length, then its bytes.      *)
MembersEncode(vs, b, withOid) ==
    LET h == IF withOid THEN 8 ELSE 4
    IN  IF vs = <<>> THEN b = <<>>
        ELSE /\ Len(b) >= h
             /\ withOid => Int32At(b, 1) = Oid(Head(vs).type)
             /\ LET n == Int32At(b, h - 3)
                IN  /\ 0 <= n /\ h + n <= Len(b)
                    /\ Encodes(Head(vs), SubSeq(b, h + 1, h + n))
                    /\ MembersEncode(Tail(vs), SubSeq(b, h + n + 1, Len(b)), withOid)

(* us microseconds since 2000 denote the time point of ns nanoseconds     *)
(* since 1970 at the wire format's resolution: less than a microsecond    *)
(* away from it.                                                           *)
DenotesTime(us, ns) ==
    (us + PgEpochUs) * NsPerUs - ns \in -(NsPerUs - 1)..(NsPerUs - 1)

(* b is a binary encoding of v.                                            *)
Encodes(v, b) ==
    CASE v.type.kind = "int"  -> Len(b) = v.type.width /\ SignedBE(b) = v.val
      [] v.type.kind = "time" -> Len(b) = 8 /\ Saturate(SignedBE(b)) = SignedBE(b)
                                 /\ DenotesTime(SignedBE(b), v.val)
      [] v.type.kind = "text" -> b = v.val
      [] v.type.kind = "composite" ->
            /\ Len(b) >= 4 /\ Int32At(b, 1) = Len(v.val)
            /\ MembersEncode(v.val, SubSeq(b, 5, Len(b)), TRUE)
      [] v.type.kind = "array" ->
            /\ Len(b) >= 20
            /\ <<Int32At(b, 1), Int32At(b, 5), Int32At(b, 9), Int32At(b, 13),
                 Int32At(b, 17)>> = <<1, 0, Oid(v.type.elem), Len(v.val), 0>>
            /\ MembersEncode(v.val, SubSeq(b, 21, Len(b)), FALSE)

-----------------------------------------------------------------------------
VARIABLES
    cap,   \* capacity of the caller's std::string buffer
    sp,    \* the arrays serialize(omp, buffer, params) returned last, with
           \* the buffer's bytes
    pp     \* the last psql::params object constructed

vars == <<cap, sp, pp>>

NoBlock  == [args |-> <<>>, bytes |-> <<>>, types |-> <<>>, values |-> <<>>,
             lengths |-> <<>>]

Init ==
    /\ cap = 15                   \* an empty std::string (SSO capacity)
    /\ sp = NoBlock
    /\ pp = NoParams

(* An exec serializes its arguments into the (reused) buffer.             *)
SerializeCall(args) ==
    LET r == SerializeParams(cap, args)
    IN  cap' = r.cap /\ sp' = r.block /\ pp' = NoParams

(* An exec constructs a psql::params from its arguments.                   *)
ParamsCall(args) ==
    pp' = MakeParams(args) /\ sp' = NoBlock /\ UNCHANGED cap

(* The application moves its psql::params into another object (a return,  *)
(* a container) and the original goes away.                                *)
MoveParams ==
    /\ pp # NoParams
    /\ pp' = MovedParams(pp)
    /\ UNCHANGED <<cap, sp>>

Next == \/ \E args \in ArgLists : SerializeCall(args) \/ ParamsCall(args)
        \/ MoveParams

Spec == Init /\ [][Next]_vars


-----------------------------------------------------------------------------
TypeOK ==
    /\ cap \in Nat /\ Len(sp.bytes) <= cap
    /\ \A i \in DOMAIN sp.values : sp.values[i].off \in 0..Len(sp.bytes)
    /\ \A i \in DOMAIN pp.values : pp.values[i].off \in 0..Len(pp.buffer)

(* What serialize(omp, buffer, params) hands to PQsendQueryParams          *)
(* describes the arguments: every value pointer still points into the      *)
(* buffer's current allocation (no append after it was taken moved the     *)
(* bytes), and the lengths[i] bytes there are argument i in the wire       *)
(* format of spec 3, with lengths[i] = size_of.                            *)
SerializedParamsDescribeArgs ==
    \A i \in DOMAIN sp.args :
       LET p == sp.values[i]
       IN  /\ p.live
           /\ p.off + sp.lengths[i] <= Len(sp.bytes)
           /\ Encodes(sp.args[i], SubSeq(sp.bytes, p.off + 1, p.off + sp.lengths[i]))

(* The bytes psql::params points at are right, however the object got     *)
(* where it is: for every parameter with a value pointer, the pointer      *)
(* still reaches the object's own buffer_ (also after the object was moved *)
(* any number of times, which keeps a heap buffer but copies a small one), *)
(* and the lengths[i] bytes at its offset are argument i in the wire       *)
(* format (convert_offsets walks the same lengths add() appended).         *)
ParamsOffsetsAgree ==
    \A i \in DOMAIN pp.args :
       LET p == pp.values[i]
       IN  ~p.null =>
              /\ p.live
              /\ p.off + pp.lengths[i] <= Len(pp.buffer)
              /\ Encodes(pp.args[i], SubSeq(pp.buffer, p.off + 1, p.off + pp.lengths[i]))

(* The time points serialize() wrote keep their order in the bytes sent:  *)
(* duration_cast truncates toward zero, before 1970 as after, so the loss  *)
(* of the sub-microsecond part (which SerializedParamsDescribeArgs bounds) *)
(* never puts a later time point before an earlier one, across 1970 and   *)
(* the 2000 epoch.                                                         *)
TimeEncodingFaithful ==
    LET Us(i)  == SignedBE(SubSeq(sp.bytes, sp.values[i].off + 1,
                                            sp.values[i].off + 8))
        Times  == {i \in DOMAIN sp.args : sp.args[i].type.kind = "time"}
    IN  \A i, j \in Times : sp.args[i].val <= sp.args[j].val => Us(i) <= Us(j)

(* libpq sends a parameter whose value pointer is null as SQL NULL.  Every *)
(* argument of psql::params reaches the server as its value: none is sent *)
(* as NULL (spec 8: a zero-length text is zero bytes with length 0).       *)
ParamsSendArgs ==
    \A i \in DOMAIN pp.args : ~pp.values[i].null

=============================================================================
