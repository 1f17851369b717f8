-------------------------- MODULE MCSerialization --------------------------
(* Argument values for checking the encoders: every kind of serialize_impl,*)
(* negative integers (two's complement bytes), the empty text, the 2000    *)
(* epoch, a user-defined composite, a tuple, an empty integer array and an *)
(* array of composites, so that one argument list outgrows the 15-byte     *)
(* small-string capacity of an unreserved buffer.                          *)
EXTENDS Serialization, TLC

I2  == Val(IntT(2), -1)
I8  == Val(IntT(8), -2)
T0  == Val(TextT, <<>>)
T2  == Val(TextT, <<97, 98>>)
Point == CompT("point", <<IntT(4), IntT(4)>>)
P   == Val(Point, <<Val(IntT(4), 3), Val(IntT(4), -4)>>)
Tup == Val(CompT("tuple", <<TextT, IntT(2)>>), <<T2, I2>>)
A0  == Val(ArrT(IntT(4)), <<>>)
AP  == Val(ArrT(Point), <<P>>)

(* Time points in nanoseconds since 1970; with PgEpochUs = 3 the first is  *)
(* the 2000 epoch (eight zero bytes), the second lies before 1970, and the *)
(* third, also before 1970, has a sub-microsecond part.                    *)
TimePoints == {Val(TimeT, 3000), Val(TimeT, -2000), Val(TimeT, -1500)}

Args(vals) == {<<>>} \cup {<<v>> : v \in vals} \cup {<<v, w>> : v, w \in vals}

MCUdtOid == [point |-> [self |-> 16390, array |-> 16389]]

MCArgLists == Args({I2, I8, T0, T2, P, Tup, A0, AP} \cup TimePoints)

=============================================================================
