------------------------------ MODULE PgTypes ------------------------------
(***************************************************************************)
(* The C++ parameter types psql encodes, as records: an integer of a byte  *)
(* width, text (const char*, string_view and string share one encoding), *)
(* a system_clock time point, a composite (a user-defined struct, named   *)
(* by user_defined<T>::name, or a std::tuple, named "tuple") of member     *)
(* types, or an array of an element type.  A value is [type, val]; val is *)
(* an integer, a byte sequence, or a sequence of values.                   *)
(***************************************************************************)

IntT(w)       == [kind |-> "int", width |-> w]
TextT         == [kind |-> "text"]
TimeT         == [kind |-> "time"]
CompT(n, fs)  == [kind |-> "composite", name |-> n, fields |-> fs]
ArrT(e)       == [kind |-> "array", elem |-> e]

Val(t, x) == [type |-> t, val |-> x]

(* Mutant: every composite taken for a user-defined one.                  *)
IsAnyComposite(t) == t.kind = "composite"

(* is_user_defined_v<T>: a composite that is not a std::tuple.             *)
IsUdt(t) == t.kind = "composite" /\ t.name # "tuple"

=============================================================================
