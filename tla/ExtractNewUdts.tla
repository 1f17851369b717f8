--------------------------- MODULE ExtractNewUdts ---------------------------
(***************************************************************************)
(* extract_new_udts<T>(new_udts, omp) (extract_new_udts.hpp): the walk     *)
(* over a parameter type that lists the user-defined types the oid_map     *)
(* does not know yet, and the exec flow of spec 4.E.2 step 1 around it:   *)
(* an exec extracts over its argument types, resolves what was listed     *)
(* (psql::connection is not among the sources; from the spec), and only   *)
(* then serializes, which looks up oid_of for the types it meets.          *)
(***************************************************************************)
EXTENDS Sequences, SequencesExt, PgTypes

CONSTANTS
    Udts,        \* names of the user-defined types the application declares
    ArgLists     \* the argument type lists an exec may pass

VARIABLES
    registered,  \* the names the oid_map holds OIDs for
    lookedUp,    \* new_udts of the last exec, in the order pushed
    consulted    \* names whose OIDs the last serialization looked up

vars == <<registered, lookedUp, consulted>>

-----------------------------------------------------------------------------
(* Mutant: a registered type is not walked into.                          *)
RECURSIVE ExtractSkipRegistered(_, _), ExtractEachSkip(_, _)
ExtractEachSkip(ts, omp) ==
    IF ts = <<>> THEN <<>>
    ELSE ExtractSkipRegistered(Head(ts), omp) \o ExtractEachSkip(Tail(ts), omp)
ExtractSkipRegistered(t, omp) ==
    CASE t.kind = "array"              -> ExtractSkipRegistered(t.elem, omp)
      [] IsUdt(t) /\ t.name \in omp    -> <<>>
      [] IsUdt(t)                      -> <<t.name>> \o ExtractEachSkip(t.fields, omp)
      [] t.kind = "composite"          -> ExtractEachSkip(t.fields, omp)
      [] OTHER                         -> <<>>

(* The fold over a type list: extract_new_udts<Ts>(new_udts, omp), ...     *)
RECURSIVE ExtractNewUdts(_, _), ExtractEach(_, _)

(* Mutant: only the first parameter type is walked.                       *)
ExtractFirstOnly(ts, omp) ==
    IF ts = <<>> THEN <<>> ELSE ExtractNewUdts(Head(ts), omp)

ExtractEach(ts, omp) ==
    IF ts = <<>> THEN <<>>
    ELSE ExtractNewUdts(Head(ts), omp) \o ExtractEach(Tail(ts), omp)

(* An array recurses into its value_type; a user-defined composite pushes *)
(* itself unless omp.contains it, then walks its fields; a tuple walks its *)
(* members; any other type adds nothing.                                   *)
ExtractNewUdts(t, omp) ==
    CASE t.kind = "array"     -> ExtractNewUdts(t.elem, omp)
      [] IsUdt(t)             -> (IF t.name \in omp THEN <<>> ELSE <<t.name>>)
                                    \o ExtractEach(t.fields, omp)
      [] t.kind = "composite" -> ExtractEach(t.fields, omp)
      [] OTHER                -> <<>>

-----------------------------------------------------------------------------
(* The types serialize() calls oid_of on for a value of type t, besides t  *)
(* itself: each member of a composite (serialize_member), and an array's  *)
(* value_type, whose elements are then serialized.                         *)
RECURSIVE OidsInside(_)
OidsInside(t) ==
    CASE t.kind = "composite" ->
            UNION {{t.fields[i]} \cup OidsInside(t.fields[i]) : i \in DOMAIN t.fields}
      [] t.kind = "array"     -> {t.elem} \cup OidsInside(t.elem)
      [] OTHER                -> {}

(* The user-defined names behind oid_of<T>(omp): T itself, or the element  *)
(* of an array T (whose array OID the map holds with the type's own).      *)
UdtNameOf(t) ==
    IF IsUdt(t) THEN {t.name}
    ELSE IF t.kind = "array" /\ IsUdt(t.elem) THEN {t.elem.name} ELSE {}

(* serialize(omp, buffer, params): oid_of for every argument, then inside. *)
ConsultedBy(args) ==
    UNION {UdtNameOf(u) : u \in UNION {{args[i]} \cup OidsInside(args[i]) : i \in DOMAIN args}}

-----------------------------------------------------------------------------
(* The application may construct its oid_map with any of its types.        *)
Init ==
    /\ registered \in SUBSET Udts
    /\ lookedUp = <<>>
    /\ consulted = {}

(* An exec: extract over the argument types; if the list is not empty,     *)
(* look the names up and add the OIDs found to the map (a name the         *)
(* database does not know fails the exec before anything is serialized);   *)
(* then serialize.                                                         *)
Exec(args) ==
    LET new == ExtractEach(args, registered)
    IN  /\ lookedUp' = new
        /\ \/ /\ registered' = registered \cup ToSet(new)
              /\ consulted' = ConsultedBy(args)
           \/ /\ new # <<>>
              /\ UNCHANGED registered
              /\ consulted' = {}

Next == \E args \in ArgLists : Exec(args)

Spec == Init /\ [][Next]_vars

-----------------------------------------------------------------------------
(* The map, the lookups and the OIDs serialize needs only ever concern    *)
(* the application's user-defined types (never a std::tuple).              *)
TypeOK ==
    /\ registered \subseteq Udts
    /\ ToSet(lookedUp) \subseteq Udts
    /\ consulted \subseteq Udts

(* Spec 4.A: serialize never needs an OID the map lacks.  Every user-      *)
(* defined type whose OID serialize() looks up, at any depth of any        *)
(* argument (a member of a member, the element of an array member), is in  *)
(* the map by the time it serializes, having been listed by the walk if    *)
(* it was not there before.                                                *)
SerializeFindsOids == consulted \subseteq registered

(* The walk lists exactly the user-defined types serialize will look up    *)
(* that the map lacks: none is missed, and no registered or unused one     *)
(* costs a lookup.                                                         *)
LookupsExact ==
    \A args \in ArgLists :
        ToSet(ExtractEach(args, registered)) = ConsultedBy(args) \ registered

=============================================================================
