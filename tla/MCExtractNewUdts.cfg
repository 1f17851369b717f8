\* Every pre-registered subset of three user-defined types, nested two
\* deep (a tag inside an array inside a segment, a point inside a tuple
\* inside an array), and every argument list of one or two parameters.
CONSTANTS
    Udts <- MCUdts
    ArgLists <- MCArgLists
SPECIFICATION Spec
INVARIANT TypeOK
INVARIANT SerializeFindsOids
INVARIANT LookupsExact
