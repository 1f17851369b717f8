\* psql::params with the same argument lists, which include the empty text:
\* its zero length makes convert_offsets() push a null value pointer.
CONSTANTS
    NsPerUs = 1000
    PgEpochUs = 3
    UdtOid <- MCUdtOid
    ArgLists <- MCArgLists
SPECIFICATION Spec
INVARIANT ParamsSendArgs
