\* Every argument list of up to two of the sample values, through both
\* serialize(omp, buffer, params) on a reused buffer and psql::params, which
\* the application may then move into another object.
CONSTANTS
    NsPerUs = 1000
    PgEpochUs = 3
    UdtOid <- MCUdtOid
    ArgLists <- MCArgLists
SPECIFICATION Spec
INVARIANT TypeOK
INVARIANT SerializedParamsDescribeArgs
INVARIANT ParamsOffsetsAgree
INVARIANT TimeEncodingFaithful
