------------------------------- MODULE Errors -------------------------------
(***************************************************************************)
(* How a failure is named: the exceptions of errors.rs, the wire code and  *)
(* the exception of every error aerospike-core can return, and the label   *)
(* metrics.rs gives it.  Exceptions and result codes are written with the  *)
(* names the source uses.                                                  *)
(*                                                                         *)
(* A core error is a record [variant, rc]: the variant of                  *)
(* aerospike_core::Error and, for the variants that carry one, the name of *)
(* its ResultCode ("" otherwise).  An exception as Python sees it is a     *)
(* record [class, code]; code is its result_code attribute.                *)
(***************************************************************************)
EXTENDS Integers, Sequences

\* The wire code of every ResultCode but Unknown(_).
WireCode ==
  [ Ok |-> 0, ServerError |-> 1, KeyNotFoundError |-> 2,
    GenerationError |-> 3, ParameterError |-> 4, KeyExistsError |-> 5,
    BinExistsError |-> 6, ClusterKeyMismatch |-> 7, ServerMemError |-> 8,
    Timeout |-> 9, AlwaysForbidden |-> 10, PartitionUnavailable |-> 11,
    BinTypeError |-> 12, RecordTooBig |-> 13, KeyBusy |-> 14,
    ScanAbort |-> 15, UnsupportedFeature |-> 16, BinNotFound |-> 17,
    DeviceOverload |-> 18, KeyMismatch |-> 19, InvalidNamespace |-> 20,
    BinNameTooLong |-> 21, FailForbidden |-> 22, ElementNotFound |-> 23,
    ElementExists |-> 24, EnterpriseOnly |-> 25, OpNotApplicable |-> 26,
    FilteredOut |-> 27, LostConflict |-> 28, XDRKeyBusy |-> 32,
    QueryEnd |-> 50, SecurityNotSupported |-> 51, SecurityNotEnabled |-> 52,
    SecuritySchemeNotSupported |-> 53, InvalidCommand |-> 54,
    InvalidField |-> 55, IllegalState |-> 56, InvalidUser |-> 60,
    UserAlreadyExists |-> 61, InvalidPassword |-> 62,
    ExpiredPassword |-> 63, ForbiddenPassword |-> 64,
    InvalidCredential |-> 65, ExpiredSession |-> 66, InvalidRole |-> 70,
    RoleAlreadyExists |-> 71, InvalidPrivilege |-> 72,
    InvalidAllowlist |-> 73, QuotasNotEnabled |-> 74, InvalidQuota |-> 75,
    NotAuthenticated |-> 80, RoleViolation |-> 81, NotAllowlisted |-> 82,
    QuotaExceeded |-> 83, UdfBadResponse |-> 100, BatchDisabled |-> 150,
    BatchMaxRequestsExceeded |-> 151, BatchQueuesFull |-> 152,
    InvalidGeojson |-> 160, IndexFound |-> 200, IndexNotFound |-> 201,
    IndexOom |-> 202, IndexNotReadable |-> 203, IndexGeneric |-> 204,
    IndexNameMaxLen |-> 205, IndexMaxCount |-> 206, QueryAborted |-> 210,
    QueryQueueFull |-> 211, QueryTimeout |-> 212, QueryGeneric |-> 213,
    QueryNetioErr |-> 214, QueryDuplicate |-> 215 ]

ResultCodes == DOMAIN WireCode

\* The attribute every AerospikeError starts with, CLIENT_SIDE_RESULT_CODE.
ClientSide == -1

\* The base class of every exception class but the root.
Base ==
  LET Under ==
        [AerospikeError |->
           {"ClientError", "ServerError", "RecordError", "ClusterError",
            "AerospikeTimeoutError", "InvalidArgError"},
         ClientError |-> {"BackpressureError", "RustPanicError"},
         RecordError |->
           {"RecordNotFound", "RecordExistsError", "RecordGenerationError",
            "RecordTooBig", "BinNameError", "BinExistsError",
            "BinNotFound", "BinTypeError", "FilteredOut"},
         ServerError |->
           {"AerospikeIndexError", "QueryError", "AdminError", "UDFError"},
         AerospikeIndexError |-> {"IndexNotFound", "IndexFoundError"},
         QueryError |-> {"QueryAbortedError"}]
  IN [c \in UNION {Under[b] : b \in DOMAIN Under} |->
        CHOOSE b \in DOMAIN Under : c \in Under[b]]

\* Python's own exceptions, and what a panic nobody caught becomes.
Builtins == {"TypeError", "ValueError", "OverflowError"}

IsAerospikeError(class) == class = "AerospikeError" \/ class \in DOMAIN Base

Exception(class, code) == [class |-> class, code |-> code]

\* An exception raised without attach_result_code: ours have the class-wide
\* default, Python's own have no such attribute.
Plain(class) == Exception(class, ClientSide)

SecurityCodes ==
  {"InvalidUser", "NotAuthenticated", "RoleViolation",
   "SecurityNotSupported", "SecurityNotEnabled",
   "SecuritySchemeNotSupported", "InvalidCommand", "InvalidField",
   "IllegalState", "UserAlreadyExists", "InvalidPassword",
   "ExpiredPassword", "ForbiddenPassword", "InvalidCredential",
   "ExpiredSession", "InvalidRole", "RoleAlreadyExists",
   "InvalidPrivilege", "InvalidAllowlist", "QuotasNotEnabled",
   "InvalidQuota", "NotAllowlisted", "QuotaExceeded"}

\* The result codes with an exception class to themselves.
OwnClass ==
  [ KeyNotFoundError |-> "RecordNotFound",
    KeyExistsError |-> "RecordExistsError",
    GenerationError |-> "RecordGenerationError",
    RecordTooBig |-> "RecordTooBig", BinNameTooLong |-> "BinNameError",
    BinExistsError |-> "BinExistsError", BinNotFound |-> "BinNotFound",
    BinTypeError |-> "BinTypeError", FilteredOut |-> "FilteredOut",
    ElementNotFound |-> "RecordError", ElementExists |-> "RecordError",
    Timeout |-> "AerospikeTimeoutError",
    QueryTimeout |-> "AerospikeTimeoutError",
    IndexFound |-> "IndexFoundError", IndexNotFound |-> "IndexNotFound",
    QueryAborted |-> "QueryAbortedError",
    ScanAbort |-> "QueryAbortedError", UdfBadResponse |-> "UDFError" ]

\* result_code_to_pyerr
OfResultCode(rc) ==
  Exception(IF rc \in DOMAIN OwnClass THEN OwnClass[rc]
            ELSE IF rc \in SecurityCodes THEN "AdminError"
            ELSE "ServerError",
            WireCode[rc])

\* The variants that carry a server's result code, and the others.
ServerVariants == {"ServerError", "BatchError", "BatchLastError"}
ClientVariants ==
  {"Connection", "Timeout", "InvalidArgument", "InvalidNode",
   "NoMoreConnections", "MaxErrorRate", "BadResponse"}

\* as_to_pyerr
AsToPyErr(e) ==
  IF e.variant \in ServerVariants THEN OfResultCode(e.rc)
  ELSE Plain(CASE e.variant \in {"Connection", "InvalidNode",
                                 "NoMoreConnections", "MaxErrorRate"}
                    -> "ClusterError"
               [] e.variant = "Timeout" -> "AerospikeTimeoutError"
               [] e.variant = "InvalidArgument" -> "InvalidArgError"
               [] OTHER -> "ClientError")

\* record_not_found_for_delete: built by the client, with the server's code.
RecordNotFoundForDelete ==
  Exception("RecordNotFound", WireCode["KeyNotFoundError"])

\* error_type_from_aerospike_error: the label of a failed operation.  The
\* batch variants fall into the catch-all.
ErrorType(e) ==
  CASE e.variant = "ServerError" -> e.rc
    [] e.variant \in {"BatchError", "BatchLastError", "BadResponse"}
         -> "Unknown"
    [] OTHER -> e.variant

=============================================================================
