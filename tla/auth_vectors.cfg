SPECIFICATION Spec
CONSTANTS
    HALF = 8
    NIBBLE = 4
    TAG_SIGNATURE_TEMPLATE = 12
    TAG_CERTIFICATE = 13
    TAG_DER_SEQUENCE = 6
    RECID_OFFSET = 9
    STATUS_PRODUCTION_CA = 14
    Points = {4, 5}
    Nobody = 6
    Damage = {0, 1, 3, 5, 6, 8, 9, 10, 12, 13}
    MaxEdits = 2
    CaSignatures <- MCCaSignatures
    CardSignatures <- MCCardSignatures
    EthSignatures <- MCEthSignatures
    KeyHash <- MCKeyHash
    Cards <- MCCards
    Commitments <- MCCommitments
    Configs <- MCConfigs
CHECK_DEADLOCK FALSE
INVARIANTS
    FlowTypeOK
    IntactIsAccepted
    AcceptedIsGenuine
    EnvelopeMeansOperator
    CapturedVerifies
    ReplyIsVerdict
    FailureIsHonoured
    ParsersAgree
PROPERTIES
    SuffixIsIgnored
