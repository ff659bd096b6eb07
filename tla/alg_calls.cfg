\* Every operation of the sequential code on every argument of its set; widths scaled to a u64 of eight values and a byte of four.
CONSTANTS
    Inputs <- MCInputs
    MaxReblinds = 3
    U64 = 8
    MERKLE_HEIGHT = 3
    ByteBase = 4
    SCALAR_MAX_BYTES = 2
    ScalarBufferBytes = 3
    GroupOrder = 37
    ROOT_KEY_WORDS = 2
    PUBLIC_KEY_LENGTH = 3
    MAX_BALANCES = 2
    MAX_ORDERS = 1
    MAX_FEES = 1
SPECIFICATION Spec
INVARIANT TypeOK
INVARIANT OpenReturnsTheMatch
INVARIANT MerkleLeftmostOpeningVerifies
INVARIANT MerkleOpeningIsSound
INVARIANT DefaultPathOpensEmptyTree
INVARIANT KeyWordsRoundTrip
INVARIANT ScalarsRoundTrip
INVARIANT ReblindSharesAreFresh
INVARIANT CircuitWalletKeepsEveryElement
INVARIANT WalletHashBindsWallet
CHECK_DEADLOCK FALSE
