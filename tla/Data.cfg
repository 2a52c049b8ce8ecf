SPECIFICATION Spec
CONSTANTS
  key1 = key1
  key2 = key2
  loader = loader
  signature1 = signature1
  hash1 = hash1
  program1 = program1
  program2 = program2
  Base = 4
  Width <- MCWidth
  Pubkey <- MCPubkey
  Signature <- MCSignature
  Blockhash <- MCBlockhash
  PubkeySize = 2
  SignatureSize = 3
  BlockhashSize = 2
  MAX_SIGNERS = 3
  RUNTIME_TX_SIZE_LIMIT = 40
  SYSTEM_PROGRAM_ID = key1
  BPF_LOADER_PROGRAM_ID = loader
  COMPUTE_BUDGET_PROGRAM_ID = key2
  HeapUnit = 2
  MaxBump = 4
  MAX_SEEDS = 4
  MAX_SEED_LENGTH = 2
  HexBase = 4
  NonDigit = NonDigit
  Space = Space
  Pad = Pad
  X = X
  ByteBits = 4
  DigitBits = 3
  Radix = 11
  KeyLength = 2
  Missing = Missing
  PartsOfOne = 10
  TOKEN_PROGRAM_ID = key1
  ASSOCIATED_TOKEN_PROGRAM_ID = key2
  MAX_ACCOUNTS_BATCH_SIZE = 2
  Program <- MCProgram
  FrameworkCode = 2
  FrameworkName = "ConstraintAddress"
  MaxItems = 2
  IntegerValues <- MCIntegerValues
  Transactions <- MCTransactions
  FormerMessages <- MCFormerMessages
  Arguments <- MCArguments
  Mints <- MCMints
  TokenAccounts <- MCTokenAccounts
  SomeBytes <- MCSomeBytes
  HexTexts <- MCHexTexts
  Base64Texts <- MCBase64Texts
  Base58Texts <- MCBase58Texts
  Strategies <- MCStrategies
  Draws <- MCDraws
  SeedLengths <- MCSeedLengths
  FailedTransactions <- MCFailedTransactions
  Registries <- MCRegistries
  MaxSigned = 4
  MaxKeys = 5
INVARIANTS
  DecodeInvertsEncode
  TransactionsReadBack
  MessagesReadBack
  InstructionsReadBack
  WriteFillsTransaction
  HighestBump
  ConversionsRestore
  FailuresAreTold
  CallsTellTheAnswer
  BatchesCoverInput
  AccountsReadBack
  TextIsTheBytes
  BackoffPaces
  NeverMisattributed
CHECK_DEADLOCK FALSE
