SPECIFICATION TreasurySpec
CONSTANTS
  Address <- MCAddress
  Domain <- MCDomain
  SOLANA_DOMAIN = 5
  Self = 9
  GatewayWallet = 8
  LocalDomain = 26
  Token = {7}
  TokenName = {"USDC"}
  Genesis <- MCGenesis
  Nonce = {n1, n2, n3}
  Call <- MCCall
  Intent <- MCIntent
  Auth <- MCAuth
  Coalition = {{1, 2}, {2, 3}}
  Deadline = {3, 9}
  ADMIN_OP_GRACE = 1
  WITHDRAWAL_DELAY = 1
  MAX_OWNERS = 20
  MaxTime = 5
  MaxSignatures = 4
  MaxIncome = 3
  MaxLag = 1
  n1 = n1
  n2 = n2
  n3 = n3
SYMMETRY NonceSymmetry
CHECK_DEADLOCK FALSE
PROPERTIES AdminSignaturesDieWithEpoch
