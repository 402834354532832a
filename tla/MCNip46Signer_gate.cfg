\* Every kind of request, two authorize or connect calls, a restart.
CONSTANTS
  a = a  b = b  secret = secret  rpc1 = rpc1  rpc2 = rpc2
  open_a = open_a  reopen_a = reopen_a
  sign = sign  decrypt = decrypt  ping = ping
  Clients = {a, b}
  Requests = {open_a, reopen_a, sign, decrypt, ping}
  ClientOf <- MCClientOf
  KindOf <- MCKindOf
  SecretOf <- MCSecretOf
  Permitted = {sign}
  Secrets = {secret}
  Rpcs = {rpc1, rpc2}
  MaxDeliveries = 2
  MaxOperator = 3
  MaxRestarts = 1
SPECIFICATION FairSpec
INVARIANTS
  ServedOncePerDelivery
  SecretAdmitsOne
PROPERTIES
  ServedThroughTheGate
  EveryRequestAnswered
CHECK_DEADLOCK FALSE
