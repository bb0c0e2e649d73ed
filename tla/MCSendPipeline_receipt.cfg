SPECIFICATION Spec
CONSTANTS
  Client = {c1}
  Owner <- MCOwner
  Recipient = {r1}
  JobId = {j1}
  Request <- OnePayment
  Config <- OneConfig
  SANDBOX_CAP = 2
  Fee <- MCFee
  MaxJobs = 25
  MaxRetries = 1
  MaxTx = 2
  MaxCrashes = 0
  MaxChanges = 0
  Funds = 9
  c1 = c1
  c2 = c2
  j1 = j1
  j2 = j2
  r1 = r1
PROPERTIES ReceiptNeverAnError
