CONSTANTS
  fees = fees
  bundle = bundle
  account = account
  orders = orders
  broken = broken
  r1 = r1
  r2 = r2
  Bad = Bad
  Request = {r1, r2}
  Upload = {fees, bundle, account, orders, broken}
  Content <- FiveUploads
  NoUpload = NoUpload
  MaxUploads = 2
  MaxCrashes = 1
SPECIFICATION Spec
INVARIANTS
  OneImportAtATime
  TablesHoldWhatWasCommitted
  RunsAreHonest
PROPERTIES
  InsertedRowsAreNew
  UploadingAgainChangesNothing
  UploadsEnd
\* Nobody has to upload another file.
CHECK_DEADLOCK FALSE
