SPECIFICATION FairSpec
CONSTANTS
    o1 = o1
    o2 = o2
    Objects = {o1, o2}
    Requests = {r1, r2}
    UserKeys = {k1}
    Asked <- AskedOfEach
    MaxFaults = 1
INVARIANT TypeOK
INVARIANT RowAndBucketAgree
INVARIANT MergesKeepKeys
PROPERTY CleanupSparesUploads
PROPERTY ImplementsLifecycle
PROPERTY UploadsSettle
CHECK_DEADLOCK FALSE
