\* Only publishers of the FMLE workflow, which rtmp-publish and flv-publish are.
CONSTANTS
    StreamId = 1
    Purposes = {"publish"}
    MaxMedia = 1
    MaxServed = 0
    MaxAhead = 0
SPECIFICATION Spec
INVARIANT PublishesOnItsStream
CHECK_DEADLOCK FALSE
