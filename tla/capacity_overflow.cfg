CONSTANTS
    Width = 16
    NoRange = NoRange
    RequiredBytes <- MCRequiredBytes
    LimitBytes <- MCLimitBytes
SPECIFICATION Spec
INVARIANT CapacityIsRoundedMinimum
\* One call of validateCapacity per request: the handler is done once it
\* has returned.
CHECK_DEADLOCK FALSE
