\* As SubnetListing_safety: does every subnet get its loop whenever the
\* runner starts any?  The listing runs once at start-up and then stops.
CONSTANTS
    s1 = s1
    s2 = s2
    s3 = s3
    s4 = s4
    s5 = s5
    Subnets <- MCSubnets
    MaxFailures = 2
SPECIFICATION Spec
INVARIANT ListingComplete
CHECK_DEADLOCK FALSE
