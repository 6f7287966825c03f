\* getSubnets over five subnets with up to two failed calls, the driver
\* able to end rows.Next() early with an error left in rows.Err().
\* The listing runs once at start-up and then stops.
CONSTANTS
    s1 = s1
    s2 = s2
    s3 = s3
    s4 = s4
    s5 = s5
    Subnets <- MCSubnets
    MaxFailures = 2
SPECIFICATION Spec
INVARIANT PartialOnlyOnError
CHECK_DEADLOCK FALSE
