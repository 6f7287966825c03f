\* Three tasks launched, set up, stopped or cleanly exited while GC cycles
\* run with up to two failed calls.
CONSTANTS
    SourceOfTruth = "mesos"
    MaxFailures = 2
    t1 = t1
    t2 = t2
    t3 = t3
    Tasks <- MCTasks
SPECIFICATION Spec
SYMMETRY MCTaskSymmetry
INVARIANT TypeOK NoUnassignBeforeTeardown TeardownInv ItemAccounted
PROPERTY GCRefined
