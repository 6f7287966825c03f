-------------------------- MODULE MC_SubnetListing --------------------------
EXTENDS SubnetListing, TLC

CONSTANTS s1, s2, s3, s4, s5

MCSubnets == {s1, s2, s3, s4, s5}


=============================================================================
