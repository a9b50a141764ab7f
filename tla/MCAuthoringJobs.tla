-------------------------- MODULE MCAuthoringJobs --------------------------
EXTENDS AuthoringJobs, TLC
=============================================================================
