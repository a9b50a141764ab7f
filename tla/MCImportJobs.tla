---------------------------- MODULE MCImportJobs ----------------------------
EXTENDS ImportJobs, TLC
=============================================================================
