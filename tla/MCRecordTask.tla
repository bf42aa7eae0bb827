---------------------------- MODULE MCRecordTask ----------------------------
EXTENDS RecordTask
=============================================================================
