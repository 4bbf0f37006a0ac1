---------------------------- MODULE MCBaseImages ----------------------------
EXTENDS BaseImages

\* Every call and every write may fail but the last write of a cleanup.
Calls == {"inspect", "capture", "receipt", "delete", "images", "cleaned", "survey",
          "prune", "forget", "create", "creating", "publish", "publishing", "pin"}
=============================================================================
