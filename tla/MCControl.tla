----------------------------- MODULE MCControl -----------------------------
(* The control plane's documents side by side: a project's deployments, with   *)
(* what is pruned and collected (Deployment, extended), a runtime on trial (B), *)
(* a worker with failing tasks (C), and abandoned uploads with failing passes  *)
(* (D); and the transactions of doc-db, against each other (DocDbTrx,          *)
(* extended) and against plain writes (U).  A behaviour runs one of these       *)
(* instances, the other component stays in its initial state.                  *)
EXTENDS Deployment, DocDbTrx

VARIABLE part

U == INSTANCE DocDbTrx WITH Calls <- {"c1"}, MaxPlain <- 2
B == INSTANCE Deployment WITH
  MaxVersion <- 2, Runtimes <- {"a", "b"}, FirstRuntime <- "a", Workers <- {},
  Slots <- {1}, RETAINED_VERSIONS_BELOW_ACTIVE <- 0, MaxFaults <- 0, MaxLost <- 1, MaxGc <- 0,
  MaxDomains <- 1, MaxFetch <- 0, MaxRuntime <- 1
C == INSTANCE Deployment WITH
  MaxVersion <- 2, Runtimes <- {"a"}, FirstRuntime <- "a", Workers <- {"w"},
  Slots <- {1}, RETAINED_VERSIONS_BELOW_ACTIVE <- 0, MaxFaults <- 1, MaxLost <- 0, MaxGc <- 0,
  MaxDomains <- 1, MaxFetch <- 1, MaxRuntime <- 0
D == INSTANCE Deployment WITH
  MaxVersion <- 2, Runtimes <- {"a"}, FirstRuntime <- "a", Workers <- {},
  Slots <- {1}, RETAINED_VERSIONS_BELOW_ACTIVE <- 0, MaxFaults <- 1, MaxLost <- 1, MaxGc <- 1,
  MaxDomains <- 1, MaxFetch <- 0, MaxRuntime <- 0

MCInit ==
  /\ part \in {"calls", "writes", "collecting", "runtimes", "serving", "abandoned"}
  /\ IF part = "writes" THEN U!TrxInit ELSE TrxInit
  /\ CASE part = "runtimes" -> B!Init
       [] part = "serving" -> C!Init
       [] part = "abandoned" -> D!Init
       [] OTHER -> Init

InTransactions ==
  /\ \/ part = "calls" /\ TrxNext
     \/ part = "writes" /\ U!TrxNext
  /\ UNCHANGED vars
InDeployments  ==
  /\ \/ part = "collecting" /\ Next
     \/ part = "runtimes" /\ B!Next
     \/ part = "serving" /\ C!Next
     \/ part = "abandoned" /\ D!Next
  /\ UNCHANGED trxVars

MCNext == UNCHANGED part /\ (InTransactions \/ InDeployments)

MCSpec == MCInit /\ [][MCNext]_<<part, vars, trxVars>>
=============================================================================
