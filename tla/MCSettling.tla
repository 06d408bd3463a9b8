----------------------------- MODULE MCSettling -----------------------------
(* Three components side by side, for where they settle: a project's egress       *)
(* budget with the workers that spend it (EgressBudget, extended), the collect path *)
(* of signy (C), and the rollout of a worker image on a host (W).  A behaviour runs *)
(* one of them, and the others stay in their initial states.                        *)
EXTENDS EgressBudget

VARIABLES
  part,
  snd, unsent, hd, jq, batch, marks, mfile, wmark, stored, cused,
  doc, pods, pool, stop, addr, scribe, target, proxy, spent

C == INSTANCE SignyCollect WITH
  Signal <- {"logs"}, MaxSeg <- 1, NRec <- 2, BadLast <- {}, Handler <- {"h"},
  MaxInflight <- 2, Overlap <- TRUE, MaxWriteErr <- 1, MaxRefuse <- 0, MaxTimeout <- 1,
  MaxRestart <- 0, MaxCrash <- 0, MaxTorn <- 1, MaxStoreErr <- 1, used <- cused
W == INSTANCE WorkerRollout WITH
  MaxImage <- 2, MaxPort <- 5,
  Failing <- {"pull", "timeout", "exit", "list", "drain", "stop"}, MaxFaults <- 1,
  MaxRestarts <- 1, Hard <- TRUE, Rollback <- FALSE, writer <- scribe, file <- target,
  used <- spent

cvars == <<snd, unsent, hd, jq, batch, marks, mfile, wmark, stored, cused>>
wvars == <<doc, pods, pool, stop, addr, scribe, target, proxy, spent>>

MCInit ==
  /\ part \in {"egress", "collect", "rollout"}
  /\ Init /\ (part # "egress" => quota = Limit) /\ C!Init /\ W!Init

InEgress  == part = "egress" /\ Next /\ UNCHANGED <<cvars, wvars>>
InCollect == part = "collect" /\ C!Next /\ UNCHANGED <<vars, wvars>>
InRollout == part = "rollout" /\ W!Next /\ UNCHANGED <<vars, cvars>>

MCNext == UNCHANGED part /\ (InEgress \/ InCollect \/ InRollout)

\* The fairness of the two that settle, asked of the one that runs.
MCFairSpec ==
  /\ MCInit /\ [][MCNext]_<<part, vars, cvars, wvars>>
  /\ WF_cvars(part = "collect" /\ C!Sender) /\ WF_cvars(part = "collect" /\ C!Writer)
  /\ WF_cvars(part = "collect" /\ C!Serve("h"))
  /\ WF_wvars(part = "rollout" /\ W!AgentStart) /\ WF_wvars(part = "rollout" /\ W!PollTarget)
  /\ WF_wvars(part = "rollout" /\ W!PoolStep) /\ WF_wvars(part = "rollout" /\ W!WriteTarget(TRUE))
  /\ WF_wvars(part = "rollout" /\ W!ProxyPoll)
  /\ WF_wvars(part = "rollout" /\ \E n \in W!Names : W!Boots(n))
  /\ SF_wvars(part = "rollout" /\ \E n \in W!Names : W!DrainStops(n))

-----------------------------------------------------------------------------
\* Every segment of the collecty's queue is taken over in the end (deliver_once,
\* collect).
SegmentsDrain == part = "collect" => C!QueueDrains

\* The agent never takes the last healthy worker of its host away (run,
\* start_new_active, adopt_existing_containers).
OneKeepsServing == W!OneKeepsServing

\* The proxy of a host comes to forward to a healthy worker of the last image
\* named, and the earlier ones are gone (run, proxy_target::run).
RolloutLands == W!RolloutLands
=============================================================================
