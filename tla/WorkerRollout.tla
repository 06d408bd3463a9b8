--------------------------- MODULE WorkerRollout ----------------------------
(***************************************************************************)
(* How a host moves from one worker image to the next: the agent            *)
(* (fn0/worker-agent) starts the new container, switches the target file,    *)
(* drains and stops the old one; the proxy (fn0/worker-proxy) polls the      *)
(* file.  Containers outlive the agent, and the next agent adopts them.      *)
(*                                                                         *)
(* A container is named by its image and its port.  The network is the       *)
(* host's: of two containers with one port only the first gets it, and a     *)
(* probe of the port reaches whoever has it.  Images are numbered in the     *)
(* order of their release.                                                   *)
(***************************************************************************)
EXTENDS Naturals, FiniteSets, FiniteSetsExt

CONSTANTS
  MaxImage,    \* images the target goes through
  MaxPort,     \* bound on the ports; a port stands for the three of a worker
  Failing,     \* what may fail: among "pull", "timeout", "exit", "list", "drain",
               \* "stop", "write"
  MaxFaults,   \* bound on the failures
  MaxRestarts, \* bound on the ends of the agent
  Hard,        \* whether the agent may be shut down for good, with its workers
  Rollback     \* whether the target returns once to an earlier image

VARIABLES
  doc,    \* image of the TargetFn0WorkerConfigDoc; 0 when there is none
  pods,   \* the containers podman knows: what each one does, and whether it drains
  pool,   \* the pool's task
  stop,   \* the agent's Shutdown: "no", "soft" or "hard"
  addr,   \* the port in the active_addr channel; 0 for None
  writer, \* the writer of the target file: "off", "start", "seen" or "changed"
  file,   \* the port in the target file; 0 when it is empty
  proxy,  \* the port the proxy forwards to
  used    \* the failures, restarts and hard shutdowns so far

vars == <<doc, pods, pool, stop, addr, writer, file, proxy, used>>
outside == <<doc, file, proxy>>

Images == 1..MaxImage
Ports == 1..MaxPort
Names == [img : Images, port : Ports]
Absent == [st |-> "none", drained |-> FALSE]
NoPool == [at |-> "off", target |-> 0, next |-> 1, active |-> {}, draining |-> {},
           confirmed |-> {}, todo |-> {}, new |-> {}]

Init ==
  /\ doc = 0 /\ pods = [n \in Names |-> Absent] /\ pool = NoPool /\ stop = "no"
  /\ addr = 0 /\ writer = "off" /\ file = 0 /\ proxy = 0
  /\ used = [faults |-> 0, exits |-> 0, lists |-> 0, restarts |-> 0, hard |-> 0, back |-> 0]

Running(n) == pods[n].st \in {"booting", "ready"}

\* worker_ready_ok: whoever has the port answers, also while it drains.
ReadyAt(p) == \E n \in Names : n.port = p /\ pods[n].st = "ready"

Fault(kind) ==
  /\ kind \in Failing /\ used.faults < MaxFaults
  /\ used' = [used EXCEPT !.faults = @ + 1,
                          !.exits = IF kind = "exit" THEN @ + 1 ELSE @,
                          !.lists = IF kind = "list" THEN @ + 1 ELSE @]

\* A send into the active_addr channel wakes the writer.
SendAddr(p) ==
  /\ addr' = p
  /\ writer' = IF writer = "seen" THEN "changed" ELSE writer

-----------------------------------------------------------------------------
(* Around the agent.                                                        *)

\* The control plane names an image.
SetTarget(i) ==
  /\ i = doc + 1 \/ (Rollback /\ i < doc /\ used.back = 0)
  /\ doc' = i /\ used' = [used EXCEPT !.back = IF i < doc THEN 1 ELSE @]
  /\ UNCHANGED <<pods, pool, stop, addr, writer, file, proxy>>

\* A container starts to answer, or finds its port taken and exits.
Boots(n) ==
  /\ pods[n].st = "booting"
  /\ pods' = [pods EXCEPT ![n].st = IF ReadyAt(n.port) THEN "exited" ELSE "ready"]
  /\ UNCHANGED <<outside, pool, stop, addr, writer, used>>

Exits(n) ==
  /\ Running(n) /\ Fault("exit")
  /\ pods' = [pods EXCEPT ![n].st = "exited"]
  /\ UNCHANGED <<outside, pool, stop, addr, writer>>

\* target_file::serve
ProxyPoll ==
  /\ proxy # file /\ proxy' = file
  /\ UNCHANGED <<doc, pods, pool, stop, addr, writer, file, used>>

-----------------------------------------------------------------------------
(* The agent's life.                                                        *)

\* systemd starts it; the channels are new.
AgentStart ==
  /\ pool.at = "off"
  /\ pool' = [NoPool EXCEPT !.at = "adopt"] /\ stop' = "no" /\ addr' = 0 /\ writer' = "start"
  /\ UNCHANGED <<outside, pods, used>>

\* The agent's image changed, or a signal came.
Shutdown(kind) ==
  /\ pool.at # "off" /\ stop = "no" /\ used.restarts < MaxRestarts /\ (kind = "hard" => Hard)
  /\ stop' = kind
  /\ used' = [used EXCEPT !.restarts = @ + 1, !.hard = IF kind = "hard" THEN @ + 1 ELSE @]
  /\ UNCHANGED <<outside, pods, pool, addr, writer>>

AgentDies ==
  /\ pool.at # "off" /\ used.restarts < MaxRestarts
  /\ pool' = NoPool /\ writer' = "off"
  /\ used' = [used EXCEPT !.restarts = @ + 1]
  /\ UNCHANGED <<outside, pods, stop, addr>>

\* proxy_target::run writes what the channel holds as it starts, then each change.
WriteTarget(ok) ==
  /\ writer \in {"start", "changed"}
  /\ writer' = "seen"
  /\ IF ok THEN file' = addr /\ UNCHANGED used ELSE Fault("write") /\ UNCHANGED file
  /\ UNCHANGED <<doc, pods, pool, stop, addr, proxy>>

\* A shutdown ends the writer with the last change unwritten or not.
WriterStops ==
  /\ stop # "no" /\ writer \in {"seen", "changed"}
  /\ writer' = "off"
  /\ UNCHANGED <<outside, pods, pool, stop, addr, used>>

\* target_config::run
PollTarget ==
  /\ pool.at # "off" /\ stop = "no" /\ pool.target # doc
  /\ pool' = [pool EXCEPT !.target = doc]
  /\ UNCHANGED <<outside, pods, stop, addr, writer, used>>

-----------------------------------------------------------------------------
(* The pool adopts what it finds.                                           *)

Candidates == {n \in Names : Running(n) /\ ReadyAt(n.port)}
Highest(ns) == {n \in ns : \A m \in ns : m.port <= n.port}

\* The active one is of the target's image if there is one, and of the highest
\* port; every other candidate drains.
ActivePool ==
  LET matching == {n \in Candidates : n.img = pool.target}
  IN IF matching = {} THEN Candidates ELSE matching

\* wait_initial_target returns with a target or after its timeout.
Adopt ==
  /\ pool.at = "adopt"
  /\ IF Candidates = {}
     THEN pool' = [pool EXCEPT !.at = "idle"] /\ UNCHANGED <<addr, writer>>
     ELSE \E a \in Highest(ActivePool) :
            /\ pool' = [pool EXCEPT !.at = "idle", !.active = {a},
                                    !.next = Max({n.port : n \in Candidates}) + 1,
                                    !.draining = Candidates \ {a}]
            /\ SendAddr(a.port)
  /\ UNCHANGED <<outside, pods, stop, used>>

\* The list of containers cannot be had: "starting fresh".
AdoptFails ==
  /\ pool.at = "adopt" /\ Fault("list")
  /\ pool' = [pool EXCEPT !.at = "idle"]
  /\ UNCHANGED <<outside, pods, stop, addr, writer>>

-----------------------------------------------------------------------------
(* One turn of the pool's loop.                                             *)

\* Mutant of Tick: the active container is taken to run.
TickBlind ==
  /\ pool.at = "idle" /\ stop = "no"
  /\ pool' = [pool EXCEPT !.at = "target"]
  /\ UNCHANGED <<outside, pods, stop, addr, writer, used>>

\* An active container that is not running is forgotten and removed.
Tick ==
  /\ pool.at = "idle" /\ stop = "no"
  /\ \/ \E a \in pool.active :
          /\ ~Running(a) /\ pods' = [pods EXCEPT ![a] = Absent]
          /\ pool' = [pool EXCEPT !.at = "target", !.active = {}] /\ SendAddr(0)
     \/ /\ \A a \in pool.active : Running(a)
        /\ pool' = [pool EXCEPT !.at = "target"]
        /\ UNCHANGED <<addr, writer, pods>>
  /\ UNCHANGED <<outside, stop, used>>

Drains == [pool EXCEPT !.at = "drain", !.todo = pool.draining, !.new = {}]

Current == pool.target = 0 \/ \E a \in pool.active : a.img = pool.target

Satisfied ==
  /\ pool.at = "target" /\ Current
  /\ pool' = Drains
  /\ UNCHANGED <<outside, pods, stop, addr, writer, used>>

\* allocate_ports, pull_image, run_detached: a port is spent whatever happens,
\* and a name podman knows already cannot be run again.
Start ==
  /\ pool.at = "target" /\ ~Current /\ pool.next \in Ports
  /\ LET n == [img |-> pool.target, port |-> pool.next]
         spent == pool.next + 1
     IN \/ /\ pods[n] = Absent
           /\ pods' = [pods EXCEPT ![n].st = "booting"]
           /\ pool' = [pool EXCEPT !.at = "wait", !.next = spent, !.new = {n}]
           /\ UNCHANGED used
        \/ /\ IF pods[n] = Absent THEN Fault("pull") ELSE UNCHANGED used
           /\ pool' = [Drains EXCEPT !.next = spent]
           /\ UNCHANGED pods
  /\ UNCHANGED <<outside, stop, addr, writer>>

\* wait_until_ready gives up on a container that exited, or after READY_TIMEOUT;
\* the container stays as it is.
NotReady ==
  /\ pool.at = "wait"
  /\ \/ (\E n \in pool.new : ~Running(n)) /\ UNCHANGED used
     \/ (\E n \in pool.new : pods[n].st = "booting") /\ Fault("timeout")
  /\ pool' = Drains
  /\ UNCHANGED <<outside, pods, stop, addr, writer>>

\* Mutant of Promote: the new container is promoted as soon as it runs.
PromoteBooting ==
  /\ pool.at = "wait"
  /\ \E n \in pool.new :
       /\ Running(n)
       /\ pool' = [Drains EXCEPT !.active = {n}, !.draining = @ \cup pool.active,
                                 !.todo = @ \cup pool.active]
       /\ SendAddr(n.port)
  /\ UNCHANGED <<outside, pods, stop, used>>

\* The new container becomes the active one, and the previous one drains.
Promote ==
  /\ pool.at = "wait"
  /\ \E n \in pool.new :
       /\ Running(n) /\ ReadyAt(n.port)
       /\ pool' = [Drains EXCEPT !.active = {n}, !.draining = @ \cup pool.active,
                                 !.todo = @ \cup pool.active]
       /\ SendAddr(n.port)
  /\ UNCHANGED <<outside, pods, stop, used>>

\* signal_worker_drain reaches whoever has the port, and never unsays it.
Signalled(n) ==
  [m \in Names |-> IF m.port = n.port /\ pods[m].st = "ready"
                   THEN [pods[m] EXCEPT !.drained = TRUE] ELSE pods[m]]

\* A draining container is told so once, and stays while it has work
\* (drain_done); a call that fails is made again the next turn.
DrainKeeps(n) ==
  /\ pool.at = "drain" /\ n \in pool.todo
  /\ IF n \in pool.confirmed \/ ~ReadyAt(n.port)
     THEN UNCHANGED <<pods, used>> /\ pool' = [pool EXCEPT !.todo = @ \ {n}]
     ELSE \/ /\ pods' = Signalled(n) /\ UNCHANGED used
             /\ pool' = [pool EXCEPT !.todo = @ \ {n}, !.confirmed = @ \cup {n}]
          \/ /\ Fault("drain") /\ UNCHANGED pods
             /\ pool' = [pool EXCEPT !.todo = @ \ {n}]
  /\ UNCHANGED <<outside, stop, addr, writer>>

\* It has nothing left to do, or its time is over: stop and rm.  What fails is
\* not tried again: the pool no longer has the container.
DrainStops(n) ==
  /\ pool.at = "drain" /\ n \in pool.todo
  /\ LET told == IF n \in pool.confirmed THEN pods ELSE Signalled(n)
     IN \/ pods' = [told EXCEPT ![n] = Absent] /\ UNCHANGED used
        \/ pods' = told /\ Fault("stop")
  /\ pool' = [pool EXCEPT !.todo = @ \ {n}, !.draining = @ \ {n}, !.confirmed = @ \ {n}]
  /\ UNCHANGED <<outside, stop, addr, writer>>

TurnEnds ==
  /\ pool.at = "drain" /\ pool.todo = {}
  /\ pool' = [pool EXCEPT !.at = "idle"]
  /\ UNCHANGED <<outside, pods, stop, addr, writer, used>>

\* The loop ends at a shutdown: a soft one leaves the containers, a hard one
\* tears down those the pool has.
PoolEnds ==
  /\ pool.at = "idle" /\ stop # "no"
  /\ pool' = NoPool /\ writer' = "off"
  /\ pods' = IF stop = "soft" THEN pods
             ELSE [n \in Names |-> IF n \in pool.active \cup pool.draining THEN Absent
                                   ELSE pods[n]]
  /\ addr' = IF stop = "soft" THEN addr ELSE 0
  /\ file' \in IF stop = "hard" /\ writer # "off" THEN {file, 0} ELSE {file}
  /\ UNCHANGED <<doc, stop, proxy, used>>

-----------------------------------------------------------------------------
DrainStep == \E n \in Names : DrainKeeps(n) \/ DrainStops(n)

PoolStep ==
  Adopt \/ Tick \/ Satisfied \/ Start \/ NotReady \/ Promote \/ DrainStep \/ TurnEnds \/ PoolEnds

Next ==
  \/ \E i \in Images : SetTarget(i)
  \/ \E n \in Names : Boots(n) \/ Exits(n)
  \/ AgentStart \/ Shutdown("soft") \/ Shutdown("hard") \/ AgentDies
  \/ \E ok \in BOOLEAN : WriteTarget(ok)
  \/ WriterStops \/ PollTarget \/ ProxyPoll \/ AdoptFails \/ PoolStep

Spec == Init /\ [][Next]_vars

\* The tasks of the agent and of the proxy run, systemd restarts the agent, a
\* container comes up, and DRAIN_TIMEOUT ends every drain.
FairSpec ==
  /\ Spec
  /\ WF_vars(AgentStart) /\ WF_vars(PollTarget) /\ WF_vars(PoolStep)
  /\ WF_vars(WriteTarget(TRUE)) /\ WF_vars(ProxyPoll)
  /\ WF_vars(\E n \in Names : Boots(n)) /\ SF_vars(\E n \in Names : DrainStops(n))

-----------------------------------------------------------------------------
Healthy(n) == pods[n].st = "ready" /\ ~pods[n].drained

\* The agent never stops or drains the last healthy worker: what it does to the
\* old container waits for the new one, also when an agent that adopted the two
\* does it (run, start_new_active, adopt_existing_containers).  Out of its hands
\* are workers that exit by themselves, a list of containers it could not get,
\* and a shutdown that means to end them.
OneKeepsServing ==
  [][((\E n \in Names : Healthy(n)) /\ used'.exits = 0 /\ used'.lists = 0 /\ used'.hard = 0)
     => \E n \in Names : Healthy(n)']_vars

\* In the end the proxy forwards to a healthy worker of the last image named, and
\* nothing is left to drain: whatever failed meanwhile and however often the agent
\* was restarted (run, proxy_target::run, target_file::serve).
RolloutLands ==
  <>[](doc # 0 => /\ \E n \in Names : Healthy(n) /\ n.img = doc /\ n.port = proxy
                  /\ pool.draining = {})
=============================================================================
