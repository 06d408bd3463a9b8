-------------------------- MODULE WebSocketService --------------------------
(***************************************************************************)
(* The connections of one worker (fn0/worker/src/websocket.rs): capacity,   *)
(* registration against deployments and drains.  Inbound ones come from     *)
(* handle_websocket_upgrade (worker/src/main.rs), outbound ones from        *)
(* connect_outbound.  Their entries in the directory are in                 *)
(* WebSocketDirectory, their traffic in WebSocketConnection.                *)
(***************************************************************************)
EXTENDS Integers, FiniteSets

CONSTANTS
  Inbound,      \* connections clients open
  Outbound,     \* connections the project opens
  Project,      \* the project of each connection
  WorkerLimit,  \* WORKER_CONNECTION_LIMIT
  ProjectLimit, \* PROJECT_CONNECTION_LIMIT
  MaxGen        \* bound on the deployments of a project

VARIABLES
  draining, \* the worker has been asked to drain
  wcount,   \* worker_count
  pcount,   \* project_counts
  gen,      \* project_generations
  conn,     \* where each connection is
  closer    \* close_project as the manifest poller and the drain run it

counts == <<wcount, pcount>>
vars   == <<draining, counts, gen, conn, closer>>

Conns    == Inbound \cup Outbound
Projects == {Project[c] : c \in Conns}
Closers  == {"poller", "drain"}

\* Nobody closing: `left` are the projects still to close.
NoClose == [at |-> "idle", left |-> {}, todo |-> {}, targets |-> {}]

Init ==
  /\ draining = FALSE /\ wcount = 0 /\ pcount = [p \in Projects |-> 0]
  /\ gen = [p \in Projects |-> 0]
  /\ conn = [c \in Conns |-> [at |-> "new", gen |-> 0, closing |-> FALSE]]
  /\ closer = [a \in Closers |-> NoClose]

At(c) == conn[c].at

\* Nothing is kept of a connection that is over.
Move(c, to) ==
  conn' = [conn EXCEPT ![c] = IF to \in {"leaving", "gone"} THEN [at |-> to, gen |-> 0, closing |-> FALSE]
                              ELSE [@ EXCEPT !.at = to]]

\* The keys of WebSocketService::connections
Present == {c \in Conns : At(c) \in {"inserted", "open"}}

-----------------------------------------------------------------------------
(* reserve_capacity, and CapacityGuard's Drop.                              *)

ReserveWorker(c) ==
  /\ At(c) = "new"
  /\ IF draining \/ wcount >= WorkerLimit
     THEN Move(c, "gone") /\ UNCHANGED wcount
     ELSE Move(c, "reserving") /\ wcount' = wcount + 1
  /\ UNCHANGED <<draining, pcount, gen, closer>>

ReserveProject(c) ==
  LET p == Project[c] IN
  /\ At(c) = "reserving"
  /\ IF pcount[p] >= ProjectLimit
     THEN Move(c, "gone") /\ wcount' = wcount - 1 /\ UNCHANGED pcount
     ELSE /\ pcount' = [pcount EXCEPT ![p] = @ + 1] /\ UNCHANGED wcount
          /\ conn' = [conn EXCEPT ![c] = [@ EXCEPT !.at = "connecting", !.gen = gen[p]]]
  /\ UNCHANGED <<draining, gen, closer>>

\* The connection is gone and its CapacityGuard is dropped.
Release(c) ==
  /\ Move(c, "gone")
  /\ wcount' = wcount - 1 /\ pcount' = [pcount EXCEPT ![Project[c]] = @ - 1]

-----------------------------------------------------------------------------
(* Opening a connection.                                                    *)

\* on_connect rejects or fails; the dial or the handshake fails.
Refused(c) ==
  /\ At(c) = "connecting" /\ Release(c)
  /\ UNCHANGED <<draining, gen, closer>>

\* on_connect accepts and the connection is published, or cannot be.
Accept(c, ok) ==
  /\ c \in Inbound /\ At(c) = "connecting"
  /\ IF ok THEN Move(c, "upgrading") /\ UNCHANGED counts ELSE Release(c)
  /\ UNCHANGED <<draining, gen, closer>>

\* The request cannot be upgraded, or the upgrade fails.
UpgradeFails(c) ==
  /\ c \in Inbound /\ At(c) = "upgrading" /\ Move(c, "leaving")
  /\ UNCHANGED <<draining, counts, gen, closer>>

Stale(c) == draining \/ gen[Project[c]] # conn[c].gen

\* finish_outbound_handshake looks before it registers.
Handshake(c) ==
  /\ c \in Outbound /\ At(c) = "connecting"
  /\ IF Stale(c) THEN Release(c) ELSE Move(c, "upgrading") /\ UNCHANGED counts
  /\ UNCHANGED <<draining, gen, closer>>

\* register_connection inserts the connection, and only then looks whether the
\* project was closed or the worker drained since the reservation.
Insert(c) ==
  /\ At(c) = "upgrading" /\ Move(c, "inserted")
  /\ UNCHANGED <<draining, counts, gen, closer>>

\* Mutant: what was looked at before the insertion decides.
CheckNothing(c) ==
  /\ At(c) = "inserted" /\ Move(c, "open")
  /\ UNCHANGED <<draining, counts, gen, closer>>

CheckInserted(c) ==
  /\ At(c) = "inserted"
  /\ conn' = [conn EXCEPT ![c] = [@ EXCEPT !.at = "open", !.closing = @ \/ Stale(c)]]
  /\ UNCHANGED <<draining, counts, gen, closer>>

-----------------------------------------------------------------------------
(* run_connection's end, whatever ended it.                                 *)

Remove(c) ==
  /\ At(c) = "open" /\ Move(c, "leaving")
  /\ UNCHANGED <<draining, counts, gen, closer>>

\* unpublish_connection, then the capacity.
Unpublish(c) ==
  /\ At(c) = "leaving" /\ Release(c)
  /\ UNCHANGED <<draining, gen, closer>>

-----------------------------------------------------------------------------
(* close_project and close_all.  The iteration over the connections is not a *)
(* snapshot: each is looked at in a moment of its own.                       *)

\* The manifest poller sees a new code version, or the project is gone.
Deploy(p) ==
  /\ closer["poller"].at = "idle" /\ gen[p] < MaxGen
  /\ closer' = [closer EXCEPT !["poller"] = [@ EXCEPT !.at = "bump", !.left = {p}]]
  /\ UNCHANGED <<draining, counts, gen, conn>>

\* close_all collects the projects that have connections, as it finds them.
Drain ==
  /\ ~draining /\ draining' = TRUE
  /\ closer' = [closer EXCEPT !["drain"] = [@ EXCEPT !.at = "collect", !.todo = Conns]]
  /\ UNCHANGED <<counts, gen, conn>>

DrainCollect(c) ==
  LET d == closer["drain"] IN
  /\ d.at = "collect" /\ c \in d.todo
  /\ closer' = [closer EXCEPT !["drain"] =
       [@ EXCEPT !.todo = @ \ {c},
                 !.left = IF c \in Present THEN @ \cup {Project[c]} ELSE @,
                 !.at   = IF d.todo = {c} THEN "bump" ELSE @]]
  /\ UNCHANGED <<draining, counts, gen, conn>>

\* The next project's generation; done when there is none.
Bump(a) ==
  /\ closer[a].at = "bump"
  /\ IF closer[a].left = {}
     THEN closer' = [closer EXCEPT ![a] = NoClose] /\ UNCHANGED gen
     ELSE \E p \in closer[a].left :
            /\ gen' = [gen EXCEPT ![p] = @ + 1]
            /\ closer' = [closer EXCEPT ![a] = [@ EXCEPT !.at = p, !.todo = {c \in Conns : Project[c] = p}]]
  /\ UNCHANGED <<draining, counts, conn>>

\* Connections of other projects are passed over.
Visit(a, c) ==
  /\ closer[a].at \in Projects /\ c \in closer[a].todo
  /\ closer' = [closer EXCEPT ![a] =
       [@ EXCEPT !.todo = @ \ {c},
                 !.targets = IF c \in Present THEN @ \cup {c} ELSE @]]
  /\ UNCHANGED <<draining, counts, gen, conn>>

CloseTargets(a) ==
  LET p == closer[a].at IN
  /\ p \in Projects /\ closer[a].todo = {}
  /\ conn' = [c \in Conns |-> IF c \in closer[a].targets \cap Present THEN [conn[c] EXCEPT !.closing = TRUE] ELSE conn[c]]
  /\ closer' = [closer EXCEPT ![a] = [@ EXCEPT !.at = "bump", !.left = @ \ {p}, !.targets = {}]]
  /\ UNCHANGED <<draining, counts, gen>>

\* A disconnect, a full queue, a lost lease, the egress quota, or an outbound
\* connection that cannot be published.
CloseOne(c) ==
  /\ c \in Present /\ ~conn[c].closing
  /\ conn' = [conn EXCEPT ![c].closing = TRUE]
  /\ UNCHANGED <<draining, counts, gen, closer>>

-----------------------------------------------------------------------------
ConnStep(c) ==
  \/ ReserveWorker(c) \/ ReserveProject(c) \/ Refused(c) \/ UpgradeFails(c) \/ Handshake(c)
  \/ Insert(c) \/ CheckInserted(c) \/ Remove(c) \/ Unpublish(c) \/ CloseOne(c)
  \/ \E ok \in BOOLEAN : Accept(c, ok)

Next ==
  \/ \E c \in Conns : ConnStep(c) \/ DrainCollect(c)
  \/ \E a \in Closers : Bump(a) \/ CloseTargets(a) \/ \E c \in Conns : Visit(a, c)
  \/ (\E p \in Projects : Deploy(p)) \/ Drain

Spec == Init /\ [][Next]_vars

-----------------------------------------------------------------------------
\* Capacity is neither lost nor given twice: each counter is the connections
\* that hold a slot and keeps to its limit (reserve_capacity, CapacityGuard).
CapacityExact ==
  LET Held(S) == {c \in S : At(c) \notin {"new", "gone", "reserving"}} IN
  /\ wcount = Cardinality(Held(Conns)) + Cardinality({c \in Conns : At(c) = "reserving"})
  /\ wcount <= WorkerLimit
  /\ \A p \in Projects :
       /\ pcount[p] = Cardinality(Held({c \in Conns : Project[c] = p}))
       /\ pcount[p] <= ProjectLimit

\* Once a close_project or a close_all is through, no connection from before it
\* is left open, however its registration fell (register_connection).
NoneLeftOpen ==
  \A c \in Conns :
    At(c) = "open" /\ ~conn[c].closing =>
      /\ draining => closer["drain"].at # "idle"
      /\ gen[Project[c]] # conn[c].gen => \E a \in Closers : closer[a].at = Project[c]
=============================================================================
