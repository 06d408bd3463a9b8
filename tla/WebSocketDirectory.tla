------------------------- MODULE WebSocketDirectory -------------------------
(***************************************************************************)
(* The directory other workers find a connection in                        *)
(* (fn0/worker/src/websocket_directory.rs), as its owner writes it, as      *)
(* senders that miss the connection correct it (websocket.rs), and as the   *)
(* control plane scans it for leftovers (websocket_directory_gc.rs).        *)
(*                                                                         *)
(* A connection is a number: identifiers are random and never reused, and   *)
(* the scan orders by them.  An inbound one is published before it is       *)
(* registered with its worker, an outbound one after.                       *)
(***************************************************************************)
EXTENDS Integers, FiniteSets, FiniteSetsExt

CONSTANTS
  Inbound,   \* connections clients open
  Outbound,  \* connections the project opens
  PageLimit, \* PAGE_LIMIT of the scan
  MaxDeaths  \* bound on the deaths of the process

VARIABLES
  conn,    \* where each connection is with its owner
  put,     \* outbound connections whose publish is under way
  dir,     \* the connections the directory lists
  missed,  \* connections a sender was told are not there
  gc,      \* the scan
  deaths

vars == <<conn, put, dir, missed, gc, deaths>>

Conns == Inbound \cup Outbound

Init ==
  /\ conn = [c \in Conns |-> "new"] /\ put = {} /\ dir = {} /\ missed = {}
  /\ gc = [at |-> "idle", cursor |-> 0, page |-> {}, present |-> {}]
  /\ deaths = 0

Move(c, from, to) == conn[c] = from /\ conn' = [conn EXCEPT ![c] = to]

\* has_connection
Present == {c \in Conns : conn[c] = "open"}

-----------------------------------------------------------------------------
(* The owner.                                                               *)

\* put_connection: one that fails may have been done all the same.
Put(c, ok) == IF ok THEN dir' = dir \cup {c} ELSE dir' \in {dir, dir \cup {c}}

\* handle_websocket_upgrade publishes before it answers 101.
PublishInbound(c, ok) ==
  /\ c \in Inbound /\ Move(c, "new", IF ok THEN "upgrading" ELSE "gone") /\ Put(c, ok)
  /\ UNCHANGED <<put, missed, gc, deaths>>

UpgradeFails(c) ==
  /\ Move(c, "upgrading", "leaving")
  /\ UNCHANGED <<put, dir, missed, gc, deaths>>

\* register_connection
Register(c) ==
  /\ IF c \in Inbound THEN Move(c, "upgrading", "open") /\ UNCHANGED put
     ELSE Move(c, "new", "open") /\ put' = put \cup {c}
  /\ UNCHANGED <<dir, missed, gc, deaths>>

PublishOutbound(c, ok) ==
  /\ c \in put /\ put' = put \ {c} /\ Put(c, ok)
  /\ UNCHANGED <<conn, missed, gc, deaths>>

\* run_connection's end, whatever brought it on.
Remove(c) ==
  /\ Move(c, "open", "leaving")
  /\ UNCHANGED <<put, dir, missed, gc, deaths>>

\* unpublish_connection, which is not repeated when it fails.
Unpublish(c, ok) ==
  /\ Move(c, "leaving", "gone") /\ dir' = IF ok THEN dir \ {c} ELSE dir
  /\ UNCHANGED <<put, missed, gc, deaths>>

\* The process dies; another, with a new worker_id, takes its endpoint.
Dies ==
  /\ deaths < MaxDeaths /\ deaths' = deaths + 1
  /\ conn' = [c \in Conns |-> IF conn[c] = "new" THEN "new" ELSE "gone"] /\ put' = {}
  /\ UNCHANGED <<dir, missed, gc>>

-----------------------------------------------------------------------------
(* Senders: a listed connection its owner does not have is unlisted.         *)

SendMisses(c) ==
  /\ c \in dir /\ c \notin Present /\ missed' = missed \cup {c}
  /\ UNCHANGED <<conn, put, dir, gc, deaths>>

SendUnlists(c, ok) ==
  /\ c \in missed /\ missed' = missed \ {c}
  /\ dir' = IF ok THEN dir \ {c} ELSE dir
  /\ UNCHANGED <<conn, put, gc, deaths>>

-----------------------------------------------------------------------------
(* run_gc.                                                                  *)

\* The first PageLimit entries after the cursor
Page(cursor) ==
  LET after == {c \in dir : c > cursor}
  IN {c \in after : Cardinality({d \in after : d <= c}) <= PageLimit}

\* Mutant: the cursor stays where it is when nothing comes after it.
GcScanStuck ==
  /\ gc.at = "idle" /\ Page(gc.cursor) # {}
  /\ gc' = [gc EXCEPT !.cursor = Max(Page(gc.cursor)), !.page = Page(gc.cursor), !.at = "probe"]
  /\ UNCHANGED <<conn, put, dir, missed, deaths>>

\* The cursor is stored before the workers are asked.
GcScan ==
  /\ gc.at = "idle"
  /\ gc' = IF Page(gc.cursor) = {} THEN [gc EXCEPT !.cursor = 0]
           ELSE [gc EXCEPT !.cursor = Max(Page(gc.cursor)), !.page = Page(gc.cursor), !.at = "probe"]
  /\ UNCHANGED <<conn, put, dir, missed, deaths>>

\* The worker says which it has, or does not answer and the page is let be.
GcProbe(ok) ==
  /\ gc.at = "probe"
  /\ gc' = IF ok THEN [gc EXCEPT !.present = gc.page \cap Present, !.at = "delete"]
           ELSE [gc EXCEPT !.page = {}, !.at = "idle"]
  /\ UNCHANGED <<conn, put, dir, missed, deaths>>

\* delete_if_owned for each of the others; one that fails ends the run.
GcDelete(done) ==
  /\ gc.at = "delete" /\ done \subseteq gc.page \ gc.present
  /\ dir' = dir \ done
  /\ gc' = [gc EXCEPT !.page = {}, !.present = {}, !.at = "idle"]
  /\ UNCHANGED <<conn, put, missed, deaths>>

GcDeleteAll == gc.at = "delete" /\ GcDelete(gc.page \ gc.present)

-----------------------------------------------------------------------------
OwnerStep(c) ==
  \/ UpgradeFails(c) \/ Register(c) \/ Remove(c)
  \/ \E ok \in BOOLEAN : PublishInbound(c, ok) \/ PublishOutbound(c, ok) \/ Unpublish(c, ok)

GcStep ==
  \/ GcScan \/ (\E ok \in BOOLEAN : GcProbe(ok)) \/ (\E done \in SUBSET Conns : GcDelete(done))

Next ==
  \/ \E c \in Conns : OwnerStep(c) \/ SendMisses(c) \/ \E ok \in BOOLEAN : SendUnlists(c, ok)
  \/ GcStep \/ Dies

Spec == Init /\ [][Next]_vars

\* cron_on_tick runs the scan again and again.  A worker that is asked about a
\* connection often enough answers, and the transaction then commits.
FairSpec ==
  /\ Spec /\ WF_vars(GcStep)
  /\ \A c \in Conns :
       /\ SF_vars(c \in gc.page /\ GcProbe(TRUE))
       /\ SF_vars(c \in gc.page /\ GcDeleteAll)

-----------------------------------------------------------------------------
\* An entry whose connection is gone does not stay: what the owner failed to
\* unpublish, or published too late, the scan finds (unpublish_connection, run_gc).
LeftoversGo == \A c \in Conns : (c \in dir /\ conn[c] = "gone") ~> c \notin dir

\* Only connections that are missing are unlisted: one that is open stays
\* listed (run_gc, the dispatcher's send).
OpenStaysListed == \A c \in Inbound : conn[c] = "open" => c \in dir
=============================================================================
