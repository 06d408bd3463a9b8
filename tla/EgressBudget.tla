---------------------------- MODULE EgressBudget ----------------------------
(***************************************************************************)
(* A project's monthly compute egress: the credit each worker holds and    *)
(* spends (fn0/worker/src/egress_budget.rs) and the control plane's        *)
(* egress_grant action that hands it out of the monthly quota in           *)
(* optimistic transactions (fn0/control/rs/src/actions/egress_grant.rs).   *)
(*                                                                         *)
(* One project: projects share nothing.  A month is a number, a chunk of   *)
(* data is its size, and u64 is arithmetic modulo Modulus.                 *)
(***************************************************************************)
EXTENDS Integers, FiniteSets, FiniteSetsExt

CONSTANTS
  Worker,        \* worker processes
  Chunk,         \* sizes of the pieces of data charged at a time
  Limit,         \* ProjectEgressQuotaDoc.monthly_egress_limit
  MinGrant,      \* MINIMUM_GRANT_BYTES
  MaxGrant,      \* MAXIMUM_GRANT_BYTES
  Modulus,       \* 2^64
  MaxTries,      \* GRANT_CONFLICT_RETRIES
  MaxMonth,      \* bound on the months that pass
  MaxReq,        \* bound on the grant requests sent
  TurnInFlight,  \* may a month turn while a grant request is on its way?
  ControlLag     \* may the control plane's clock be a month's end behind a worker's?

Month == 1..MaxMonth
Req == 1..MaxReq

ASSUME EgressAssumption ==
  /\ Chunk \subseteq Nat \ {0}
  /\ {Limit, MinGrant, MaxGrant, Modulus, MaxTries, MaxMonth, MaxReq} \subseteq Nat \ {0}
  /\ MinGrant <= MaxGrant /\ TurnInFlight \in BOOLEAN /\ ControlLag \in BOOLEAN
  /\ \A b \in Chunk : MaxGrant + b < Modulus

VARIABLES
  now,     \* the month on the workers' clocks
  quota,   \* the quota document: Limit, or 0 when the project has none
  usage,   \* ProjectEgressUsageDoc: bytes granted per month
  credit,  \* ProjectCredit of each worker
  exh,     \* ExhaustedMarker of each worker, 0 if none or due for a recheck
  call,    \* the charge that holds each worker's credit lock, if any
  req,     \* the grant requests
  nreq,    \* how many were sent
  sent,    \* history: bytes each worker sent on each month's credit
  given    \* history: bytes of each month's quota each worker was given

vars == <<now, quota, usage, credit, exh, call, req, nreq, sent, given>>

\* u64 arithmetic as the release build does it.
Plus(x, y)  == IF x + y < Modulus THEN x + y ELSE x + y - Modulus
Minus(x, y) == IF x >= y THEN x - y ELSE x - y + Modulus

NoCall == [on |-> FALSE, bytes |-> 0, need |-> 0, id |-> 0]
NoReq  == [st |-> "none", month |-> 0, want |-> 0, need |-> 0, seen |-> 0, try |-> 0, got |-> 0]

Init ==
  /\ now = 1 /\ quota \in {0, Limit}
  /\ usage = [m \in Month |-> 0]
  /\ credit = [w \in Worker |-> [month |-> 0, avail |-> 0, next |-> MinGrant, fresh |-> FALSE]]
  /\ exh = [w \in Worker |-> 0]
  /\ call = [w \in Worker |-> NoCall]
  /\ req = [i \in Req |-> NoReq] /\ nreq = 0
  /\ sent = [w \in Worker |-> [m \in Month |-> 0]]
  /\ given = [w \in Worker |-> [m \in Month |-> 0]]

-----------------------------------------------------------------------------
(* ControlEgressBudget::charge, up to the grant request. *)

\* Credit from an earlier month is discarded.
AsOf(c, m) == IF m > c.month THEN [c EXCEPT !.month = m, !.avail = 0] ELSE c

\* The requested size doubles while grants follow each other, up to a ceiling.
Grown(c, quick) == IF ~quick THEN MinGrant
                   ELSE IF 2 * c.next < MaxGrant THEN 2 * c.next ELSE MaxGrant

Spend(w, m, b) == sent' = [sent EXCEPT ![w][m] = @ + b]

ChargeLocally(w, b) ==
  LET c == AsOf(credit[w], now) IN
  /\ ~call[w].on /\ c.avail >= b
  /\ credit' = [credit EXCEPT ![w] = [c EXCEPT !.avail = @ - b]]
  /\ Spend(w, c.month, b)
  /\ UNCHANGED <<now, quota, usage, exh, call, req, nreq, given>>

\* quick: the last grant came within GRANT_GROWTH_WINDOW.
AskGrant(w, b, quick) ==
  LET c == AsOf(credit[w], now)
      need == b - c.avail
      next == Grown(c, quick)
  IN /\ ~call[w].on /\ c.avail < b /\ nreq < MaxReq
     /\ quick => c.fresh
     /\ credit' = [credit EXCEPT ![w] = [c EXCEPT !.next = next]]
     /\ nreq' = nreq + 1
     /\ call' = [call EXCEPT ![w] = [on |-> TRUE, bytes |-> b, need |-> need, id |-> nreq + 1]]
     /\ req' = [req EXCEPT ![nreq + 1] =
                  [NoReq EXCEPT !.st = "sent", !.want = IF next >= need THEN next ELSE need,
                                !.need = need]]
     /\ UNCHANGED <<now, quota, usage, exh, sent, given>>

-----------------------------------------------------------------------------
(* egress_grant: grant_egress's transaction, read and committed. *)

Answer(i, st) == req' = [req EXCEPT ![i] = [@ EXCEPT !.st = st]]

\* The month is read once, before the first attempt.
StartGrant(i, m) ==
  /\ req[i].st = "sent"
  /\ m = now \/ (ControlLag /\ m = now - 1 /\ m \in Month)
  /\ req' = [req EXCEPT ![i] = [@ EXCEPT !.st = "read", !.month = m]]
  /\ UNCHANGED <<now, quota, usage, credit, exh, call, nreq, sent, given>>

\* saturating_sub
Remaining(granted) == IF quota >= granted THEN quota - granted ELSE 0

\* Mutant: judged by what was asked for, not by what the chunk needs.
TooLittleForRequest(rem, q) == rem = 0 \/ rem < q.want

TooLittle(rem, q) == rem = 0 \/ rem < q.need

\* Mutant: the grant is not capped by what is left.
GrantAll(rem, q) == q.want

\* requested_bytes.min(remaining_bytes)
GrantOf(rem, q) == IF q.want <= rem THEN q.want ELSE rem

ReadUsage(i) ==
  LET q == req[i]
      rem == Remaining(usage[q.month])
  IN /\ q.st = "read"
     /\ IF quota = 0 THEN Answer(i, "unconfigured")
        ELSE IF TooLittle(rem, q) THEN Answer(i, "exhausted")
        ELSE req' = [req EXCEPT ![i] = [q EXCEPT !.st = "commit", !.seen = usage[q.month],
                                                 !.got = GrantOf(rem, q)]]
     /\ UNCHANGED <<now, quota, usage, credit, exh, call, nreq, sent, given>>

\* The commit conflicts when the usage document changed since it was read;
\* after MaxTries attempts the answer is Error.
CommitGrant(i) ==
  LET q == req[i] IN
  /\ q.st = "commit"
  /\ IF usage[q.month] = q.seen
     THEN /\ usage' = [usage EXCEPT ![q.month] = @ + q.got]
          /\ Answer(i, "granted")
     ELSE /\ UNCHANGED usage
          /\ IF q.try + 1 < MaxTries
             THEN req' = [req EXCEPT ![i] = [q EXCEPT !.st = "read", !.try = @ + 1]]
             ELSE Answer(i, "error")
  /\ UNCHANGED <<now, quota, credit, exh, call, nreq, sent, given>>

\* The invocation fails, or control answers Error.
GrantFails(i) ==
  /\ req[i].st \in {"sent", "read", "commit"}
  /\ Answer(i, "error")
  /\ UNCHANGED <<now, quota, usage, credit, exh, call, nreq, sent, given>>

-----------------------------------------------------------------------------
(* The rest of charge. *)

\* Mutant: the chunk is not taken off the new credit.
CreditWhole(c, got, b) == [c EXCEPT !.avail = Plus(@, got)]

\* available_bytes += granted_bytes - byte_count
Credited(c, got, b) == [c EXCEPT !.avail = Plus(@, Minus(got, b))]

\* A grant never is smaller than what was needed (TooLittle), so the branch
\* of charge for that case is not taken.
TakeGrant(w) ==
  LET k == call[w]
      q == req[k.id]
      c == AsOf(credit[w], q.month)
  IN /\ k.on /\ q.st = "granted" /\ q.got >= k.need
     /\ credit' = [credit EXCEPT ![w] = [Credited(c, q.got, k.bytes) EXCEPT !.fresh = TRUE]]
     /\ Spend(w, c.month, k.bytes)
     /\ given' = [given EXCEPT ![w][q.month] = @ + q.got]
     /\ call' = [call EXCEPT ![w] = NoCall]
     /\ UNCHANGED <<now, quota, usage, exh, req, nreq>>

\* EgressDenied; the two quota answers leave a marker.
Denied(w) ==
  LET k == call[w]
      q == req[k.id]
  IN /\ k.on /\ q.st \in {"exhausted", "unconfigured", "error"}
     /\ exh' = [exh EXCEPT ![w] = CASE q.st = "exhausted"    -> q.month
                                    [] q.st = "unconfigured" -> credit[w].month
                                    [] OTHER                 -> @]
     /\ call' = [call EXCEPT ![w] = NoCall]
     /\ UNCHANGED <<now, quota, usage, credit, req, nreq, sent, given>>

\* GRANT_DEADLINE passes.  The request may still be carried out.
Deadline(w) ==
  /\ call[w].on
  /\ call' = [call EXCEPT ![w] = NoCall]
  /\ UNCHANGED <<now, quota, usage, credit, exh, req, nreq, sent, given>>

\* EXHAUSTED_RECHECK_INTERVAL passes: known_exhausted no longer holds.
RecheckDue(w) ==
  /\ exh[w] # 0
  /\ exh' = [exh EXCEPT ![w] = 0]
  /\ UNCHANGED <<now, quota, usage, credit, call, req, nreq, sent, given>>

\* The worker process is replaced; its credit is lost with it.
RestartWorker(w) ==
  /\ credit[w].month # 0
  /\ credit' = [credit EXCEPT ![w] = [month |-> 0, avail |-> 0, next |-> MinGrant, fresh |-> FALSE]]
  /\ exh' = [exh EXCEPT ![w] = 0]
  /\ call' = [call EXCEPT ![w] = NoCall]
  /\ UNCHANGED <<now, quota, usage, req, nreq, sent, given>>

TurnMonth ==
  /\ now < MaxMonth
  /\ TurnInFlight \/ \A i \in Req : req[i].st \notin {"sent", "read", "commit"}
  /\ now' = now + 1
  /\ UNCHANGED <<quota, usage, credit, exh, call, req, nreq, sent, given>>

Next ==
  \/ \E w \in Worker, b \in Chunk :
       ChargeLocally(w, b) \/ \E quick \in BOOLEAN : AskGrant(w, b, quick)
  \/ \E i \in Req :
       \/ \E m \in Month : StartGrant(i, m)
       \/ ReadUsage(i) \/ CommitGrant(i) \/ GrantFails(i)
  \/ \E w \in Worker : TakeGrant(w) \/ Denied(w) \/ Deadline(w) \/ RecheckDue(w) \/ RestartWorker(w)
  \/ TurnMonth

Spec == Init /\ [][Next]_vars

-----------------------------------------------------------------------------
(* Properties. *)

\* Every quantity is in its type: a requested size never passes MaxGrant
\* unless the chunk alone needs more, and credit stays a u64.
TypeOK ==
  /\ now \in Month /\ quota \in {0, Limit}
  /\ usage \in [Month -> Nat]
  /\ credit \in [Worker -> [month : 0..MaxMonth, avail : 0..(Modulus - 1),
                            next : MinGrant..MaxGrant, fresh : BOOLEAN]]
  /\ exh \in [Worker -> 0..MaxMonth]
  /\ call \in [Worker -> [on : BOOLEAN, bytes : Nat, need : Nat, id : 0..MaxReq]]
  /\ req \in [Req -> [st : {"none", "sent", "read", "commit", "granted", "exhausted",
                            "unconfigured", "error"},
                      month : 0..MaxMonth, want : Nat, need : Nat, seen : Nat, try : Nat, got : Nat]]
  /\ nreq \in 0..MaxReq
  /\ sent \in [Worker -> [Month -> Nat]] /\ given \in [Worker -> [Month -> Nat]]

\* "Control charges a project's monthly usage when it grants credit, and the
\* worker spends that credit locally" (egress_budget.rs): a worker never sends,
\* or keeps the right to send, more on a month's credit than it was given of it.
SpentIsGiven ==
  \A w \in Worker, m \in Month :
    sent[w][m] + (IF credit[w].month = m THEN credit[w].avail ELSE 0) <= given[w][m]

\* The grants of a month never exceed its quota, whatever transactions race.
GrantsWithinLimit == \A m \in Month : usage[m] <= quota

\* known_exhausted refuses work up front only when the marker's month really
\* has less left than some chunk needs, or the project has no quota.
ExhaustedIsReal ==
  \A w \in Worker : exh[w] # 0 /\ quota # 0 =>
    \E b \in Chunk : usage[exh[w]] + b > quota
=============================================================================
