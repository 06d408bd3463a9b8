------------------------- MODULE EgressBudgetProofs -------------------------
(***************************************************************************)
(* Theorems about EgressBudget for every number of workers, requests and   *)
(* months, every set of chunk sizes and every limit.                       *)
(***************************************************************************)
EXTENDS EgressBudget, TLAPS

(* A leaf that names no prover goes to the SMT solver, which is called again *)
(* when its time ran out, and in the end to Zenon.                           *)
USE SMTT(120), Z3T(120), SMTT(90), Z3T(90), ZenonT(60)

Status == {"none", "sent", "read", "commit", "granted", "exhausted", "unconfigured", "error"}
Request == [st : Status, month : 0..MaxMonth, want : Nat, need : Nat, seen : Nat, try : Nat,
            got : Nat]
Credit == [month : 0..MaxMonth, avail : 0..(Modulus - 1), next : MinGrant..MaxGrant,
           fresh : BOOLEAN]
Charge == [on : BOOLEAN, bytes : Nat, need : Nat, id : 0..MaxReq]

\* What is known of a request from its status alone.
Sound(q) ==
  /\ q.want < Modulus /\ q.need <= q.want
  /\ q.st \in {"read", "commit", "granted"} => q.month \in Month
  /\ q.st \in {"commit", "granted"} => q.need <= q.got /\ q.got <= q.want
  /\ q.st = "commit" => q.seen + q.got <= quota

RequestsSound == \A i \in Req : Sound(req[i])

ChargesNamed == \A w \in Worker : call[w].on => call[w].bytes \in Chunk /\ call[w].id \in 1..nreq

\* The inductive invariant of the grants.
Granting == TypeOK /\ RequestsSound /\ ChargesNamed /\ GrantsWithinLimit

LEMMA ConstantTypes ==
  /\ Limit \in Nat /\ MinGrant \in Nat /\ MaxGrant \in Nat /\ Modulus \in Nat \ {0}
  /\ MaxTries \in Nat /\ MaxMonth \in Nat \ {0} /\ MaxReq \in Nat
  /\ MinGrant <= MaxGrant
  /\ \A b \in Chunk : b \in Nat /\ MaxGrant + b < Modulus
  BY EgressAssumption

\* TypeOK in terms of the record sets above.
Shape ==
  /\ now \in Month /\ quota \in Nat /\ quota \in {0, Limit}
  /\ usage \in [Month -> Nat]
  /\ credit \in [Worker -> Credit] /\ exh \in [Worker -> 0..MaxMonth]
  /\ call \in [Worker -> Charge] /\ req \in [Req -> Request] /\ nreq \in 0..MaxReq
  /\ sent \in [Worker -> [Month -> Nat]] /\ given \in [Worker -> [Month -> Nat]]

LEMMA TypeIsShape == TypeOK <=> Shape
  BY ConstantTypes DEF TypeOK, Shape, Credit, Charge, Request, Status

LEMMA AsOfType ==
  ASSUME NEW c \in Credit, NEW m \in Month
  PROVE  AsOf(c, m) \in Credit /\ AsOf(c, m).month \in Month
  <1>1. CASE m > c.month
    <2> DEFINE d == [c EXCEPT !.month = m]
    <2>1. AsOf(c, m) = [d EXCEPT !.avail = 0]
      BY <1>1 DEF AsOf
    <2>2. d \in Credit /\ d.month = m
      BY ConstantTypes DEF Credit, Month
    <2>3. 0 \in 0..(Modulus - 1)
      BY ConstantTypes
    <2> HIDE DEF d
    <2> QED BY <2>1, <2>2, <2>3 DEF Credit
  <1>2. CASE ~(m > c.month)
    BY <1>2, ConstantTypes DEF AsOf, Credit, Month
  <1> QED BY <1>1, <1>2

LEMMA GrownType ==
  ASSUME NEW c \in Credit, NEW quick \in BOOLEAN
  PROVE  Grown(c, quick) \in MinGrant..MaxGrant
  BY ConstantTypes DEF Grown, Credit

LEMMA WordArithmetic ==
  ASSUME NEW x \in 0..(Modulus - 1), NEW y \in 0..(Modulus - 1)
  PROVE  Plus(x, y) \in 0..(Modulus - 1) /\ Minus(x, y) \in 0..(Modulus - 1)
  BY ConstantTypes DEF Plus, Minus

LEMMA RequestUpdates ==
  \A q \in Request :
    /\ \A st \in Status : [q EXCEPT !.st = st] \in Request
    /\ \A m \in 0..MaxMonth : [q EXCEPT !.month = m] \in Request
    /\ \A n \in Nat : /\ [q EXCEPT !.want = n] \in Request
                      /\ [q EXCEPT !.need = n] \in Request
                      /\ [q EXCEPT !.seen = n] \in Request
                      /\ [q EXCEPT !.try = n] \in Request
                      /\ [q EXCEPT !.got = n] \in Request
  BY DEF Request

LEMMA InitGranting == Init => Granting
  <1> SUFFICES ASSUME Init PROVE Granting
    OBVIOUS
  <1> USE ConstantTypes DEF Init
  <1>1. Shape
    BY DEF Credit, NoCall, Charge, NoReq, Request, Status, Shape, Month
  <1>2. RequestsSound
    BY DEF RequestsSound, Sound, NoReq
  <1>3. ChargesNamed
    BY DEF ChargesNamed, NoCall
  <1>4. GrantsWithinLimit
    BY DEF GrantsWithinLimit
  <1> QED BY <1>1, <1>2, <1>3, <1>4, TypeIsShape DEF Granting

\* A step that moves one request and leaves the charges alone.
LEMMA RequestMoves ==
  ASSUME Granting, NEW i \in Req, NEW q \in Request, req' = [req EXCEPT ![i] = q],
         Sound(q), usage' \in [Month -> Nat], \A m \in Month : usage'[m] <= quota,
         UNCHANGED <<now, quota, credit, exh, call, nreq, sent, given>>
  PROVE  Granting'
  <1>1. Shape
    BY TypeIsShape DEF Granting
  <1>2. Shape'
    BY <1>1 DEF Shape
  <1>3. RequestsSound'
    BY <1>1 DEF RequestsSound, Shape, Granting, Sound
  <1>4. ChargesNamed'
    BY DEF Granting, ChargesNamed
  <1>5. GrantsWithinLimit'
    BY DEF GrantsWithinLimit
  <1>6. TypeOK'
    BY <1>2, TypeIsShape, PTL
  <1> QED BY <1>3, <1>4, <1>5, <1>6 DEF Granting

LEMMA AnswerSound ==
  ASSUME Granting, NEW i \in Req, NEW st \in {"granted", "exhausted", "unconfigured", "error"},
         st = "granted" => req[i].st = "commit"
  PROVE  [req[i] EXCEPT !.st = st] \in Request /\ Sound([req[i] EXCEPT !.st = st])
  <1>1. req[i] \in Request /\ st \in Status
    BY TypeIsShape DEF Granting, Shape, Status
  <1>2. [req[i] EXCEPT !.st = st] \in Request
    BY <1>1 DEF Request
  <1>3. Sound(req[i])
    BY DEF Granting, RequestsSound
  <1>4. Sound([req[i] EXCEPT !.st = st])
    BY <1>1, <1>3 DEF Request, Sound
  <1> QED BY <1>2, <1>4

LEMMA StartGrantGranting ==
  ASSUME Granting, NEW i \in Req, NEW m \in Month, StartGrant(i, m)
  PROVE  Granting'
  <1> DEFINE q == [req[i] EXCEPT !.st = "read", !.month = m]
             p == [req[i] EXCEPT !.st = "read"]
  <1>1. /\ req' = [req EXCEPT ![i] = q]
        /\ UNCHANGED <<now, quota, usage, credit, exh, call, nreq, sent, given>>
    BY DEF StartGrant
  <1>2. req[i] \in Request /\ usage \in [Month -> Nat] /\ m \in 0..MaxMonth
    BY TypeIsShape, ConstantTypes DEF Granting, Shape, Month
  <1>3. q \in Request
    <2>1. p \in Request
      BY <1>2 DEF Request, Status
    <2>2. q = [p EXCEPT !.month = m]
      OBVIOUS
    <2> HIDE DEF p
    <2> QED BY <1>2, <2>1, <2>2, RequestUpdates
  <1>4. Sound(q)
    BY <1>2 DEF Granting, RequestsSound, Request, Sound
  <1>5. \A k \in Month : usage'[k] <= quota
    BY <1>1 DEF Granting, GrantsWithinLimit
  <1> HIDE DEF q
  <1> QED BY <1>1, <1>2, <1>3, <1>4, <1>5, RequestMoves, ZenonT(60)

LEMMA ReadUsageGranting ==
  ASSUME Granting, NEW i \in Req, ReadUsage(i)
  PROVE  Granting'
  <1> DEFINE rem == Remaining(usage[req[i].month])
             p == [req[i] EXCEPT !.st = "commit"]
             r == [p EXCEPT !.seen = usage[req[i].month]]
             q == [req[i] EXCEPT !.st = "commit", !.seen = usage[req[i].month],
                                 !.got = GrantOf(rem, req[i])]
  <1>1. /\ req[i].st = "read"
        /\ UNCHANGED <<now, quota, usage, credit, exh, call, nreq, sent, given>>
    BY DEF ReadUsage
  <1>2. /\ req[i] \in Request /\ usage \in [Month -> Nat] /\ quota \in Nat
        /\ req[i].month \in Month /\ Sound(req[i])
    BY <1>1, TypeIsShape DEF Granting, Shape, RequestsSound, Sound
  <1>3. \A k \in Month : usage'[k] <= quota
    BY <1>1 DEF Granting, GrantsWithinLimit
  <1>4. CASE Answer(i, "unconfigured") \/ Answer(i, "exhausted")
    BY <1>1, <1>2, <1>3, <1>4, AnswerSound, RequestMoves, ZenonT(60) DEF Answer
  <1>5. CASE req' = [req EXCEPT ![i] = q] /\ ~TooLittle(rem, req[i])
    <2>1. /\ rem \in Nat /\ rem # 0 /\ req[i].need <= rem
          /\ usage[req[i].month] + rem <= quota
      BY <1>2, <1>5 DEF TooLittle, Remaining, Request
    <2>2. GrantOf(rem, req[i]) \in Nat /\ GrantOf(rem, req[i]) <= rem
      BY <1>2, <2>1 DEF GrantOf, Request
    <2>3. p \in Request
      BY <1>2 DEF Request, Status
    <2>4. r \in Request
      BY <1>2, <2>3, RequestUpdates, ZenonT(60)
    <2>5. q = [r EXCEPT !.got = GrantOf(rem, req[i])]
      OBVIOUS
    <2>6. q \in Request
      BY <2>2, <2>4, <2>5, RequestUpdates, ZenonT(60)
    <2>7. Sound(q)
      BY <1>2, <2>1, <2>2 DEF Request, GrantOf, Sound
    <2> HIDE DEF q
    <2> QED BY <1>1, <1>2, <1>3, <1>5, <2>6, <2>7, RequestMoves, ZenonT(60)
  <1> QED BY <1>4, <1>5 DEF ReadUsage

LEMMA CommitGrantGranting ==
  ASSUME Granting, NEW i \in Req, CommitGrant(i)
  PROVE  Granting'
  <1>1. /\ req[i].st = "commit"
        /\ UNCHANGED <<now, quota, credit, exh, call, nreq, sent, given>>
    BY DEF CommitGrant
  <1>2. /\ req[i] \in Request /\ usage \in [Month -> Nat] /\ quota \in Nat
        /\ req[i].month \in Month /\ Sound(req[i])
        /\ \A k \in Month : usage[k] <= quota
    BY <1>1, TypeIsShape DEF Granting, Shape, RequestsSound, Sound, GrantsWithinLimit
  <1>3. CASE usage[req[i].month] = req[i].seen
    <2>1. /\ usage' = [usage EXCEPT ![req[i].month] = @ + req[i].got]
          /\ Answer(i, "granted")
      BY <1>3 DEF CommitGrant
    <2>2. req[i].got \in Nat /\ usage[req[i].month] + req[i].got <= quota
      BY <1>1, <1>2, <1>3 DEF Sound, Request
    <2>3. usage' \in [Month -> Nat] /\ \A k \in Month : usage'[k] <= quota
      BY <1>2, <2>1, <2>2
    <2> QED BY <1>1, <2>1, <2>3, AnswerSound, RequestMoves, ZenonT(60) DEF Answer
  <1>4. CASE usage' = usage /\ Answer(i, "error")
    BY <1>1, <1>2, <1>4, AnswerSound, RequestMoves, ZenonT(60) DEF Answer
  <1>5. CASE /\ usage' = usage
             /\ req' = [req EXCEPT ![i] = [req[i] EXCEPT !.st = "read", !.try = @ + 1]]
    <2> DEFINE p == [req[i] EXCEPT !.st = "read"]
               q == [req[i] EXCEPT !.st = "read", !.try = @ + 1]
    <2>1. p \in Request /\ req[i].try + 1 \in Nat
      BY <1>2 DEF Request, Status
    <2>2. q = [p EXCEPT !.try = req[i].try + 1]
      BY <1>2 DEF Request
    <2>3. q \in Request
      BY <2>1, <2>2, RequestUpdates, ZenonT(60)
    <2>4. Sound(q)
      BY <1>2 DEF Request, Sound
    <2> HIDE DEF q
    <2> QED BY <1>1, <1>2, <1>5, <2>3, <2>4, RequestMoves, ZenonT(60) DEF q
  <1> QED BY <1>3, <1>4, <1>5, ZenonT(60) DEF CommitGrant

LEMMA GrantFailsGranting ==
  ASSUME Granting, NEW i \in Req, GrantFails(i)
  PROVE  Granting'
  BY TypeIsShape, AnswerSound, RequestMoves, ZenonT(60) DEF GrantFails, Answer, Granting, Shape,
     GrantsWithinLimit

\* A step of a worker that sends no request.
LEMMA WorkerMoves ==
  ASSUME Granting, UNCHANGED <<quota, usage, req, nreq>>,
         now' \in Month, credit' \in [Worker -> Credit], exh' \in [Worker -> 0..MaxMonth],
         sent' \in [Worker -> [Month -> Nat]], given' \in [Worker -> [Month -> Nat]],
         \/ call' = call
         \/ \E w \in Worker : call' = [call EXCEPT ![w] = NoCall]
  PROVE  Granting'
  <1>1. Shape
    BY TypeIsShape DEF Granting
  <1>2. NoCall \in Charge /\ ~NoCall.on
    BY ConstantTypes DEF NoCall, Charge
  <1>3. call' \in [Worker -> Charge]
    BY <1>1, <1>2 DEF Shape
  <1>4. Shape'
    BY <1>1, <1>3 DEF Shape
  <1>5. TypeOK'
    BY <1>4, TypeIsShape, PTL
  <1>6. RequestsSound' /\ GrantsWithinLimit'
    BY DEF Granting, RequestsSound, Sound, GrantsWithinLimit
  <1>7. \A w \in Worker : call'[w] = call[w] \/ call'[w] = NoCall
    BY <1>1 DEF Shape
  <1>8. ChargesNamed'
    BY <1>2, <1>7 DEF Granting, ChargesNamed
  <1> QED BY <1>5, <1>6, <1>8 DEF Granting

LEMMA ChargeLocallyGranting ==
  ASSUME Granting, NEW w \in Worker, NEW b \in Chunk, ChargeLocally(w, b)
  PROVE  Granting'
  <1> DEFINE c == AsOf(credit[w], now)
  <1>1. Shape
    BY TypeIsShape DEF Granting
  <1>2. c \in Credit /\ c.month \in Month /\ b \in Nat
    BY <1>1, AsOfType, ConstantTypes DEF Shape
  <1>3. /\ c.avail >= b
        /\ credit' = [credit EXCEPT ![w] = [c EXCEPT !.avail = @ - b]]
        /\ sent' = [sent EXCEPT ![w][c.month] = @ + b]
        /\ UNCHANGED <<now, quota, usage, exh, call, req, nreq, given>>
    BY DEF ChargeLocally, Spend
  <1> HIDE DEF c
  <1>4. [c EXCEPT !.avail = @ - b] \in Credit
    BY <1>2, <1>3, ConstantTypes DEF Credit
  <1>5. credit' \in [Worker -> Credit]
    BY <1>1, <1>3, <1>4 DEF Shape
  <1>6. sent' \in [Worker -> [Month -> Nat]]
    BY <1>1, <1>2, <1>3 DEF Shape
  <1> QED BY <1>1, <1>3, <1>5, <1>6, WorkerMoves DEF Shape

LEMMA TakeGrantGranting ==
  ASSUME Granting, NEW w \in Worker, TakeGrant(w)
  PROVE  Granting'
  <1> DEFINE k == call[w]
             q == req[k.id]
             c == AsOf(credit[w], q.month)
             d == Credited(c, q.got, k.bytes)
  <1>1. Shape
    BY TypeIsShape DEF Granting
  <1>2. /\ k.on /\ q.st = "granted"
        /\ credit' = [credit EXCEPT ![w] = [d EXCEPT !.fresh = TRUE]]
        /\ sent' = [sent EXCEPT ![w][c.month] = @ + k.bytes]
        /\ given' = [given EXCEPT ![w][q.month] = @ + q.got]
        /\ call' = [call EXCEPT ![w] = NoCall]
        /\ UNCHANGED <<now, quota, usage, exh, req, nreq>>
    BY ZenonT(60) DEF TakeGrant, Spend
  <1>3. k \in Charge /\ k.bytes \in Chunk /\ k.id \in Req
    <2>1. k \in Charge /\ nreq \in 0..MaxReq
      BY <1>1 DEF Shape
    <2>2. k.bytes \in Chunk /\ k.id \in 1..nreq
      BY <1>2, ZenonT(60) DEF Granting, ChargesNamed
    <2> HIDE DEF k
    <2> QED BY <2>1, <2>2, ConstantTypes DEF Req
  <1>4. q \in Request /\ Sound(q)
    BY <1>1, <1>3 DEF Granting, RequestsSound, Shape
  <1> HIDE DEF k, q
  <1>5. /\ q.month \in Month /\ q.got \in 0..(Modulus - 1)
        /\ k.bytes \in 0..(Modulus - 1)
    BY <1>2, <1>3, <1>4, ConstantTypes DEF Sound, Request
  <1>6. c \in Credit /\ c.month \in Month
    BY <1>1, <1>5, AsOfType DEF Shape
  <1> HIDE DEF c
  <1>7. d \in Credit
    BY <1>5, WordArithmetic, <1>6 DEF Credit, Credited
  <1> HIDE DEF d
  <1>8. credit' \in [Worker -> Credit]
    BY <1>7, <1>1, <1>2, ZenonT(60) DEF Credit, Shape
  <1>9. /\ sent' \in [Worker -> [Month -> Nat]]
        /\ given' \in [Worker -> [Month -> Nat]]
    BY <1>1, <1>2, <1>5, <1>6 DEF Shape
  <1> QED BY <1>1, <1>2, <1>8, <1>9, WorkerMoves, ZenonT(60) DEF Shape

LEMMA OtherWorkerStepsGranting ==
  ASSUME Granting, NEW w \in Worker,
         Denied(w) \/ Deadline(w) \/ RecheckDue(w) \/ RestartWorker(w)
  PROVE  Granting'
  <1>1. Shape
    BY TypeIsShape DEF Granting
  <1>2. CASE Denied(w)
    <2> DEFINE q == req[call[w].id]
               e == CASE q.st = "exhausted"    -> q.month
                      [] q.st = "unconfigured" -> credit[w].month
                      [] OTHER                 -> exh[w]
    <2>1. /\ call[w].on
          /\ exh' = [exh EXCEPT ![w] = e]
          /\ call' = [call EXCEPT ![w] = NoCall]
          /\ UNCHANGED <<now, quota, usage, credit, req, nreq, sent, given>>
      BY <1>1, <1>2 DEF Denied, Shape
    <2>2. call[w].id \in Req
      BY <1>1, <2>1, ConstantTypes DEF Granting, ChargesNamed, Shape, Req
    <2>3. q.month \in 0..MaxMonth /\ credit[w].month \in 0..MaxMonth /\ exh[w] \in 0..MaxMonth
      BY <1>1, <2>2 DEF Shape, Request, Credit
    <2>4. e \in 0..MaxMonth
      BY <2>3
    <2> HIDE DEF e
    <2>5. exh' \in [Worker -> 0..MaxMonth]
      BY <1>1, <2>1, <2>4 DEF Shape
    <2> QED BY <1>1, <2>1, <2>5, WorkerMoves, ZenonT(60) DEF Shape
  <1>3. CASE Deadline(w)
    BY <1>1, <1>3, WorkerMoves, ZenonT(60) DEF Deadline, Shape
  <1>4. CASE RecheckDue(w)
    BY <1>1, <1>4, ConstantTypes, WorkerMoves DEF RecheckDue, Shape
  <1>5. CASE RestartWorker(w)
    <2>1. [month |-> 0, avail |-> 0, next |-> MinGrant, fresh |-> FALSE] \in Credit
      BY ConstantTypes DEF Credit
    <2>2. exh' \in [Worker -> 0..MaxMonth] /\ credit' \in [Worker -> Credit]
      BY <1>1, <1>5, <2>1, ConstantTypes DEF RestartWorker, Shape
    <2> QED BY <1>1, <1>5, <2>2, WorkerMoves, ZenonT(60) DEF RestartWorker, Shape
  <1> QED BY <1>2, <1>3, <1>4, <1>5

LEMMA TurnMonthGranting ==
  ASSUME Granting, TurnMonth
  PROVE  Granting'
  <1>1. Shape
    BY TypeIsShape DEF Granting
  <1>2. now' \in Month
    BY <1>1, ConstantTypes DEF TurnMonth, Shape, Month
  <1> QED BY <1>1, <1>2, WorkerMoves DEF TurnMonth, Shape

LEMMA AskGrantGranting ==
  ASSUME Granting, NEW w \in Worker, NEW b \in Chunk, NEW quick \in BOOLEAN,
         AskGrant(w, b, quick)
  PROVE  Granting'
  <1> DEFINE c == AsOf(credit[w], now)
             need == b - c.avail
             next == Grown(c, quick)
             want == IF next >= need THEN next ELSE need
             k == [on |-> TRUE, bytes |-> b, need |-> need, id |-> nreq + 1]
             q == [NoReq EXCEPT !.st = "sent", !.want = want, !.need = need]
  <1>1. Shape
    BY TypeIsShape DEF Granting
  <1>2. /\ c.avail < b /\ nreq < MaxReq
        /\ credit' = [credit EXCEPT ![w] = [c EXCEPT !.next = next]]
        /\ nreq' = nreq + 1
        /\ call' = [call EXCEPT ![w] = k]
        /\ req' = [req EXCEPT ![nreq + 1] = q]
        /\ UNCHANGED <<now, quota, usage, exh, sent, given>>
    BY ZenonT(60) DEF AskGrant
  <1>3. c \in Credit /\ b \in Nat /\ MaxGrant + b < Modulus
    BY <1>1, AsOfType, ConstantTypes DEF Shape
  <1>4. next \in MinGrant..MaxGrant
    BY <1>3, GrownType
  <1> HIDE DEF c, next
  <1>5. /\ need \in Nat /\ need <= b /\ need <= want
        /\ want \in Nat /\ want < Modulus
    BY <1>2, <1>3, <1>4, ConstantTypes DEF Credit
  <1>6. nreq + 1 \in Req /\ nreq + 1 \in 0..MaxReq /\ nreq \in Nat
    BY <1>1, <1>2, ConstantTypes DEF Shape, Req
  <1> HIDE DEF need, want
  <1>7. q \in Request /\ Sound(q)
    <2> DEFINE p == [NoReq EXCEPT !.st = "sent"]
               r == [p EXCEPT !.want = want]
    <2>1. p \in Request
      BY ConstantTypes DEF NoReq, Request, Status
    <2>2. r \in Request
      BY <1>5, <2>1, RequestUpdates, ZenonT(60)
    <2>3. q = [r EXCEPT !.need = need]
      OBVIOUS
    <2>4. q \in Request
      BY <1>5, <2>2, <2>3, RequestUpdates, ZenonT(60)
    <2>5. q.st = "sent" /\ q.want = want /\ q.need = need
      BY DEF NoReq
    <2> HIDE DEF q
    <2> QED BY <1>5, <2>4, <2>5 DEF Sound
  <1>8. k \in Charge /\ k.bytes \in Chunk /\ k.id = nreq + 1
    BY <1>3, <1>5, <1>6 DEF Charge
  <1> HIDE DEF k, q
  <1>9. Shape'
    BY <1>3, <1>4, <1>1, <1>2, <1>8, <1>7, <1>6, ZenonT(60) DEF Credit, Shape
  <1>10. TypeOK'
    BY <1>9, TypeIsShape, PTL
  <1>11. RequestsSound'
    BY <1>1, <1>2, <1>7 DEF RequestsSound, Shape, Granting, Sound
  <1>12. ChargesNamed'
    BY <1>1, <1>2, <1>6, <1>8 DEF ChargesNamed, Shape, Granting
  <1>13. GrantsWithinLimit'
    BY <1>2 DEF Granting, GrantsWithinLimit
  <1> QED BY <1>10, <1>11, <1>12, <1>13 DEF Granting

LEMMA NextGranting == Granting /\ [Next]_vars => Granting'
  <1> SUFFICES ASSUME Granting, [Next]_vars PROVE Granting'
    OBVIOUS
  <1>1. CASE UNCHANGED vars
    BY TypeIsShape, <1>1, WorkerMoves DEF Granting, vars, Shape
  <1>2. CASE Next
    BY <1>2, ChargeLocallyGranting, AskGrantGranting, StartGrantGranting, ReadUsageGranting,
       CommitGrantGranting, GrantFailsGranting, TakeGrantGranting, OtherWorkerStepsGranting,
       TurnMonthGranting, ZenonT(60) DEF Next
  <1> QED BY <1>1, <1>2

LEMMA GrantingHolds == Spec => []Granting
  BY InitGranting, NextGranting, PTL DEF Spec

\* charge and egress_grant keep every quantity in its type, for every quota,
\* chunk size and interleaving: the credit of a worker stays a u64 and the size
\* it asks for stays between MINIMUM_GRANT_BYTES and MAXIMUM_GRANT_BYTES.
THEOREM EgressTypeOK == Spec => []TypeOK
  <1>1. Granting => TypeOK
    BY DEF Granting
  <1> QED BY <1>1, GrantingHolds, PTL

\* grant_egress never gives out more of a month than the project's quota,
\* however many workers ask, whatever attempts conflict and whenever the month
\* turns or the control plane's clock lags.
THEOREM GrantsWithinLimitHolds == Spec => []GrantsWithinLimit
  <1>1. Granting => GrantsWithinLimit
    BY DEF Granting
  <1> QED BY <1>1, GrantingHolds, PTL

-----------------------------------------------------------------------------
(* Spending, while the months of worker and control plane agree. *)

Pending == {"sent", "read", "commit"}
Dated == {"read", "commit", "granted"}

\* A charge that waits for request q in month n: its credit has not moved since it asked,
\* and the request is dated with the month of that credit.
Waits(n, k, c, q) ==
  /\ c.avail < k.bytes /\ k.need = k.bytes - c.avail /\ q.need = k.need
  /\ q.st \in Pending => c.month = n
  /\ q.st \in Dated => q.month = c.month

ChargesWait == \A w \in Worker : call[w].on => Waits(now, call[w], credit[w], req[call[w].id])

MonthsPast == \A w \in Worker : credit[w].month <= now

\* The inductive invariant of the spending.
Spending == ChargesWait /\ MonthsPast /\ SpentIsGiven

LEMMA InitSpending == Init => Spending
  BY DEF Init, ChargesWait, NoCall, MonthsPast, SpentIsGiven, Spending

LEMMA RequestMovesSpending ==
  ASSUME Granting, Spending, NEW i \in Req, NEW q, req' = [req EXCEPT ![i] = q],
         q.need = req[i].need,
         q.st \in Pending => req[i].st \in Pending,
         q.st \in Dated => \/ q.month = req[i].month /\ req[i].st \in Dated
                           \/ q.month = now /\ req[i].st = "sent",
         UNCHANGED <<now, credit, call, sent, given>>
  PROVE  Spending'
  <1>1. MonthsPast' /\ SpentIsGiven'
    BY DEF Spending, MonthsPast, SpentIsGiven
  <1>2. ChargesWait'
    <2> SUFFICES ASSUME NEW w \in Worker, call[w].on
                 PROVE  Waits(now, call[w], credit[w], req'[call[w].id])
      BY DEF ChargesWait
    <2>1. Waits(now, call[w], credit[w], req[call[w].id])
      BY DEF Spending, ChargesWait
    <2>2. req \in [Req -> Request] /\ call[w].id \in Req
      BY TypeIsShape, ConstantTypes DEF Granting, Shape, ChargesNamed, Req
    <2>3. req'[call[w].id] = IF call[w].id = i THEN q ELSE req[call[w].id]
      BY <2>2
    <2> QED BY <2>1, <2>3 DEF Waits, Pending
  <1> QED BY <1>1, <1>2 DEF Spending

LEMMA RequestStepsSpending ==
  ASSUME Granting, Spending, ~ControlLag, NEW i \in Req, NEW m \in Month,
         StartGrant(i, m) \/ ReadUsage(i) \/ CommitGrant(i) \/ GrantFails(i)
  PROVE  Spending'
  <1>1. req[i] \in Request
    BY TypeIsShape DEF Granting, Shape
  <1>2. UNCHANGED <<now, credit, call, sent, given>>
    BY ZenonT(60) DEF StartGrant, ReadUsage, CommitGrant, GrantFails
  <1>3. CASE StartGrant(i, m)
    BY <1>3, <1>1, <1>2, RequestMovesSpending, ZenonT(60) DEF StartGrant, Request, Pending
  <1>4. ASSUME NEW st \in {"granted", "exhausted", "unconfigured", "error"}, Answer(i, st),
               st = "granted" => req[i].st = "commit"
        PROVE  Spending'
    BY <1>4, <1>1, <1>2, RequestMovesSpending, ZenonT(60) DEF Answer, Request, Pending, Dated
  <1>5. CASE ReadUsage(i)
    BY <1>5, <1>1, <1>2, RequestMovesSpending, <1>4, ZenonT(60) DEF ReadUsage, Request, Pending,
       Dated
  <1>6. CASE CommitGrant(i)
    BY <1>6, <1>1, <1>2, RequestMovesSpending, <1>4, ZenonT(60) DEF CommitGrant, Request,
       Pending, Dated
  <1>7. CASE GrantFails(i)
    BY <1>4, <1>7 DEF GrantFails
  <1> QED BY <1>3, <1>5, <1>6, <1>7

\* What worker w may still send, and has sent, on month m, under credit c.
Within(c, s, g) == \A m \in Month : s[m] + (IF c.month = m THEN c.avail ELSE 0) <= g[m]

LEMMA WorkerMovesSpending ==
  ASSUME Spending, NEW w \in Worker, now' = now,
         \A v \in Worker \ {w} : /\ credit'[v] = credit[v] /\ call'[v] = call[v]
                                 /\ sent'[v] = sent[v] /\ given'[v] = given[v]
                                 /\ call[v].on => req'[call[v].id] = req[call[v].id],
         call'[w].on => Waits(now, call'[w], credit'[w], req'[call'[w].id]),
         credit'[w].month <= now,
         Within(credit'[w], sent'[w], given'[w])
  PROVE  Spending'
  BY DEF Spending, ChargesWait, MonthsPast, SpentIsGiven, Within

LEMMA ChargeLocallySpending ==
  ASSUME Granting, Spending, NEW w \in Worker, NEW b \in Chunk, ChargeLocally(w, b)
  PROVE  Spending'
  <1> DEFINE c == AsOf(credit[w], now)
  <1>1. Shape
    BY TypeIsShape DEF Granting
  <1>2. /\ c \in Credit /\ c.month \in Month /\ b \in Nat /\ now \in Nat
        /\ credit[w] \in Credit
    BY <1>1, AsOfType, ConstantTypes DEF Shape, Month
  <1>3. c.month = now /\ (c = credit[w] \/ (credit[w].month # now /\ c.avail = 0))
    BY <1>2 DEF AsOf, Spending, MonthsPast, Credit
  <1>4. /\ ~call[w].on /\ c.avail >= b
        /\ credit' = [credit EXCEPT ![w] = [c EXCEPT !.avail = @ - b]]
        /\ sent' = [sent EXCEPT ![w][c.month] = @ + b]
        /\ UNCHANGED <<now, quota, usage, exh, call, req, nreq, given>>
    BY DEF ChargeLocally, Spend
  <1> HIDE DEF c
  <1>5. credit'[w].month = now /\ credit'[w].avail = c.avail - b
    BY <1>1, <1>2, <1>3, <1>4 DEF Shape, Credit
  <1>6. \A m \in Month : sent'[w][m] = sent[w][m] + (IF m = now THEN b ELSE 0)
    BY <1>1, <1>2, <1>3, <1>4 DEF Shape
  <1>7. Within(credit'[w], sent'[w], given'[w])
    BY <1>4, <1>5, <1>1, <1>2, <1>3, <1>6 DEF Within, Spending, SpentIsGiven, Shape, Credit
  <1>8. \A v \in Worker \ {w} : credit'[v] = credit[v] /\ sent'[v] = sent[v]
    BY <1>1, <1>4 DEF Shape
  <1> QED BY <1>2, <1>4, <1>5, <1>7, <1>8, WorkerMovesSpending

LEMMA AskGrantSpending ==
  ASSUME Granting, Spending, NEW w \in Worker, NEW b \in Chunk, NEW quick \in BOOLEAN,
         AskGrant(w, b, quick)
  PROVE  Spending'
  <1> DEFINE c == AsOf(credit[w], now)
             need == b - c.avail
             next == Grown(c, quick)
             want == IF next >= need THEN next ELSE need
             k == [on |-> TRUE, bytes |-> b, need |-> need, id |-> nreq + 1]
             q == [NoReq EXCEPT !.st = "sent", !.want = want, !.need = need]
  <1>1. Shape
    BY TypeIsShape DEF Granting
  <1>2. /\ c \in Credit /\ c.month \in Month /\ b \in Nat /\ now \in Nat
        /\ credit[w] \in Credit
    BY <1>1, AsOfType, ConstantTypes DEF Shape, Month
  <1>3. c.month = now /\ (c = credit[w] \/ (credit[w].month # now /\ c.avail = 0))
    BY <1>2 DEF AsOf, Spending, MonthsPast, Credit
  <1>4. /\ c.avail < b /\ nreq < MaxReq
        /\ credit' = [credit EXCEPT ![w] = [c EXCEPT !.next = next]]
        /\ nreq' = nreq + 1
        /\ call' = [call EXCEPT ![w] = k]
        /\ req' = [req EXCEPT ![nreq + 1] = q]
        /\ UNCHANGED <<now, quota, usage, exh, sent, given>>
    BY ZenonT(60) DEF AskGrant
  <1>5. nreq + 1 \in Req /\ nreq \in Nat
    <2>1. nreq \in 0..MaxReq /\ MaxReq \in Nat
      BY <1>1, ConstantTypes DEF Shape
    <2>2. nreq < MaxReq
      BY <1>4
    <2> QED BY <2>1, <2>2 DEF Req
  <1>6. q.st = "sent" /\ q.need = need
    BY DEF NoReq
  <1>7. k.on /\ k.bytes = b /\ k.need = need /\ k.id = nreq + 1
    OBVIOUS
  <1> HIDE DEF c, next, q, k
  <1>8. credit'[w].month = now /\ credit'[w].avail = c.avail
    BY <1>1, <1>2, <1>3, <1>4 DEF Shape, Credit
  <1>9. call'[w] = k /\ req'[nreq + 1] = q
    BY <1>1, <1>4, <1>5 DEF Shape
  <1>10. Waits(now, call'[w], credit'[w], req'[call'[w].id])
    BY <1>4, <1>6, <1>7, <1>8, <1>9 DEF Waits, Dated
  <1>11. Within(credit'[w], sent'[w], given'[w])
    BY <1>4, <1>8, <1>1, <1>2, <1>3 DEF Within, Spending, SpentIsGiven, Shape, Credit
  <1>12. \A v \in Worker \ {w} : credit'[v] = credit[v] /\ call'[v] = call[v]
    BY <1>1, <1>4 DEF Shape
  <1>13. \A v \in Worker \ {w} : call[v].on => req'[call[v].id] = req[call[v].id]
    BY <1>5, <1>1, <1>4 DEF Granting, ChargesNamed, Shape
  <1> QED BY <1>2, <1>4, <1>8, <1>10, <1>11, <1>12, <1>13, WorkerMovesSpending

\* Without a turn of the month the u64 arithmetic of charge never wraps: the
\* credit after a grant is what was granted beyond the need.
LEMMA CreditedExact ==
  ASSUME NEW c \in Credit, NEW got \in 0..(Modulus - 1), NEW b \in 0..(Modulus - 1),
         c.avail < b, b - c.avail <= got
  PROVE  Credited(c, got, b).month = c.month /\ Credited(c, got, b).avail = c.avail + got - b
  BY ConstantTypes DEF Credit, Plus, Minus, Credited

LEMMA TakeGrantSpending ==
  ASSUME Granting, Spending, NEW w \in Worker, TakeGrant(w)
  PROVE  Spending'
  <1> DEFINE k == call[w]
             q == req[k.id]
             c == credit[w]
             d == Credited(c, q.got, k.bytes)
  <1>1. Shape
    BY TypeIsShape DEF Granting
  <1>2. k.on /\ q.st = "granted"
    BY ZenonT(60) DEF TakeGrant
  <1>3. k \in Charge /\ k.bytes \in Chunk /\ k.id \in Req
    BY <1>1, <1>2, ConstantTypes DEF Shape, Granting, ChargesNamed, Req
  <1>4. q \in Request /\ Sound(q)
    BY <1>1, <1>3 DEF Granting, RequestsSound, Shape
  <1>5. Waits(now, k, c, q)
    BY <1>2 DEF Spending, ChargesWait
  <1>6. /\ c \in Credit /\ now \in Nat /\ c.month <= now
    BY <1>1, ConstantTypes DEF Shape, Month, Spending, MonthsPast
  <1>7. AsOf(c, q.month) = c
    BY <1>2, <1>4, <1>5, <1>6 DEF AsOf, Waits, Dated, Credit
  <1>8. /\ credit' = [credit EXCEPT ![w] = [d EXCEPT !.fresh = TRUE]]
        /\ sent' = [sent EXCEPT ![w][c.month] = @ + k.bytes]
        /\ given' = [given EXCEPT ![w][q.month] = @ + q.got]
        /\ call' = [call EXCEPT ![w] = NoCall]
        /\ UNCHANGED <<now, quota, usage, exh, req, nreq>>
    BY <1>7, ZenonT(60) DEF TakeGrant, Spend
  <1> HIDE DEF k, q, c
  <1>9. /\ q.month \in Month /\ q.month = c.month
        /\ q.got \in 0..(Modulus - 1) /\ k.bytes \in 0..(Modulus - 1)
        /\ c.avail < k.bytes /\ k.bytes - c.avail <= q.got
    BY <1>2, <1>3, <1>4, <1>5, ConstantTypes DEF Sound, Request, Waits, Dated
  <1>10. d.month = c.month /\ d.avail = c.avail + q.got - k.bytes
    BY <1>6, <1>9, CreditedExact
  <1>11. credit'[w].month = c.month /\ credit'[w].avail = c.avail + q.got - k.bytes
    BY <1>1, <1>8, <1>6, <1>10 DEF Shape, Credited, Credit
  <1>12. \A m \in Month :
           /\ sent'[w][m] = sent[w][m] + (IF m = c.month THEN k.bytes ELSE 0)
           /\ given'[w][m] = given[w][m] + (IF m = c.month THEN q.got ELSE 0)
    BY <1>1, <1>8, <1>9 DEF Shape
  <1>13. Within(credit'[w], sent'[w], given'[w])
    BY <1>11, <1>1, <1>6, <1>9, <1>12 DEF Within, Spending, SpentIsGiven, c, Shape, Credit
  <1>14. \A v \in Worker \ {w} : /\ credit'[v] = credit[v] /\ call'[v] = call[v]
                                 /\ sent'[v] = sent[v] /\ given'[v] = given[v]
    BY <1>1, <1>8 DEF Shape
  <1>15. ~call'[w].on
    BY <1>1, <1>8 DEF Shape, NoCall
  <1> QED BY <1>6, <1>8, <1>11, <1>13, <1>14, <1>15, WorkerMovesSpending, ZenonT(60)

LEMMA OtherWorkerStepsSpending ==
  ASSUME Granting, Spending, NEW w \in Worker,
         Denied(w) \/ Deadline(w) \/ RecheckDue(w) \/ RestartWorker(w)
  PROVE  Spending'
  <1>1. Shape
    BY TypeIsShape DEF Granting
  <1>2. UNCHANGED <<now, req, sent, given>>
    BY ZenonT(60) DEF Denied, Deadline, RecheckDue, RestartWorker
  <1>3. Within(credit[w], sent[w], given[w]) /\ credit[w].month <= now
    BY DEF Spending, MonthsPast, SpentIsGiven, Within
  <1>4. CASE call' = [call EXCEPT ![w] = NoCall] /\ credit' = credit
    BY <1>1, <1>4, <1>2, <1>3, WorkerMovesSpending DEF Shape, NoCall
  <1>5. CASE RecheckDue(w)
    BY <1>5 DEF RecheckDue, Spending, ChargesWait, MonthsPast, SpentIsGiven
  <1>6. CASE RestartWorker(w)
    <2>1. ~call'[w].on /\ \A v \in Worker \ {w} : call'[v] = call[v]
      BY <1>1, <1>6 DEF RestartWorker, Shape, NoCall
    <2>2. /\ credit'[w].month = 0 /\ credit'[w].avail = 0
          /\ \A v \in Worker \ {w} : credit'[v] = credit[v]
      BY <1>1, <1>6 DEF RestartWorker, Shape
    <2>3. now \in Nat
      BY <1>1, ConstantTypes DEF Shape, Month
    <2>4. Within(credit'[w], sent'[w], given'[w])
      <3> SUFFICES ASSUME NEW m \in Month
                   PROVE  sent[w][m] + (IF 0 = m THEN 0 ELSE 0) <= given[w][m]
        BY <1>2, <2>2 DEF Within
      <3>1. sent[w][m] + (IF credit[w].month = m THEN credit[w].avail ELSE 0) <= given[w][m]
        BY <1>3 DEF Within
      <3>2. sent[w][m] \in Nat /\ given[w][m] \in Nat /\ credit[w].avail \in Nat
        BY <1>1 DEF Shape, Credit
      <3> QED BY <3>1, <3>2
    <2> QED BY <1>2, <2>1, <2>2, <2>3, <2>4, WorkerMovesSpending
  <1> QED BY <1>4, <1>5, <1>6, ZenonT(60) DEF Denied, Deadline

LEMMA TurnMonthSpending ==
  ASSUME Granting, Spending, ~TurnInFlight, TurnMonth
  PROVE  Spending'
  <1>1. Shape
    BY TypeIsShape DEF Granting
  <1>2. /\ now' = now + 1
        /\ \A i \in Req : req[i].st \notin Pending
        /\ UNCHANGED <<credit, call, req, sent, given>>
    BY DEF TurnMonth, Pending
  <1>3. ChargesWait'
    <2> SUFFICES ASSUME NEW w \in Worker, call[w].on
                 PROVE  Waits(now', call[w], credit[w], req[call[w].id])
      BY <1>2 DEF ChargesWait
    <2>1. Waits(now, call[w], credit[w], req[call[w].id])
      BY DEF Spending, ChargesWait
    <2>2. call[w].id \in Req
      BY <1>1, ConstantTypes DEF Granting, Shape, ChargesNamed, Req
    <2> QED BY <1>2, <2>1, <2>2 DEF Waits
  <1>4. MonthsPast'
    <2> SUFFICES ASSUME NEW w \in Worker PROVE credit[w].month <= now + 1
      BY <1>2 DEF MonthsPast
    <2>1. credit[w].month \in Nat /\ now \in Nat /\ credit[w].month <= now
      BY <1>1, ConstantTypes DEF Shape, Credit, Month, Spending, MonthsPast
    <2> QED BY <2>1
  <1>5. SpentIsGiven'
    BY <1>2 DEF Spending, SpentIsGiven
  <1> QED BY <1>3, <1>4, <1>5 DEF Spending

LEMMA NextSpending ==
  ASSUME ~TurnInFlight, ~ControlLag
  PROVE  Granting /\ Spending /\ [Next]_vars => Spending'
  <1> SUFFICES ASSUME Granting, Spending, [Next]_vars PROVE Spending'
    OBVIOUS
  <1>1. CASE UNCHANGED vars
    BY <1>1 DEF vars, Spending, ChargesWait, MonthsPast, SpentIsGiven
  <1>2. CASE \E i \in Req : ReadUsage(i) \/ CommitGrant(i) \/ GrantFails(i)
    <2>1. now \in Month
      BY TypeIsShape DEF Granting, Shape
    <2> QED BY <1>2, <2>1, RequestStepsSpending
  <1>3. CASE Next
    BY <1>2, <1>3, ChargeLocallySpending, AskGrantSpending, RequestStepsSpending,
       TakeGrantSpending, OtherWorkerStepsSpending, TurnMonthSpending, ZenonT(60) DEF Next
  <1> QED BY <1>1, <1>3

\* charge never lets a worker send, or keep the right to send, more on a
\* month's credit than grant_egress gave it of that month, in any interleaving
\* of charges, conflicting grants, deadlines, refusals, restarts and turns of
\* the month, provided no month turns while a grant is on its way and the two
\* clocks agree on the month.
THEOREM SpentIsGivenHolds ==
  ASSUME ~TurnInFlight, ~ControlLag
  PROVE  Spec => []SpentIsGiven
  <1>1. Granting /\ Spending /\ [Next]_vars => Spending'
    BY NextSpending
  <1>2. Spending => SpentIsGiven
    BY DEF Spending
  <1> QED BY <1>1, <1>2, InitSpending, GrantingHolds, PTL DEF Spec

-----------------------------------------------------------------------------
(* Refusals. *)

\* What a request that was sent needs, and what its refusal says of its month,
\* of whose limit l it had used u[q.month].
Refused(u, l, q) ==
  /\ q.st # "none" => 0 < q.need /\ \E b \in Chunk : q.need <= b
  /\ q.st = "exhausted" => q.month \in Month /\ u[q.month] + q.need > l
  /\ q.st = "unconfigured" => l = 0

\* The inductive invariant of the refusals.
Refusing == (\A i \in Req : Refused(usage, quota, req[i])) /\ ExhaustedIsReal

LEMMA InitRefusing == Init => Refusing
  BY DEF Init, Refusing, Refused, NoReq, ExhaustedIsReal

\* A month's usage only grows, so a refusal stays justified.
LEMMA RefusedStays ==
  ASSUME Granting, NEW q \in Request, Refused(usage, quota, q), quota' = quota, usage' \in [Month -> Nat],
         \A m \in Month : usage[m] <= usage'[m]
  PROVE  Refused(usage', quota', q)
  BY TypeIsShape DEF Granting, Shape, Request, Refused

LEMMA MarkersStay ==
  ASSUME Granting, ExhaustedIsReal, UNCHANGED <<quota, exh>>, usage' \in [Month -> Nat],
         \A m \in Month : usage[m] <= usage'[m]
  PROVE  ExhaustedIsReal'
  <1> SUFFICES ASSUME NEW w \in Worker, exh[w] # 0, quota # 0
               PROVE  \E b \in Chunk : usage'[exh[w]] + b > quota
    BY DEF ExhaustedIsReal
  <1>1. usage \in [Month -> Nat] /\ quota \in Nat /\ exh[w] \in 0..MaxMonth
    BY TypeIsShape DEF Granting, Shape
  <1> exh[w] \in Month
    BY <1>1, ConstantTypes DEF Month
  <1>2. PICK b \in Chunk : usage[exh[w]] + b > quota
    BY DEF ExhaustedIsReal
  <1>3. usage[exh[w]] \in Nat /\ usage'[exh[w]] \in Nat /\ usage[exh[w]] <= usage'[exh[w]] /\ b \in Nat
    BY <1>1, ConstantTypes
  <1> QED BY <1>1, <1>2, <1>3

\* A step that moves one request.
LEMMA RequestMovesRefusing ==
  ASSUME Granting, Refusing, NEW i \in Req, NEW q \in Request, req' = [req EXCEPT ![i] = q],
         Refused(usage', quota', q), UNCHANGED <<quota, exh>>, usage' \in [Month -> Nat],
         \A m \in Month : usage[m] <= usage'[m]
  PROVE  Refusing'
  <1>1. ExhaustedIsReal'
    BY MarkersStay DEF Refusing
  <1>2. ASSUME NEW j \in Req PROVE Refused(usage', quota', req'[j])
    <2>1. req \in [Req -> Request]
      BY TypeIsShape DEF Granting, Shape
    <2>2. req'[j] = IF j = i THEN q ELSE req[j]
      BY <2>1
    <2>3. CASE j = i
      BY <2>2, <2>3 DEF Refused
    <2>4. CASE j # i
      BY <2>1, <2>2, <2>4, RefusedStays DEF Refusing, Refused
    <2> QED BY <2>3, <2>4
  <1> QED BY <1>1, <1>2 DEF Refusing

LEMMA AnswerRefusing ==
  ASSUME Granting, Refusing, NEW i \in Req,
         NEW st \in {"granted", "exhausted", "unconfigured", "error"}, Answer(i, st),
         req[i].st # "none",
         st = "exhausted" => /\ req[i].month \in Month
                             /\ usage[req[i].month] + req[i].need > quota,
         st = "unconfigured" => quota = 0,
         UNCHANGED <<quota, exh>>, usage' \in [Month -> Nat],
         \A m \in Month : usage[m] <= usage'[m]
  PROVE  Refusing'
  <1> DEFINE q == [req[i] EXCEPT !.st = st]
  <1>1. req[i] \in Request /\ st \in Status
    BY TypeIsShape DEF Granting, Shape, Status
  <1>2. q \in Request /\ q.st = st /\ q.month = req[i].month /\ q.need = req[i].need
    BY <1>1 DEF Request
  <1>3. req' = [req EXCEPT ![i] = q]
    BY DEF Answer
  <1>4. Refused(usage, quota, req[i])
    BY DEF Refusing
  <1> HIDE DEF q
  <1>5. Refused(usage, quota, q)
    BY <1>2, <1>4 DEF Refused
  <1> QED BY <1>2, <1>3, <1>5, RefusedStays, RequestMovesRefusing, ZenonT(60) DEF Refused

LEMMA ReadUsageRefusing ==
  ASSUME Granting, Refusing, NEW i \in Req, ReadUsage(i)
  PROVE  Refusing'
  <1> DEFINE m == req[i].month
             rem == Remaining(usage[m])
  <1>1. /\ req[i].st = "read"
        /\ UNCHANGED <<now, quota, usage, credit, exh, call, nreq, sent, given>>
    BY DEF ReadUsage
  <1>2. /\ req[i] \in Request /\ usage \in [Month -> Nat] /\ quota \in Nat
        /\ m \in Month /\ Refused(usage, quota, req[i])
    BY <1>1, TypeIsShape DEF Granting, Shape, RequestsSound, Sound, Refusing
  <1>3. usage' \in [Month -> Nat] /\ \A k \in Month : usage[k] <= usage'[k]
    BY <1>1, <1>2
  <1>4. CASE quota = 0 /\ Answer(i, "unconfigured")
    BY <1>1, <1>3, <1>4, AnswerRefusing
  <1>5. CASE TooLittle(rem, req[i]) /\ Answer(i, "exhausted")
    BY <1>1, <1>2, <1>5, <1>3, AnswerRefusing DEF Refused, Request, TooLittle, Remaining
  <1>6. CASE req' = [req EXCEPT ![i] = [req[i] EXCEPT !.st = "commit", !.seen = usage[m],
                                                      !.got = GrantOf(rem, req[i])]]
    <2> DEFINE q == [req[i] EXCEPT !.st = "commit", !.seen = usage[m],
                                   !.got = GrantOf(rem, req[i])]
    <2>1. q.st = "commit" /\ q.need = req[i].need
      BY <1>2 DEF Request
    <2>2. req' \in [Req -> Request] /\ req \in [Req -> Request]
      <3>1. Granting'
        BY ReadUsageGranting
      <3>2. TypeOK' /\ TypeOK
        BY <3>1 DEF Granting
      <3>3. Shape' /\ Shape
        BY <3>2, TypeIsShape, PTL
      <3> QED BY <3>3 DEF Shape
    <2>3. req'[i] = q
      BY <1>6, <2>2
    <2> HIDE DEF q
    <2>4. q \in Request
      BY <2>2, <2>3
    <2>5. Refused(usage, quota, q)
      BY <1>1, <1>2, <2>1 DEF Refused
    <2>6. Refused(usage', quota', q)
      BY <1>1, <2>5 DEF Refused
    <2> QED BY <1>1, <1>3, <1>6, <2>4, <2>6, RequestMovesRefusing, ZenonT(60) DEF q
  <1> QED BY <1>4, <1>5, <1>6, ZenonT(60) DEF ReadUsage

\* The request of a step that leaves it on its way, with what it needs unchanged.
LEMMA OnItsWayRefusing ==
  ASSUME Granting, Granting', Refusing, NEW i \in Req, req[i].st # "none",
         \A j \in Req \ {i} : req'[j] = req[j],
         req'[i].st \in {"read", "commit"}, req'[i].need = req[i].need,
         UNCHANGED <<quota, usage, exh>>
  PROVE  Refusing'
  BY DEF Refusing, ExhaustedIsReal, Refused

LEMMA OtherRequestStepsRefusing ==
  ASSUME Granting, Refusing, NEW i \in Req,
         (\E m \in Month : StartGrant(i, m)) \/ CommitGrant(i) \/ GrantFails(i)
  PROVE  Refusing'
  <1>1. /\ req \in [Req -> Request] /\ usage \in [Month -> Nat] /\ req[i] \in Request
    BY TypeIsShape DEF Granting, Shape
  <1>2. ASSUME NEW m \in Month, StartGrant(i, m) PROVE Refusing'
    BY <1>2, StartGrantGranting, <1>1, OnItsWayRefusing, ZenonT(60) DEF StartGrant, Request
  <1>3. CASE CommitGrant(i)
    <2> DEFINE m == req[i].month
    <2>1. req[i].st = "commit" /\ UNCHANGED <<quota, exh>>
      BY <1>3 DEF CommitGrant
    <2>2. m \in Month /\ req[i].got \in Nat
      BY <1>1, <2>1 DEF Granting, RequestsSound, Sound, Request
    <2>3. CASE usage' = [usage EXCEPT ![m] = @ + req[i].got] /\ Answer(i, "granted")
      BY <1>1, <2>2, <2>3, <2>1, AnswerRefusing
    <2>4. CASE usage' = usage /\ Answer(i, "error")
      BY <1>1, <2>4, <2>1, AnswerRefusing
    <2>5. CASE /\ usage' = usage
               /\ req' = [req EXCEPT ![i] = [req[i] EXCEPT !.st = "read", !.try = @ + 1]]
      BY <1>1, <2>5, <1>3, CommitGrantGranting, <2>1, OnItsWayRefusing DEF Request
    <2> QED BY <1>3, <2>3, <2>4, <2>5, ZenonT(60) DEF CommitGrant
  <1>4. CASE GrantFails(i)
    BY <1>4, <1>1, AnswerRefusing DEF GrantFails
  <1> QED BY <1>2, <1>3, <1>4

LEMMA AskGrantRefusing ==
  ASSUME Granting, Refusing, NEW w \in Worker, NEW b \in Chunk, NEW quick \in BOOLEAN,
         AskGrant(w, b, quick)
  PROVE  Refusing'
  BY TypeIsShape, AsOfType, ConstantTypes DEF Granting, AskGrant, Shape, Credit, NoReq, Refused,
     Refusing, ExhaustedIsReal

LEMMA DeniedRefusing ==
  ASSUME Granting, Refusing, NEW w \in Worker, Denied(w)
  PROVE  Refusing'
  <1> DEFINE q == req[call[w].id]
  <1>1. Shape
    BY TypeIsShape DEF Granting
  <1>2. /\ call[w].on /\ q.st \in {"exhausted", "unconfigured", "error"}
        /\ UNCHANGED <<quota, usage, req>>
    BY DEF Denied
  <1>3. call[w].id \in Req
    BY <1>1, <1>2, ConstantTypes DEF Granting, ChargesNamed, Shape, Req
  <1>4. q \in Request /\ Refused(usage, quota, q)
    BY <1>1, <1>3 DEF Shape, Refusing
  <1>5. \A v \in Worker \ {w} : exh'[v] = exh[v]
    BY <1>1 DEF Denied, Shape
  <1>6. \/ q.st = "exhausted" /\ exh'[w] = q.month
        \/ q.st = "unconfigured"
        \/ exh'[w] = exh[w]
    BY <1>1, <1>2 DEF Denied, Shape
  <1> HIDE DEF q
  <1>7. ASSUME NEW v \in Worker, exh'[v] # 0, quota # 0
        PROVE  \E b \in Chunk : usage[exh'[v]] + b > quota
    <2>1. CASE exh'[v] = exh[v]
      BY <1>7, <2>1 DEF Refusing, ExhaustedIsReal
    <2>2. CASE v = w /\ q.st = "exhausted" /\ exh'[w] = q.month
      BY <1>4, <2>2, <1>1, ConstantTypes DEF Refused, Shape, Request
    <2>3. CASE q.st = "unconfigured"
      BY <1>4, <1>7, <2>3 DEF Refused
    <2> QED BY <1>5, <1>6, <2>1, <2>2, <2>3
  <1>8. ExhaustedIsReal'
    BY <1>2, <1>7 DEF ExhaustedIsReal
  <1> QED BY <1>2, <1>8 DEF Refusing

\* The other steps move no request; they keep or forget the markers.
LEMMA OtherStepsRefusing ==
  ASSUME Granting, Refusing, UNCHANGED <<quota, usage, req>>,
         exh' = exh \/ \E w \in Worker : exh' = [exh EXCEPT ![w] = 0]
  PROVE  Refusing'
  <1>1. exh \in [Worker -> 0..MaxMonth]
    BY TypeIsShape DEF Granting, Shape
  <1>2. \A w \in Worker : exh'[w] = exh[w] \/ exh'[w] = 0
    BY <1>1
  <1>3. ExhaustedIsReal'
    BY <1>2 DEF Refusing, ExhaustedIsReal
  <1> QED BY <1>3 DEF Refusing

LEMMA NextRefusing == Granting /\ Refusing /\ [Next]_vars => Refusing'
  BY OtherStepsRefusing, AskGrantRefusing, OtherRequestStepsRefusing, ReadUsageRefusing,
     DeniedRefusing, ZenonT(60) DEF vars, ChargeLocally, TakeGrant, Deadline, RecheckDue,
     RestartWorker, TurnMonth, Next

\* known_exhausted turns work away up front only for a month of which less is
\* left than some chunk needs, or for a project without a quota, whatever the
\* other workers were granted since and also while a month turns or the clocks
\* of worker and control plane disagree.
THEOREM ExhaustedIsRealHolds == Spec => []ExhaustedIsReal
  <1>1. Refusing => ExhaustedIsReal
    BY DEF Refusing
  <1> QED BY <1>1, InitRefusing, NextRefusing, GrantingHolds, PTL DEF Spec
=============================================================================
