------------------------ MODULE SingletonLeaseProofs ------------------------
(***************************************************************************)
(* One owner per WebSocket singleton, for every lease of at least twice    *)
(* the safety deadline, every number of claims and any delay of a handler: *)
(* a deadline a worker holds is past or backed by the reservation on       *)
(* record.                                                                 *)
(***************************************************************************)
EXTENDS SingletonLease, TLAPS

(* A leaf that names no prover goes to the SMT solver, which is called again *)
(* when its time ran out, and in the end to Zenon.                           *)
USE SMTT(120), Z3T(120), SMTT(90), Z3T(90), ZenonT(60)

RuntimeSt == {"absent", "preparing", "active", "terminating"}
Phase == {"idle", "acquire", "initialize", "connect", "connected", "finalize", "activate", "mark",
          "abort_error", "abort_replaced", "abort_activation", "release_finalized",
          "retain_finalized", "release", "done"}
ConnSt == {"none", "open", "closing", "gone"}
Loop == {"none", "waiting", "woken", "running", "asking", "done"}
StatSt == {"none", "sent", "beat", "ok", "no", "err", "gone", "left"}
CacheSt == {"none", "asked", "stamped", "connected"}

RuntimeT == [token : Nat, ver : Nat, conn : Nat, lease : Nat, state : RuntimeSt]
AttT     == [ph : Phase, ver : Nat, ct : Nat, fin : Nat]
ConnT    == [st : ConnSt, valid : Nat, loop : Loop, next : Nat, asked : Nat]
StatT    == [st : StatSt, ver : Nat, ct : Nat]
ReadT    == [on : BOOLEAN, doc : RuntimeT, ct : Nat]
CacheT   == [st : CacheSt, token : Nat, asked : Nat, ct : Nat, valid : Nat]

TypeOK ==
  /\ now \in Nat /\ minted \in Nat /\ events \in Nat
  /\ man \in [ver : Nat, active : BOOLEAN] /\ queued \subseteq Nat
  /\ runtime \in RuntimeT /\ att \in [Claim -> AttT]
  /\ conn \in [Claim -> ConnT] /\ stat \in [Claim -> StatT]
  /\ retire \in ReadT /\ cache \in CacheT

\* Time t is past, or claim k holds the reservation rt until t at least.
Backed(k, t, rt, n) == t <= n \/ (rt.token = k /\ t <= rt.lease)

\* What one claim's attempt a, connection c and status report s may rely on.
Sound(k, a, c, s, rt, n) ==
  /\ a.ct <= n /\ a.fin <= n /\ c.asked <= n /\ s.ct <= n
  /\ a.ph \notin {"idle", "acquire", "done"} => Backed(k, a.ct + Lease, rt, n)
  /\ a.ph \in {"connected", "finalize", "activate"} => c.loop \in {"none", "waiting"}
  /\ a.ph = "connected" => c.valid <= n + Safety
  /\ a.ph = "finalize" => c.valid <= a.fin + Safety
  /\ a.ph = "activate" \/ c.loop = "woken" => Backed(k, c.valid + Safety, rt, n)
  /\ Backed(k, c.valid, rt, n)
  /\ c.loop = "asking" /\ s.st = "beat" => c.asked <= s.ct
  /\ c.loop = "asking" /\ s.st = "ok" => Backed(k, c.asked + Lease, rt, n)

CacheSound(e, rt, n) ==
  /\ e.asked <= n /\ e.ct <= n /\ (e.st = "stamped" => e.asked <= e.ct)
  /\ e.st = "connected" =>
       e.valid <= n \/ (rt.token = e.token /\ e.valid + Safety <= rt.lease)

Inv ==
  /\ TypeOK /\ retire.ct <= now
  /\ \A k \in Claim : Sound(k, att[k], conn[k], stat[k], runtime, now)
  /\ CacheSound(cache, runtime, now)

\* What a step may do to the reservation: replace it once it has expired,
\* or keep its claim and not shorten it.
Respects(rt, n, rt2, n2) ==
  /\ n <= n2
  /\ rt.lease <= n \/ (rt2.token = rt.token /\ rt.lease <= rt2.lease)

LEMMA ConstantTypes ==
  /\ Lease \in Nat /\ Safety \in Nat /\ Interval \in Nat /\ TaskLimit \in Nat
  /\ MaxNow \in Nat /\ MaxClaim \in Nat /\ MaxEvent \in Nat
  /\ 2 * Safety <= Lease /\ Claim \subseteq Nat \ {0}
  BY LeaseAssumption DEF Claim

LEMMA RuntimeTyped ==
  ASSUME NEW r \in RuntimeT, NEW x \in Nat, NEW y \in Nat, NEW t \in RuntimeSt
  PROVE  /\ [r EXCEPT !.lease = x] \in RuntimeT
         /\ [r EXCEPT !.state = t] \in RuntimeT
         /\ [r EXCEPT !.conn = x, !.state = t] \in RuntimeT
         /\ [r EXCEPT !.conn = x, !.state = t, !.lease = y] \in RuntimeT
  BY ZenonT(60) DEF RuntimeT

LEMMA NewRuntimeTyped ==
  /\ NoRuntime \in RuntimeT
  /\ \A k \in Nat, v \in Nat, l \in Nat :
       [token |-> k, ver |-> v, conn |-> 0, lease |-> l, state |-> "preparing"] \in RuntimeT
  BY DEF RuntimeT, RuntimeSt, NoRuntime

LEMMA BackedStays ==
  ASSUME NEW k \in Nat, NEW t \in Nat, NEW rt \in RuntimeT, NEW rt2 \in RuntimeT,
         NEW n \in Nat, NEW n2 \in Nat, Respects(rt, n, rt2, n2), Backed(k, t, rt, n)
  PROVE  Backed(k, t, rt2, n2)
  BY DEF Respects, Backed, RuntimeT

LEMMA BackedLess ==
  ASSUME NEW k \in Nat, NEW t \in Nat, NEW u \in Nat, NEW rt \in RuntimeT,
         NEW n \in Nat, Backed(k, t, rt, n), u <= t
  PROVE  Backed(k, u, rt, n)
  BY DEF Backed, RuntimeT

\* A step that respects the reservation disturbs no claim it does not touch.
LEMMA SoundStays ==
  ASSUME NEW k \in Nat, NEW a \in AttT, NEW c \in ConnT, NEW s \in StatT,
         NEW rt \in RuntimeT, NEW rt2 \in RuntimeT, NEW n \in Nat, NEW n2 \in Nat,
         Respects(rt, n, rt2, n2), Sound(k, a, c, s, rt, n)
  PROVE  Sound(k, a, c, s, rt2, n2)
  <1>1. /\ a.ct + Lease \in Nat /\ c.valid + Safety \in Nat /\ c.valid \in Nat
        /\ c.asked + Lease \in Nat /\ n <= n2
    BY ConstantTypes DEF AttT, ConnT, Respects
  <1>2. \A t \in Nat : Backed(k, t, rt, n) => Backed(k, t, rt2, n2)
    BY BackedStays
  <1>3. /\ a.ct <= n2 /\ a.fin <= n2 /\ c.asked <= n2 /\ s.ct <= n2
        /\ a.ph = "connected" => c.valid <= n2 + Safety
    BY <1>1, ConstantTypes DEF AttT, ConnT, StatT, Sound
  <1> QED BY <1>1, <1>2, <1>3, ZenonT(60) DEF Sound

LEMMA CacheStays ==
  ASSUME NEW e \in CacheT, NEW rt \in RuntimeT, NEW rt2 \in RuntimeT,
         NEW n \in Nat, NEW n2 \in Nat, Respects(rt, n, rt2, n2), CacheSound(e, rt, n)
  PROVE  CacheSound(e, rt2, n2)
  BY ConstantTypes DEF Respects, CacheSound, CacheT, RuntimeT
-----------------------------------------------------------------------------
\* A step on claim k: what it must establish for the invariant to stay.
LEMMA ClaimStep ==
  ASSUME Inv, NEW k \in Claim, now' = now, UNCHANGED <<man, retire, cache>>,
         minted' \in Nat, events' \in Nat, queued' \subseteq Nat, runtime' \in RuntimeT,
         att' \in [Claim -> AttT], conn' \in [Claim -> ConnT], stat' \in [Claim -> StatT],
         \A j \in Claim \ {k} : att'[j] = att[j] /\ conn'[j] = conn[j] /\ stat'[j] = stat[j],
         Respects(runtime, now, runtime', now),
         Sound(k, att'[k], conn'[k], stat'[k], runtime', now)
  PROVE  Inv'
  <1>1. TypeOK'
    BY ZenonT(60) DEF Inv, TypeOK
  <1>2. retire'.ct <= now'
    BY DEF Inv
  <1>3. ASSUME NEW j \in Claim
        PROVE  Sound(j, att'[j], conn'[j], stat'[j], runtime', now')
    <2>1. CASE j = k
      BY <2>1
    <2>2. CASE j # k
      <3>1. /\ att[j] \in AttT /\ conn[j] \in ConnT /\ stat[j] \in StatT /\ j \in Nat
            /\ runtime \in RuntimeT /\ now \in Nat
            /\ Sound(j, att[j], conn[j], stat[j], runtime, now)
        BY ConstantTypes DEF Inv, TypeOK
      <3>2. Sound(j, att[j], conn[j], stat[j], runtime', now)
        BY <3>1, SoundStays
      <3> QED BY <2>2, <3>2
    <2> QED BY <2>1, <2>2
  <1>4. CacheSound(cache', runtime', now')
    BY CacheStays DEF Inv, TypeOK
  <1> QED BY <1>1, <1>2, <1>3, <1>4 DEF Inv

LEMMA RespectsSame ==
  ASSUME NEW rt \in RuntimeT, NEW n \in Nat
  PROVE  Respects(rt, n, rt, n)
  BY DEF Respects, RuntimeT

LEMMA WellTyped ==
  ASSUME TypeOK, NEW b \in BOOLEAN, Well(b)
  PROVE  events' \in Nat
  BY DEF TypeOK, Well, Event

LEMMA ToStep ==
  ASSUME TypeOK, NEW k \in Claim, NEW ph \in Phase, To(k, ph)
  PROVE  /\ att' \in [Claim -> AttT] /\ \A j \in Claim \ {k} : att'[j] = att[j]
         /\ att'[k].ph = ph
         /\ ph = "done" => att'[k].ct = 0 /\ att'[k].fin = 0
         /\ ph # "done" => att'[k].ct = att[k].ct /\ att'[k].fin = att[k].fin
  BY DEF TypeOK, AttT, NoAttempt, Phase, To

\* A phase change alone, into a phase that relies on no more than the claim.
LEMMA PhaseOnly ==
  ASSUME Inv, NEW k \in Claim, NEW ph \in Phase, To(k, ph),
         now' = now, UNCHANGED <<man, minted, conn, stat, retire, cache, queued>>,
         events' \in Nat, runtime' \in RuntimeT, Respects(runtime, now, runtime', now),
         ph \notin {"connected", "finalize", "activate"},
         ph = "done" \/ Backed(k, att[k].ct + Lease, runtime', now)
  PROVE  Inv'
  <1>1. /\ att' \in [Claim -> AttT] /\ \A j \in Claim \ {k} : att'[j] = att[j]
        /\ att'[k].ph = ph
        /\ ph = "done" => att'[k].ct = 0 /\ att'[k].fin = 0
        /\ ph # "done" => att'[k].ct = att[k].ct /\ att'[k].fin = att[k].fin
    BY ToStep DEF Inv
  <1>2. /\ att[k] \in AttT /\ conn[k] \in ConnT /\ stat[k] \in StatT /\ k \in Nat
        /\ runtime \in RuntimeT /\ now \in Nat /\ queued \subseteq Nat
        /\ conn \in [Claim -> ConnT] /\ stat \in [Claim -> StatT] /\ att'[k] \in AttT
        /\ Sound(k, att[k], conn[k], stat[k], runtime, now)
    BY <1>1, ConstantTypes DEF Inv, TypeOK
  <1>3. Sound(k, att[k], conn[k], stat[k], runtime', now)
    BY <1>2, SoundStays
  <1>4. att'[k].ct <= now /\ att'[k].fin <= now
    BY <1>1, <1>2, <1>3 DEF Sound, AttT
  <1>5. Sound(k, att'[k], conn[k], stat[k], runtime', now)
    BY <1>1, <1>3, <1>4, ZenonT(60) DEF Sound
  <1>6. Sound(k, att'[k], conn'[k], stat'[k], runtime', now)
    BY <1>5
  <1>7. minted' \in Nat /\ queued' \subseteq Nat
    BY DEF Inv, TypeOK
  <1> QED BY <1>1, <1>2, <1>6, <1>7, ClaimStep, ZenonT(60)

\* What the invariant says of one claim, unfolded.
LEMMA AtClaim ==
  ASSUME Inv, NEW k \in Claim
  PROVE  /\ att[k] \in AttT /\ conn[k] \in ConnT /\ stat[k] \in StatT /\ k \in Nat \ {0}
         /\ att \in [Claim -> AttT] /\ conn \in [Claim -> ConnT] /\ stat \in [Claim -> StatT]
         /\ runtime \in RuntimeT /\ now \in Nat /\ minted \in Nat /\ events \in Nat
         /\ queued \subseteq Nat /\ TypeOK
         /\ Sound(k, att[k], conn[k], stat[k], runtime, now)
         /\ Respects(runtime, now, runtime, now)
  BY ConstantTypes, RespectsSame DEF Inv, TypeOK

LEMMA TickInv ==
  ASSUME Inv, Tick
  PROVE  Inv'
  BY AtClaim, SoundStays, CacheStays DEF Inv, TypeOK, Tick, Respects, RuntimeT, ReadT

LEMMA StartReconcileInv ==
  ASSUME Inv, NEW v \in queued, StartReconcile(v)
  PROVE  Inv'
  <1> DEFINE k == minted + 1
             a == [ph |-> "acquire", ver |-> v, ct |-> now, fin |-> 0]
  <1>1. k \in Claim
    BY ConstantTypes DEF Inv, TypeOK, StartReconcile, Claim
  <1>2. /\ att' = [att EXCEPT ![k] = a] /\ minted' = k
        /\ UNCHANGED <<now, man, runtime, queued, conn, stat, retire, cache, events>>
    BY DEF StartReconcile
  <1>3. v \in Nat /\ minted' \in Nat
    BY <1>1, <1>2, AtClaim
  <1>4. a \in AttT
    BY <1>1, <1>3, AtClaim DEF AttT, Phase
  <1>5. Sound(k, a, conn[k], stat[k], runtime, now)
    BY <1>1, AtClaim DEF Sound
  <1>6. att' \in [Claim -> AttT] /\ att'[k] = a /\ \A j \in Claim \ {k} : att'[j] = att[j]
    BY <1>1, <1>2, <1>4, AtClaim
  <1> HIDE DEF a, k
  <1>7. Sound(k, att'[k], conn'[k], stat'[k], runtime', now)
    BY <1>2, <1>5, <1>6
  <1> QED BY <1>1, <1>2, <1>3, <1>6, <1>7, AtClaim, ClaimStep, ZenonT(60)

LEMMA AcquireClaimInv ==
  ASSUME Inv, NEW k \in Claim, AcquireClaim(k)
  PROVE  Inv'
  <1>1. UNCHANGED <<now, man, queued, minted, conn, stat, retire, cache, events>>
    BY DEF AcquireClaim
  <1>2. CASE runtime.lease > att[k].ct
    BY <1>2, <1>1, AtClaim, PhaseOnly DEF AcquireClaim, Phase
  <1>3. CASE ~(runtime.lease > att[k].ct)
    <2> DEFINE l == Later(runtime.lease, att[k].ct + Lease)
    <2>1. /\ To(k, "initialize")
          /\ runtime' = [token |-> k, ver |-> att[k].ver, conn |-> 0, lease |-> l,
                         state |-> "preparing"]
      BY <1>3 DEF AcquireClaim
    <2>2. l \in Nat /\ att[k].ct + Lease <= l /\ att[k].ver \in Nat
      BY AtClaim, ConstantTypes DEF RuntimeT, AttT, Later
    <2> HIDE DEF l
    <2>3. runtime' \in RuntimeT /\ runtime'.token = k /\ runtime'.lease = l
      BY <2>1, <2>2, AtClaim, NewRuntimeTyped
    <2>4. Respects(runtime, now, runtime', now)
      BY <1>3, AtClaim DEF Respects, Sound, RuntimeT, AttT
    <2>5. Backed(k, att[k].ct + Lease, runtime', now)
      BY <2>2, <2>3 DEF Backed
    <2> QED BY <1>1, <2>1, <2>3, <2>4, <2>5, AtClaim, PhaseOnly DEF Phase
  <1> QED BY <1>2, <1>3

LEMMA InitializeInv ==
  ASSUME Inv, NEW k \in Claim, NEW b \in BOOLEAN, Initialize(k, b)
  PROVE  Inv'
  <1>1. /\ To(k, IF b THEN "connect" ELSE "release") /\ Well(b) /\ att[k].ph = "initialize"
        /\ UNCHANGED <<now, man, runtime, queued, minted, conn, stat, retire, cache>>
    BY DEF Initialize
  <1>2. Backed(k, att[k].ct + Lease, runtime', now) /\ runtime' \in RuntimeT /\ events' \in Nat
    BY <1>1, AtClaim, WellTyped DEF Sound
  <1>3. Respects(runtime, now, runtime', now)
    BY <1>1, AtClaim
  <1> QED BY <1>1, <1>2, <1>3, PhaseOnly DEF Phase
LEMMA InitialValidBacked ==
  ASSUME NEW k \in Nat, NEW c \in Nat, NEW rt \in RuntimeT, now \in Nat,
         Backed(k, c + Lease, rt, now)
  PROVE  /\ InitialValid(c) \in Nat /\ InitialValid(c) <= now + Safety
         /\ Backed(k, InitialValid(c), rt, now)
  BY ConstantTypes DEF InitialValid, Sooner, Later, Backed, RuntimeT

LEMMA ConnectInv ==
  ASSUME Inv, NEW k \in Claim, NEW b \in BOOLEAN, Connect(k, b)
  PROVE  Inv'
  <1> DEFINE c == [NoConn EXCEPT !.st = "open", !.loop = "waiting", !.valid = InitialValid(att[k].ct)]
             ph == IF b THEN "connected" ELSE "done"
  <1>1. /\ conn' = [conn EXCEPT ![k] = c] /\ To(k, ph) /\ Well(b) /\ att[k].ph = "connect"
        /\ UNCHANGED <<now, man, runtime, queued, minted, stat, retire, cache>>
    BY DEF Connect
  <1>2. att[k].ct \in Nat /\ Backed(k, att[k].ct + Lease, runtime, now)
    BY <1>1, AtClaim DEF Sound, AttT
  <1>3. /\ InitialValid(att[k].ct) \in Nat /\ InitialValid(att[k].ct) <= now + Safety
        /\ Backed(k, InitialValid(att[k].ct), runtime, now)
    BY <1>2, AtClaim, InitialValidBacked
  <1>4. /\ c \in ConnT /\ c.loop = "waiting" /\ c.asked = 0
        /\ c.valid = InitialValid(att[k].ct)
    BY <1>3, ZenonT(60) DEF NoConn, ConnT, ConnSt, Loop
  <1>5. ph \in Phase /\ (b => ph = "connected") /\ (~b => ph = "done")
    BY DEF Phase
  <1> HIDE DEF c, ph
  <1>6. /\ att' \in [Claim -> AttT] /\ \A j \in Claim \ {k} : att'[j] = att[j]
        /\ att'[k].ph = ph /\ events' \in Nat
        /\ ph = "done" => att'[k].ct = 0 /\ att'[k].fin = 0
        /\ ph # "done" => att'[k].ct = att[k].ct /\ att'[k].fin = att[k].fin
    BY <1>1, <1>5, AtClaim, ToStep, WellTyped
  <1>7. conn' \in [Claim -> ConnT] /\ conn'[k] = c /\ \A j \in Claim \ {k} : conn'[j] = conn[j]
    BY <1>1, <1>4, AtClaim
  <1>8. Sound(k, att'[k], c, stat[k], runtime, now)
    BY <1>4, <1>5, <1>6, AtClaim, <1>2, <1>3 DEF Sound, AttT, StatT
  <1>9. Sound(k, att'[k], conn'[k], stat'[k], runtime', now)
    BY <1>1, <1>7, <1>8
  <1>10. /\ stat' \in [Claim -> StatT] /\ \A j \in Claim \ {k} : stat'[j] = stat[j]
         /\ runtime' \in RuntimeT /\ Respects(runtime, now, runtime', now)
         /\ minted' \in Nat /\ queued' \subseteq Nat
    BY <1>1, AtClaim
  <1> QED BY <1>1, <1>6, <1>7, <1>9, <1>10, ClaimStep, ZenonT(60)

LEMMA StampFinalizeInv ==
  ASSUME Inv, NEW k \in Claim, StampFinalize(k)
  PROVE  Inv'
  <1> DEFINE a == [att[k] EXCEPT !.ph = "finalize", !.fin = now]
  <1>1. /\ att' = [att EXCEPT ![k] = a] /\ att[k].ph = "connected"
        /\ UNCHANGED <<now, man, runtime, queued, minted, conn, stat, retire, cache, events>>
    BY DEF StampFinalize
  <1>2. a \in AttT /\ a.ph = "finalize" /\ a.fin = now /\ a.ct = att[k].ct
    <2>1. a = [[att[k] EXCEPT !.ph = "finalize"] EXCEPT !.fin = now]
      OBVIOUS
    <2>2. [att[k] EXCEPT !.ph = "finalize"] \in AttT
      BY AtClaim DEF AttT, Phase
    <2>3. \A x \in AttT : [x EXCEPT !.fin = now] \in AttT
      BY AtClaim DEF AttT
    <2>4. a.ph = "finalize" /\ a.fin = now /\ a.ct = att[k].ct
      BY AtClaim DEF AttT
    <2> QED BY <2>1, <2>2, <2>3, <2>4, ZenonT(60)
  <1> HIDE DEF a
  <1>3. att' \in [Claim -> AttT] /\ att'[k] = a /\ \A j \in Claim \ {k} : att'[j] = att[j]
    BY <1>1, <1>2, AtClaim
  <1>4. Sound(k, a, conn[k], stat[k], runtime, now)
    BY <1>1, <1>2, AtClaim DEF Sound
  <1>5. Sound(k, att'[k], conn'[k], stat'[k], runtime', now)
    BY <1>1, <1>3, <1>4
  <1>6. /\ stat' \in [Claim -> StatT] /\ \A j \in Claim \ {k} : stat'[j] = stat[j]
        /\ conn' \in [Claim -> ConnT] /\ \A j \in Claim \ {k} : conn'[j] = conn[j]
        /\ runtime' \in RuntimeT /\ Respects(runtime, now, runtime', now)
        /\ minted' \in Nat /\ queued' \subseteq Nat /\ events' \in Nat
    BY <1>1, AtClaim
  <1> QED BY <1>1, <1>3, <1>5, <1>6, ClaimStep, ZenonT(60)

LEMMA FinalizeClaimInv ==
  ASSUME Inv, NEW k \in Claim, NEW b \in BOOLEAN, FinalizeClaim(k, b)
  PROVE  Inv'
  <1> DEFINE ph == IF ~b THEN "abort_error" ELSE IF Finalizable(k) THEN "activate" ELSE "abort_replaced"
             l == Later(runtime.lease, att[k].fin + Lease)
  <1>1. /\ att[k].ph = "finalize" /\ To(k, ph) /\ Well(b)
        /\ runtime' = IF Finalizable(k) THEN Finalized(k) ELSE runtime
        /\ UNCHANGED <<now, man, queued, minted, conn, stat, retire, cache>>
    BY DEF FinalizeClaim
  <1>2. l \in Nat /\ runtime.lease <= l /\ att[k].fin + Lease <= l /\ att[k].ct \in Nat /\ att[k].fin \in Nat
    BY AtClaim, ConstantTypes DEF RuntimeT, AttT, Later
  <1>3. ph \in Phase /\ ph # "done"
    BY DEF Phase
  <1>4. Finalized(k) = [runtime EXCEPT !.conn = k, !.state = "preparing", !.lease = l]
    BY ZenonT(60) DEF Finalized
  <1> HIDE DEF l
  <1>5. Finalized(k) \in RuntimeT /\ Finalized(k).lease = l /\ Finalized(k).token = runtime.token
    <2>1. [runtime EXCEPT !.conn = k, !.state = "preparing", !.lease = l] \in RuntimeT
      BY <1>2, AtClaim, RuntimeTyped, ZenonT(60) DEF RuntimeSt
    <2> QED BY <1>4, <2>1, AtClaim DEF RuntimeT
  <1>6. runtime' \in RuntimeT /\ Respects(runtime, now, runtime', now)
    BY <1>1, <1>2, <1>5, AtClaim DEF Respects, RuntimeT
  <1>7. Backed(k, att[k].ct + Lease, runtime', now)
    <2>1. Backed(k, att[k].ct + Lease, runtime, now) /\ att[k].ct + Lease \in Nat
      BY <1>1, <1>2, AtClaim, ConstantTypes DEF Sound
    <2> QED BY <1>6, <2>1, AtClaim, BackedStays
  <1>8. CASE ph # "activate"
    BY <1>8, <1>1, <1>3, <1>6, <1>7, AtClaim, PhaseOnly, WellTyped DEF ph
  <1>9. CASE ph = "activate"
    <2>1. Finalizable(k)
      BY <1>9
    <2>2. runtime'.lease = l /\ runtime'.token = k
      BY <1>1, <1>5, <2>1 DEF Finalizable
    <2> HIDE DEF ph
    <2>3. /\ att' \in [Claim -> AttT] /\ \A j \in Claim \ {k} : att'[j] = att[j]
          /\ att'[k].ph = "activate" /\ events' \in Nat
          /\ att'[k].ct = att[k].ct /\ att'[k].fin = att[k].fin
      BY <1>1, <1>3, <1>9, AtClaim, ToStep, WellTyped
    <2>4. Sound(k, att[k], conn[k], stat[k], runtime', now)
      BY <1>6, AtClaim, SoundStays
    <2>5. Backed(k, conn[k].valid + Safety, runtime', now)
      BY <1>1, AtClaim, <1>2, <2>2, ConstantTypes DEF Sound, ConnT, Backed
    <2>6. Sound(k, att'[k], conn[k], stat[k], runtime', now)
      BY <1>1, <1>7, <2>3, <2>4, <2>5, ZenonT(60) DEF Sound
    <2>7. Sound(k, att'[k], conn'[k], stat'[k], runtime', now)
      BY <1>1, <2>6
    <2>8. /\ stat' \in [Claim -> StatT] /\ \A j \in Claim \ {k} : stat'[j] = stat[j]
          /\ conn' \in [Claim -> ConnT] /\ \A j \in Claim \ {k} : conn'[j] = conn[j]
          /\ minted' \in Nat /\ queued' \subseteq Nat
      BY <1>1, AtClaim
    <2> QED BY <1>1, <1>6, <2>3, <2>7, <2>8, ClaimStep, ZenonT(60)
  <1> QED BY <1>8, <1>9
\* A step that changes claim k's attempt in phase only, its connection, its
\* report and perhaps the reservation.
LEMMA ClaimUpdate ==
  ASSUME Inv, NEW k \in Claim, NEW c \in ConnT, NEW s \in StatT,
         now' = now, UNCHANGED <<man, retire, cache, att, minted>>,
         events' \in Nat, queued' \subseteq Nat, runtime' \in RuntimeT,
         conn' = [conn EXCEPT ![k] = c], stat' = [stat EXCEPT ![k] = s],
         Respects(runtime, now, runtime', now),
         Sound(k, att[k], c, s, runtime', now)
  PROVE  Inv'
  BY AtClaim, ClaimStep

LEMMA ConnOnly ==
  ASSUME Inv, NEW k \in Claim, NEW c \in ConnT,
         now' = now, UNCHANGED <<man, retire, cache, att, minted, stat, runtime, queued, events>>,
         conn' = [conn EXCEPT ![k] = c], Sound(k, att[k], c, stat[k], runtime, now)
  PROVE  Inv'
  BY AtClaim, ClaimUpdate, ZenonT(60)

LEMMA StatOnly ==
  ASSUME Inv, NEW k \in Claim, NEW s \in StatT,
         now' = now, UNCHANGED <<man, retire, cache, att, minted, conn>>,
         events' \in Nat, queued' \subseteq Nat, runtime' \in RuntimeT,
         stat' = [stat EXCEPT ![k] = s], Respects(runtime, now, runtime', now),
         s.ct <= now,
         conn[k].loop = "asking" /\ s.st = "beat" => conn[k].asked <= s.ct,
         conn[k].loop = "asking" /\ s.st = "ok" => Backed(k, conn[k].asked + Lease, runtime', now)
  PROVE  Inv'
  <1>1. conn' = [conn EXCEPT ![k] = conn[k]] /\ conn[k] \in ConnT
    BY AtClaim
  <1>2. Sound(k, att[k], conn[k], stat[k], runtime', now)
    BY AtClaim, SoundStays
  <1>3. Sound(k, att[k], conn[k], s, runtime', now)
    BY <1>2, ZenonT(60) DEF Sound
  <1> QED BY <1>1, <1>3, ClaimUpdate, ZenonT(60)

\* A connection that carries nothing more needs no reservation.
LEMMA GoneTyped ==
  ASSUME NEW c \in ConnT
  PROVE  /\ Gone(c) \in ConnT /\ Gone(c).valid = 0 /\ Gone(c).asked = 0
         /\ Gone(c).loop \in {"none", "done"}
         /\ c.loop \in {"none", "waiting"} => Gone(c).loop = "none"
  BY ZenonT(60) DEF Gone, NoConn, ConnT, ConnSt, Loop

LEMMA GoneSound ==
  ASSUME NEW k \in Nat, NEW a \in AttT, NEW c \in ConnT, NEW s \in StatT,
         NEW rt \in RuntimeT, NEW n \in Nat, Sound(k, a, c, s, rt, n)
  PROVE  Sound(k, a, Gone(c), s, rt, n)
  <1> DEFINE g == Gone(c)
  <1>1. /\ g.valid = 0 /\ g.asked = 0 /\ g.loop \in {"none", "done"}
        /\ c.loop \in {"none", "waiting"} => g.loop = "none"
    BY GoneTyped
  <1> HIDE DEF g
  <1>2. /\ g.asked <= n /\ g.valid <= n + Safety /\ g.valid <= a.fin + Safety
        /\ Backed(k, g.valid, rt, n)
    BY <1>1, ConstantTypes DEF AttT, Backed
  <1>3. a.ph = "activate" => Backed(k, g.valid + Safety, rt, n)
    BY <1>1, ConstantTypes, BackedLess DEF Sound, ConnT
  <1>4. g.loop # "woken" /\ g.loop # "asking"
    BY <1>1
  <1>5. Sound(k, a, g, s, rt, n)
    BY <1>1, <1>2, <1>3, <1>4, ZenonT(60) DEF Sound
  <1> QED BY <1>5 DEF g

LEMMA GoneStep ==
  ASSUME Inv, NEW k \in Claim, conn' = [conn EXCEPT ![k] = Gone(conn[k])],
         UNCHANGED <<now, man, retire, cache, att, minted, stat, runtime, queued, events>>
  PROVE  Inv'
  BY AtClaim, GoneSound, GoneTyped, ConnOnly, ZenonT(60)
-----------------------------------------------------------------------------
LEMMA FinalizeConflictInv ==
  ASSUME Inv, NEW k \in Claim, FinalizeConflict(k)
  PROVE  Inv'
  BY AtClaim, PhaseOnly, WellTyped, ZenonT(60) DEF FinalizeConflict, Sound, Phase

LEMMA ActivateInv ==
  ASSUME Inv, NEW k \in Claim, NEW b \in BOOLEAN, Activate(k, b)
  PROVE  Inv'
  <1> DEFINE ph == IF b THEN "mark" ELSE "abort_activation"
             c == IF conn[k].st = "open" /\ conn[k].loop = "waiting"
                  THEN [conn[k] EXCEPT !.loop = "woken"] ELSE conn[k]
  <1>1. /\ att[k].ph = "activate" /\ To(k, ph) /\ Well(b) /\ conn' = [conn EXCEPT ![k] = c]
        /\ UNCHANGED <<now, man, runtime, queued, minted, stat, retire, cache>>
    BY AtClaim, ZenonT(60) DEF Activate
  <1>2. /\ c \in ConnT /\ c.valid = conn[k].valid /\ c.asked = conn[k].asked
        /\ c.loop \in {"woken", conn[k].loop}
    BY AtClaim DEF ConnT, Loop
  <1>3. ph \in Phase /\ ph \notin {"done", "connected", "finalize", "activate"}
    BY DEF Phase
  <1> HIDE DEF c, ph
  <1>4. /\ att' \in [Claim -> AttT] /\ \A j \in Claim \ {k} : att'[j] = att[j]
        /\ att'[k].ph = ph /\ events' \in Nat
        /\ att'[k].ct = att[k].ct /\ att'[k].fin = att[k].fin
    BY <1>1, <1>3, AtClaim, ToStep, WellTyped
  <1>5. conn' \in [Claim -> ConnT] /\ conn'[k] = c /\ \A j \in Claim \ {k} : conn'[j] = conn[j]
    BY <1>1, <1>2, AtClaim
  <1>6. Sound(k, att'[k], c, stat[k], runtime, now)
    BY <1>1, <1>2, AtClaim, <1>3, <1>4 DEF Sound
  <1>7. Sound(k, att'[k], conn'[k], stat'[k], runtime', now)
    BY <1>1, <1>5, <1>6
  <1>8. /\ stat' \in [Claim -> StatT] /\ \A j \in Claim \ {k} : stat'[j] = stat[j]
        /\ runtime' \in RuntimeT /\ Respects(runtime, now, runtime', now)
        /\ minted' \in Nat /\ queued' \subseteq Nat
    BY <1>1, AtClaim
  <1> QED BY <1>1, <1>4, <1>5, <1>7, <1>8, ClaimStep, ZenonT(60)

LEMMA AbortInv ==
  ASSUME Inv, NEW k \in Claim, NEW b \in BOOLEAN, Abort(k, b)
  PROVE  Inv'
  <1> DEFINE c == IF b THEN Gone(conn[k])
                  ELSE IF conn[k].st = "open" THEN [conn[k] EXCEPT !.st = "closing"] ELSE conn[k]
  <1>1. PICK ph \in {"release_finalized", "retain_finalized", "release", "done"} : To(k, ph)
    BY ZenonT(60) DEF Abort
  <1>2. /\ att[k].ph \in {"abort_error", "abort_replaced", "abort_activation"}
        /\ conn' = [conn EXCEPT ![k] = c]
        /\ UNCHANGED <<now, man, runtime, queued, minted, stat, retire, cache, events>>
    BY AtClaim DEF Abort
  <1>3. c \in ConnT /\ Sound(k, att[k], c, stat[k], runtime, now)
    <2>1. Gone(conn[k]) \in ConnT /\ Sound(k, att[k], Gone(conn[k]), stat[k], runtime, now)
      BY AtClaim, GoneSound, GoneTyped
    <2> DEFINE d == [conn[k] EXCEPT !.st = "closing"]
    <2>2. /\ d \in ConnT /\ d.valid = conn[k].valid /\ d.asked = conn[k].asked
          /\ d.loop = conn[k].loop
      BY AtClaim DEF ConnT, ConnSt
    <2>3. Sound(k, att[k], d, stat[k], runtime, now)
      BY <2>2, AtClaim DEF Sound
    <2> QED BY <2>1, <2>2, <2>3, AtClaim
  <1> HIDE DEF c
  <1>4. ph \in Phase /\ ph \notin {"connected", "finalize", "activate"}
    BY DEF Phase
  <1>5. /\ att' \in [Claim -> AttT] /\ \A j \in Claim \ {k} : att'[j] = att[j]
        /\ att'[k].ph = ph
        /\ ph = "done" => att'[k].ct = 0 /\ att'[k].fin = 0
        /\ ph # "done" => att'[k].ct = att[k].ct /\ att'[k].fin = att[k].fin
    BY <1>1, <1>4, AtClaim, ToStep
  <1>6. conn' \in [Claim -> ConnT] /\ conn'[k] = c /\ \A j \in Claim \ {k} : conn'[j] = conn[j]
    BY <1>2, <1>3, AtClaim
  <1>7. Sound(k, att'[k], c, stat[k], runtime, now)
    BY <1>3, <1>5, AtClaim, <1>2, <1>4 DEF Sound, AttT
  <1>8. Sound(k, att'[k], conn'[k], stat'[k], runtime', now)
    BY <1>2, <1>6, <1>7
  <1>9. /\ stat' \in [Claim -> StatT] /\ \A j \in Claim \ {k} : stat'[j] = stat[j]
        /\ runtime' \in RuntimeT /\ Respects(runtime, now, runtime', now)
        /\ minted' \in Nat /\ queued' \subseteq Nat /\ events' \in Nat
    BY <1>2, AtClaim
  <1> QED BY <1>2, <1>5, <1>6, <1>8, <1>9, ClaimStep, ZenonT(60)
\* Clearing the connection or moving the state leaves the reservation.
LEMMA RuntimeMarked ==
  ASSUME NEW r \in RuntimeT, NEW n \in Nat, NEW t \in RuntimeSt,
         NEW r2, r2 = r \/ r2 = [r EXCEPT !.state = t] \/ r2 = [r EXCEPT !.conn = 0, !.state = t]
  PROVE  r2 \in RuntimeT /\ Respects(r, n, r2, n)
  <1>1. r2 \in RuntimeT
    <2>1. [r EXCEPT !.state = t] \in RuntimeT /\ [r EXCEPT !.conn = 0, !.state = t] \in RuntimeT
      BY RuntimeTyped, ZenonT(60)
    <2> QED BY <2>1, ZenonT(60)
  <1>2. r2.token = r.token /\ r2.lease = r.lease
    BY ZenonT(60) DEF RuntimeT
  <1> QED BY <1>1, <1>2 DEF Respects, RuntimeT

LEMMA ReleaseClaimInv ==
  ASSUME Inv, NEW k \in Claim, ReleaseClaim(k)
  PROVE  Inv'
  BY AtClaim, RuntimeMarked, PhaseOnly, ZenonT(60) DEF ReleaseClaim, Phase, RuntimeSt

LEMMA ReleaseFinalizedInv ==
  ASSUME Inv, NEW k \in Claim, NEW b \in BOOLEAN, ReleaseFinalized(k, b)
  PROVE  Inv'
  <1>1. PICK ph \in {"release", "done"} : To(k, ph)
    BY ZenonT(60) DEF ReleaseFinalized
  <1>2. /\ att[k].ph \in {"release_finalized", "retain_finalized"} /\ Well(b)
        /\ UNCHANGED <<now, man, queued, minted, conn, stat, retire, cache>>
        /\ (runtime' = runtime \/ runtime' = [runtime EXCEPT !.conn = 0, !.state = "terminating"])
    BY DEF ReleaseFinalized
  <1>3. ph \in Phase /\ ph \notin {"connected", "finalize", "activate"} /\ "terminating" \in RuntimeSt
    BY DEF Phase, RuntimeSt
  <1>4. runtime' \in RuntimeT /\ Respects(runtime, now, runtime', now)
    BY <1>2, <1>3, AtClaim, RuntimeMarked, ZenonT(60)
  <1>5. Backed(k, att[k].ct + Lease, runtime', now)
    <2>1. Backed(k, att[k].ct + Lease, runtime, now) /\ att[k].ct + Lease \in Nat
      BY <1>2, AtClaim, ConstantTypes DEF Sound, AttT
    <2> QED BY <1>4, <2>1, AtClaim, BackedStays
  <1> QED BY <1>1, <1>2, <1>3, <1>4, <1>5, AtClaim, PhaseOnly, WellTyped

LEMMA MarkActiveInv ==
  ASSUME Inv, NEW k \in Claim, MarkActive(k)
  PROVE  Inv'
  BY AtClaim, RuntimeMarked, PhaseOnly, ZenonT(60) DEF MarkActive, Phase, RuntimeSt

LEMMA TaskDiesInv ==
  ASSUME Inv, NEW k \in Claim, TaskDies(k)
  PROVE  Inv'
  <1>1. /\ To(k, "done") /\ Well(now >= att[k].ct + TaskLimit)
        /\ UNCHANGED <<now, man, runtime, queued, minted, conn, stat, retire, cache>>
    BY DEF TaskDies
  <1>2. "done" \in Phase /\ (now >= att[k].ct + TaskLimit) \in BOOLEAN
    BY DEF Phase
  <1>3. events' \in Nat
    BY <1>1, <1>2, AtClaim, WellTyped, ZenonT(60)
  <1> QED BY <1>1, <1>2, <1>3, AtClaim, PhaseOnly
-----------------------------------------------------------------------------
(* The worker.                                                              *)

LEMMA LeaseWokenInv ==
  ASSUME Inv, NEW k \in Claim, LeaseWoken(k)
  PROVE  Inv'
  <1> DEFINE v == Later(conn[k].valid, now + Safety)
             c == [conn[k] EXCEPT !.valid = v, !.loop = "running", !.next = now + Interval]
  <1>1. /\ conn[k].loop = "woken"
        /\ Permits(k) => conn' = [conn EXCEPT ![k] = c]
        /\ ~Permits(k) => conn' = [conn EXCEPT ![k] = Gone(conn[k])]
        /\ UNCHANGED <<now, man, runtime, queued, att, minted, stat, retire, cache, events>>
    BY ZenonT(60) DEF LeaseWoken
  <1>2. CASE ~Permits(k)
    BY <1>1, <1>2, GoneStep
  <1>3. CASE Permits(k)
    <2>1. v \in Nat /\ now + Interval \in Nat
      BY AtClaim, ConstantTypes DEF ConnT, Later
    <2> HIDE DEF v
    <2>2. c \in ConnT /\ c.valid = v /\ c.asked = conn[k].asked /\ c.loop = "running"
      BY <2>1, AtClaim, ZenonT(60) DEF ConnT, Loop
    <2> HIDE DEF c
    <2>3. Backed(k, v, runtime, now)
      BY <1>1, <1>3, AtClaim, ConstantTypes, <2>1, BackedLess DEF Sound, Permits, v, Later,
         ConnT
    <2>4. Sound(k, att[k], c, stat[k], runtime, now)
      BY <1>1, AtClaim, <2>2, <2>3 DEF Sound
    <2>5. conn' = [conn EXCEPT ![k] = c]
      BY <1>1, <1>3
    <2> QED BY <1>1, <2>2, <2>4, <2>5, ConnOnly, ZenonT(60)
  <1> QED BY <1>2, <1>3

LEMMA DeadlinePassesInv ==
  ASSUME Inv, NEW k \in Claim, DeadlinePasses(k)
  PROVE  Inv'
  BY GoneStep, ZenonT(60) DEF DeadlinePasses

LEMMA SocketClosesInv ==
  ASSUME Inv, NEW k \in Claim, SocketCloses(k)
  PROVE  Inv'
  BY GoneStep, ZenonT(60) DEF SocketCloses

LEMMA SendHeartbeatInv ==
  ASSUME Inv, NEW k \in Claim, SendHeartbeat(k)
  PROVE  Inv'
  <1> DEFINE c == [conn[k] EXCEPT !.loop = "asking", !.asked = now, !.next = 0]
             s == [NoStat EXCEPT !.st = "sent"]
  <1>1. /\ conn[k].loop = "running" /\ conn' = [conn EXCEPT ![k] = c] /\ stat' = [stat EXCEPT ![k] = s]
        /\ UNCHANGED <<now, man, runtime, queued, att, minted, retire, cache, events>>
    BY DEF SendHeartbeat
  <1>2. c \in ConnT /\ c.valid = conn[k].valid /\ c.asked = now /\ c.loop = "asking"
    BY AtClaim, ZenonT(60) DEF ConnT, Loop
  <1>3. s \in StatT /\ s.st = "sent" /\ s.ct = 0
    BY DEF NoStat, StatT, StatSt
  <1> HIDE DEF c, s
  <1>4. Sound(k, att[k], c, s, runtime, now)
    BY <1>1, AtClaim, <1>2, <1>3 DEF Sound
  <1>5. Sound(k, att[k], c, s, runtime', now)
    BY <1>1, <1>4
  <1>6. /\ runtime' \in RuntimeT /\ Respects(runtime, now, runtime', now)
        /\ events' \in Nat /\ queued' \subseteq Nat
    BY <1>1, AtClaim
  <1> QED BY <1>1, <1>2, <1>3, <1>5, <1>6, ClaimUpdate, ZenonT(60)

LEMMA HeartbeatAnsweredInv ==
  ASSUME Inv, NEW k \in Claim, HeartbeatAnswered(k)
  PROVE  Inv'
  <1> DEFINE r == Renewed(conn[k])
             e == [conn[k] EXCEPT !.loop = "running", !.asked = 0, !.next = now]
  <1>1. /\ conn[k].loop = "asking" /\ stat[k].st \in {"ok", "no", "err"}
        /\ stat[k].st = "ok" => conn' = [conn EXCEPT ![k] = r]
        /\ stat[k].st = "no" => conn' = [conn EXCEPT ![k] = Gone(conn[k])]
        /\ stat[k].st = "err" => conn' = [conn EXCEPT ![k] = e]
        /\ stat' = [stat EXCEPT ![k] = NoStat]
        /\ UNCHANGED <<now, man, runtime, queued, att, minted, retire, cache, events>>
    BY ZenonT(60) DEF HeartbeatAnswered
  <1>2. /\ NoStat \in StatT /\ NoStat.ct = 0 /\ NoStat.ct <= now
        /\ NoStat.st # "beat" /\ NoStat.st # "ok"
    BY AtClaim DEF NoStat, StatT, StatSt
  <1>3. att[k].ph \notin {"connected", "finalize", "activate"}
    BY <1>1, AtClaim DEF Sound
  <1>4. \A x \in ConnT, t \in Nat :
          /\ [x EXCEPT !.loop = "running"] \in ConnT /\ [x EXCEPT !.asked = t] \in ConnT
          /\ [x EXCEPT !.next = t] \in ConnT /\ [x EXCEPT !.valid = t] \in ConnT
    BY DEF ConnT, Loop
  <1>5. \A c \in ConnT : /\ c.loop \in {"running", "none", "done"} /\ c.asked <= now
                         /\ Backed(k, c.valid, runtime, now)
                         => Sound(k, att[k], c, NoStat, runtime, now)
    BY <1>2, <1>3, AtClaim DEF Sound
  <1>6. \E c \in ConnT : /\ conn' = [conn EXCEPT ![k] = c]
                         /\ Sound(k, att[k], c, NoStat, runtime, now)
    <2>1. CASE stat[k].st = "ok"
      <3> DEFINE v == Later(conn[k].valid, conn[k].asked + Safety)
      <3>1. v \in Nat /\ now + Interval \in Nat /\ 0 \in Nat
        BY AtClaim, ConstantTypes DEF ConnT, Later
      <3>2. Backed(k, v, runtime, now)
        BY <1>1, <2>1, AtClaim, ConstantTypes DEF Sound, Backed, Later, ConnT, RuntimeT
      <3>3. r = [conn[k] EXCEPT !.valid = v, !.loop = "running", !.asked = 0, !.next = now + Interval]
        BY DEF Renewed
      <3> HIDE DEF v, r
      <3>4. r = [[[[conn[k] EXCEPT !.valid = v] EXCEPT !.loop = "running"] EXCEPT !.asked = 0]
                   EXCEPT !.next = now + Interval]
        BY <3>3
      <3>5. r \in ConnT
        BY <1>4, <3>1, <3>4, AtClaim, ZenonT(60)
      <3>6. r.valid = v /\ r.loop = "running" /\ r.asked = 0 /\ r.asked <= now
        BY <3>3, AtClaim DEF ConnT
      <3>7. Sound(k, att[k], r, NoStat, runtime, now)
        BY <1>5, <3>2, <3>5, <3>6
      <3> QED BY <1>1, <2>1, <3>5, <3>7, ZenonT(60)
    <2>2. CASE stat[k].st = "no"
      BY AtClaim, GoneTyped, <1>5, <1>1, <2>2 DEF Backed
    <2>3. CASE stat[k].st = "err"
      <3>1. e = [[[conn[k] EXCEPT !.loop = "running"] EXCEPT !.asked = 0] EXCEPT !.next = now]
        OBVIOUS
      <3>2. 0 \in Nat /\ now \in Nat
        BY AtClaim
      <3>3. e \in ConnT
        BY <1>4, <3>1, <3>2, AtClaim, ZenonT(60)
      <3>4. e.valid = conn[k].valid /\ e.loop = "running" /\ e.asked = 0 /\ e.asked <= now
        BY AtClaim DEF ConnT
      <3> HIDE DEF e
      <3>5. Sound(k, att[k], e, NoStat, runtime, now)
        BY <3>4, AtClaim, <1>5, <3>3 DEF Sound
      <3> QED BY <1>1, <2>3, <3>3, <3>5, ZenonT(60)
    <2> QED BY <1>1, <2>1, <2>2, <2>3
  <1>7. PICK c \in ConnT : /\ conn' = [conn EXCEPT ![k] = c]
                           /\ Sound(k, att[k], c, NoStat, runtime, now)
    BY <1>6, ZenonT(60)
  <1>8. Sound(k, att[k], c, NoStat, runtime', now)
    BY <1>1, <1>7
  <1>9. /\ runtime' \in RuntimeT /\ Respects(runtime, now, runtime', now)
        /\ events' \in Nat /\ queued' \subseteq Nat
    BY <1>1, AtClaim
  <1> QED BY <1>1, <1>2, <1>7, <1>8, <1>9, ClaimUpdate, ZenonT(60)
LEMMA ReportDisconnectedInv ==
  ASSUME Inv, NEW k \in Claim, ReportDisconnected(k)
  PROVE  Inv'
  <1> DEFINE c == [conn[k] EXCEPT !.loop = "none"]
             s == [NoStat EXCEPT !.st = "gone"]
  <1>1. /\ conn' = [conn EXCEPT ![k] = c] /\ stat' = [stat EXCEPT ![k] = s]
        /\ UNCHANGED <<now, man, runtime, queued, att, minted, retire, cache, events>>
    BY DEF ReportDisconnected
  <1>2. c \in ConnT /\ c.valid = conn[k].valid /\ c.asked = conn[k].asked /\ c.loop = "none"
    BY AtClaim DEF ConnT, Loop
  <1>3. s \in StatT /\ s.st = "gone" /\ s.ct = 0
    BY DEF NoStat, StatT, StatSt
  <1> HIDE DEF c, s
  <1>4. Sound(k, att[k], c, s, runtime, now)
    BY <1>2, <1>3, AtClaim DEF Sound
  <1>5. Sound(k, att[k], c, s, runtime', now)
    BY <1>1, <1>4
  <1>6. /\ runtime' \in RuntimeT /\ Respects(runtime, now, runtime', now)
        /\ events' \in Nat /\ queued' \subseteq Nat
    BY <1>1, AtClaim
  <1> QED BY <1>1, <1>2, <1>3, <1>5, <1>6, ClaimUpdate, ZenonT(60)
-----------------------------------------------------------------------------
(* The status handler.                                                      *)

LEMMA StatusReadsInv ==
  ASSUME Inv, NEW k \in Claim, StatusReads(k)
  PROVE  Inv'
  <1> DEFINE s == [st |-> IF stat[k].st = "sent" THEN "beat" ELSE "left", ver |-> man.ver, ct |-> now]
  <1>1. /\ stat' = [stat EXCEPT ![k] = s]
        /\ UNCHANGED <<now, man, runtime, queued, att, minted, conn, retire, cache, events>>
    BY DEF StatusReads
  <1>2. s \in StatT /\ s.ct = now /\ s.st \in {"beat", "left"}
    BY AtClaim DEF StatT, StatSt, TypeOK
  <1> HIDE DEF s
  <1>3. /\ s.ct <= now /\ s.st # "ok" /\ (conn[k].loop = "asking" /\ s.st = "beat" => conn[k].asked <= s.ct)
        /\ runtime' \in RuntimeT /\ Respects(runtime, now, runtime', now)
        /\ events' \in Nat /\ queued' \subseteq Nat
    BY <1>1, <1>2, AtClaim DEF Sound
  <1> QED BY <1>1, <1>2, <1>3, StatOnly, ZenonT(60)

LEMMA UpdateOnHeartbeatInv ==
  ASSUME Inv, NEW k \in Claim, NEW b \in BOOLEAN, UpdateOnHeartbeat(k, b)
  PROVE  Inv'
  <1> DEFINE t == IF conn[k].st = "gone" THEN "none"
                  ELSE IF ~b THEN "err" ELSE IF Renewable(k) THEN "ok" ELSE "no"
             s == [NoStat EXCEPT !.st = t]
             l == Later(runtime.lease, stat[k].ct + Lease)
             r == [runtime EXCEPT !.lease = l]
  <1>1. /\ stat[k].st = "beat" /\ stat' = [stat EXCEPT ![k] = s]
        /\ runtime' = IF Renewable(k) THEN r ELSE runtime
        /\ Well(b) /\ UNCHANGED <<now, man, queued, att, minted, conn, retire, cache>>
    BY DEF UpdateOnHeartbeat
  <1>2. s \in StatT /\ s.ct = 0 /\ s.st \in {"none", "err", "ok", "no"} /\ (s.st = "ok" => Renewable(k))
    BY DEF NoStat, StatT, StatSt
  <1>3. /\ l \in Nat /\ runtime.lease <= l /\ stat[k].ct + Lease <= l
        /\ stat[k].ct \in Nat /\ conn[k].asked \in Nat
    BY AtClaim, ConstantTypes DEF RuntimeT, StatT, ConnT, Later
  <1> HIDE DEF s, l
  <1>4. r \in RuntimeT /\ r.lease = l /\ r.token = runtime.token
    BY <1>3, AtClaim DEF RuntimeT
  <1>5. runtime' \in RuntimeT /\ Respects(runtime, now, runtime', now)
    BY <1>1, <1>3, <1>4, AtClaim DEF Respects, RuntimeT
  <1>6. conn[k].loop = "asking" /\ s.st = "ok" => Backed(k, conn[k].asked + Lease, runtime', now)
    BY <1>1, AtClaim, <1>2, <1>4, <1>3, ConstantTypes DEF Sound, Renewable, Backed
  <1>7. s.ct <= now /\ s.st # "beat" /\ events' \in Nat /\ queued' \subseteq Nat
    BY <1>1, <1>2, AtClaim, WellTyped
  <1> QED BY <1>1, <1>2, <1>5, <1>6, <1>7, StatOnly, ZenonT(60)

LEMMA UpdateOnDisconnectInv ==
  ASSUME Inv, NEW k \in Claim, UpdateOnDisconnect(k)
  PROVE  Inv'
  <1>1. /\ stat' = [stat EXCEPT ![k] = NoStat]
        /\ (runtime' = runtime \/ runtime' = [runtime EXCEPT !.conn = 0, !.state = "terminating"])
        /\ UNCHANGED <<now, man, att, minted, conn, retire, cache, events>>
        /\ (queued' = queued \/ queued' = queued \cup {stat[k].ver})
    BY DEF UpdateOnDisconnect
  <1>2. runtime' \in RuntimeT /\ Respects(runtime, now, runtime', now)
    BY <1>1, AtClaim, RuntimeMarked, ZenonT(60) DEF RuntimeSt
  <1>3. /\ NoStat \in StatT /\ NoStat.ct <= now /\ NoStat.st # "beat" /\ NoStat.st # "ok"
        /\ events' \in Nat /\ queued' \subseteq Nat
    BY <1>1, AtClaim DEF NoStat, StatT, StatSt
  <1> QED BY <1>1, <1>2, <1>3, StatOnly, ZenonT(60)

LEMMA StatusFailsInv ==
  ASSUME Inv, NEW k \in Claim, StatusFails(k)
  PROVE  Inv'
  <1> DEFINE t == IF conn[k].st = "gone" THEN "none" ELSE "err"
             s == [NoStat EXCEPT !.st = t]
  <1>1. /\ stat' = [stat EXCEPT ![k] = s] /\ Well(FALSE)
        /\ UNCHANGED <<now, man, runtime, queued, att, minted, conn, retire, cache>>
    BY ZenonT(60) DEF StatusFails
  <1>2. s \in StatT /\ s.st \in {"none", "err"} /\ s.ct = 0
    BY DEF NoStat, StatT, StatSt
  <1> HIDE DEF s
  <1>3. events' \in Nat
    BY <1>1, AtClaim DEF Well, Event
  <1>4. /\ s.ct <= now /\ s.st # "ok" /\ s.st # "beat"
        /\ runtime' \in RuntimeT /\ Respects(runtime, now, runtime', now) /\ queued' \subseteq Nat
    BY <1>1, <1>2, AtClaim
  <1> QED BY <1>1, <1>2, <1>3, <1>4, StatOnly, ZenonT(60)
-----------------------------------------------------------------------------
(* Deployments, the cron tick and lookups touch no claim.                   *)

LEMMA OtherStep ==
  ASSUME Inv, UNCHANGED <<now, att, minted, conn, stat>>,
         man' \in [ver : Nat, active : BOOLEAN], events' \in Nat, queued' \subseteq Nat,
         runtime' \in RuntimeT, retire' \in ReadT, cache' \in CacheT,
         Respects(runtime, now, runtime', now), retire'.ct <= now,
         cache' = cache \/ CacheSound(cache', runtime', now)
  PROVE  Inv'
  BY AtClaim, SoundStays, CacheStays DEF Inv, TypeOK

\* What the invariant says outside the claims, unfolded.
LEMMA AtRest ==
  ASSUME Inv
  PROVE  /\ TypeOK /\ now \in Nat /\ events \in Nat /\ queued \subseteq Nat
         /\ man \in [ver : Nat, active : BOOLEAN] /\ runtime \in RuntimeT
         /\ retire \in ReadT /\ retire.ct \in Nat /\ retire.ct <= now /\ cache \in CacheT
         /\ CacheSound(cache, runtime, now) /\ Respects(runtime, now, runtime, now)
  BY RespectsSame DEF Inv, TypeOK, ReadT

LEMMA ManifestInv ==
  ASSUME Inv, SetActivating \/ SetActive \/ TickReconcile
  PROVE  Inv'
  <1>1. UNCHANGED <<now, runtime, att, minted, conn, stat, retire, cache>>
    BY DEF SetActivating, SetActive, TickReconcile
  <1>2. /\ man' \in [ver : Nat, active : BOOLEAN] /\ events' \in Nat /\ queued' \subseteq Nat
    <2>1. CASE SetActivating
      BY <2>1, AtRest DEF SetActivating, Event
    <2>2. CASE SetActive
      BY <2>2, AtRest, ZenonT(60) DEF SetActive
    <2>3. CASE TickReconcile
      BY <2>3, AtRest DEF TickReconcile
    <2> QED BY <2>1, <2>2, <2>3
  <1>3. /\ runtime' \in RuntimeT /\ retire' \in ReadT /\ cache' \in CacheT
        /\ Respects(runtime, now, runtime', now) /\ retire'.ct <= now
    BY <1>1, AtRest
  <1> QED BY <1>1, <1>2, <1>3, OtherStep, ZenonT(60)

LEMMA RetireInv ==
  ASSUME Inv, RetireReads \/ RetireRuntime
  PROVE  Inv'
  <1>1. /\ UNCHANGED <<now, man, queued, att, minted, conn, stat, cache, events>>
        /\ man' \in [ver : Nat, active : BOOLEAN] /\ events' \in Nat /\ queued' \subseteq Nat
        /\ cache' \in CacheT
    BY AtRest DEF RetireReads, RetireRuntime
  <1>2. CASE RetireReads
    BY <1>2, AtRest, <1>1, OtherStep DEF RetireReads, ReadT
  <1>3. CASE RetireRuntime
    <2>1. retire' \in ReadT /\ retire'.ct <= now
      BY <1>3, AtRest, NewRuntimeTyped DEF RetireRuntime, NoRead, ReadT
    <2>2. \/ runtime' = runtime
          \/ runtime.lease <= retire.ct /\ runtime' = NoRuntime
          \/ runtime' = [runtime EXCEPT !.conn = 0, !.state = "terminating"]
      BY <1>3 DEF RetireRuntime, Retired
    <2>3. runtime' \in RuntimeT /\ Respects(runtime, now, runtime', now)
      <3>1. CASE runtime.lease <= retire.ct /\ runtime' = NoRuntime
        BY <3>1, AtRest, NewRuntimeTyped DEF Respects, RuntimeT
      <3>2. "terminating" \in RuntimeSt
        BY DEF RuntimeSt
      <3>3. CASE runtime' = runtime \/ runtime' = [runtime EXCEPT !.conn = 0, !.state = "terminating"]
        BY <3>2, <3>3, AtRest, RuntimeMarked, ZenonT(60)
      <3> QED BY <2>2, <3>1, <3>3
    <2> QED BY <1>1, <2>1, <2>3, OtherStep, ZenonT(60)
  <1> QED BY <1>2, <1>3
LEMMA ResolveInv ==
  ASSUME Inv, ResolveStep
  PROVE  Inv'
  <1>1. UNCHANGED <<now, man, runtime, queued, att, minted, conn, stat, retire>>
    BY DEF ResolveStep, ResolveAsks, ResolveStamps, ResolveAnswers, CacheDrops
  <1>2. events' \in Nat
    BY AtRest DEF ResolveStep, ResolveAsks, ResolveStamps, ResolveAnswers, CacheDrops, Event
  <1>3. NoCache \in CacheT /\ CacheSound(NoCache, runtime, now)
    BY AtRest DEF NoCache, CacheT, CacheSt, CacheSound
  <1>4. cache' \in CacheT /\ CacheSound(cache', runtime, now)
    <2>1. CASE ResolveAsks
      <3>1. cache' = [[cache EXCEPT !.st = "asked"] EXCEPT !.asked = now]
        BY <2>1 DEF ResolveAsks
      <3>2. \A e \in CacheT : [e EXCEPT !.st = "asked"] \in CacheT /\ [e EXCEPT !.asked = now] \in CacheT
        BY AtRest DEF CacheT, CacheSt
      <3>3. cache' \in CacheT
        BY <3>1, <3>2, AtRest, ZenonT(60)
      <3>4. cache'.st = "asked" /\ cache'.asked = now /\ cache'.ct = cache.ct
        BY <3>1, AtRest DEF CacheT
      <3> QED BY <3>3, <3>4, AtRest DEF CacheSound
    <2>2. CASE ResolveStamps
      <3>1. cache' = [[cache EXCEPT !.st = "stamped"] EXCEPT !.ct = now]
        BY <2>2 DEF ResolveStamps
      <3>2. \A e \in CacheT : [e EXCEPT !.st = "stamped"] \in CacheT /\ [e EXCEPT !.ct = now] \in CacheT
        BY AtRest DEF CacheT, CacheSt
      <3>3. cache' \in CacheT
        BY <3>1, <3>2, AtRest, ZenonT(60)
      <3>4. cache'.st = "stamped" /\ cache'.asked = cache.asked /\ cache'.ct = now
        BY <3>1, AtRest DEF CacheT
      <3> QED BY <3>3, <3>4, AtRest DEF CacheSound
    <2>3. CASE ResolveAnswers
      <3> DEFINE e == [NoCache EXCEPT !.st = "connected", !.token = runtime.token, !.valid = CacheUntil]
      <3>1. cache' = e \/ cache' = NoCache
        BY <2>3 DEF ResolveAnswers
      <3>2. cache.st = "stamped" /\ cache.asked <= cache.ct /\ cache.asked <= now
        BY <2>3, AtRest DEF ResolveAnswers, CacheSound
      <3>3. CacheUntil \in Nat /\ (CacheUntil <= now \/ CacheUntil + Safety <= runtime.lease)
        BY <3>2, AtRest, ConstantTypes DEF CacheUntil, Later, CacheT, RuntimeT
      <3>4. e = [[[NoCache EXCEPT !.st = "connected"] EXCEPT !.token = runtime.token]
                   EXCEPT !.valid = CacheUntil]
        OBVIOUS
      <3>5. /\ e \in CacheT /\ e.st = "connected" /\ e.token = runtime.token
            /\ e.asked = 0 /\ e.ct = 0 /\ e.valid = CacheUntil
        BY AtRest, <1>3, <3>3, <3>4, ZenonT(60) DEF CacheT, CacheSt, RuntimeT, NoCache
      <3> HIDE DEF e
      <3>6. CacheSound(e, runtime, now)
        BY <3>3, <3>5, AtRest DEF CacheSound
      <3> QED BY <1>3, <3>1, <3>5, <3>6
    <2>4. CASE CacheDrops
      BY <1>3, <2>4 DEF CacheDrops
    <2> QED BY <2>1, <2>2, <2>3, <2>4 DEF ResolveStep
  <1>5. /\ runtime' \in RuntimeT /\ retire' \in ReadT /\ Respects(runtime, now, runtime', now)
        /\ retire'.ct <= now /\ man' \in [ver : Nat, active : BOOLEAN] /\ queued' \subseteq Nat
        /\ CacheSound(cache', runtime', now)
    BY <1>1, <1>4, AtRest
  <1> QED BY <1>1, <1>2, <1>4, <1>5, OtherStep, ZenonT(60)
-----------------------------------------------------------------------------
LEMMA InitInv == Init => Inv
  <1> SUFFICES ASSUME Init PROVE Inv
    OBVIOUS
  <1>1. /\ NoAttempt \in AttT /\ NoConn \in ConnT /\ NoStat \in StatT
        /\ NoRead \in ReadT /\ NoCache \in CacheT /\ NoRuntime \in RuntimeT
    BY NewRuntimeTyped DEF NoAttempt, NoConn, NoStat, NoRead, NoCache, AttT, ConnT, StatT, ReadT,
       CacheT, Phase, ConnSt, Loop, StatSt, CacheSt
  <1>2. TypeOK
    BY <1>1 DEF Init, TypeOK
  <1>3. \A k \in Claim : Sound(k, NoAttempt, NoConn, NoStat, NoRuntime, 0)
    BY DEF Sound, Backed, NoAttempt, NoConn, NoStat
  <1>4. \A k \in Claim : att[k] = NoAttempt /\ conn[k] = NoConn /\ stat[k] = NoStat
    BY DEF Init
  <1>5. retire.ct <= now /\ CacheSound(cache, runtime, now)
    BY DEF Init, NoRead, NoCache, CacheSound
  <1>6. runtime = NoRuntime /\ now = 0
    BY DEF Init
  <1> QED BY <1>2, <1>3, <1>4, <1>5, <1>6 DEF Inv

LEMMA NextInv == Inv /\ [Next]_vars => Inv'
  <1> SUFFICES ASSUME Inv, [Next]_vars PROVE Inv'
    OBVIOUS
  <1>1. CASE Tick
    BY <1>1, TickInv
  <1>2. CASE ControlStep
    BY <1>2, ManifestInv, RetireInv DEF ControlStep
  <1>3. CASE ResolveStep
    BY <1>3, ResolveInv
  <1>4. CASE \E v \in queued : StartReconcile(v)
    BY <1>4, StartReconcileInv
  <1>5. ASSUME NEW k \in Claim, ReconcileStep(k)
        PROVE  Inv'
    BY <1>5, AcquireClaimInv, InitializeInv, ConnectInv, StampFinalizeInv, FinalizeClaimInv,
       ActivateInv, AbortInv, FinalizeConflictInv, ReleaseClaimInv, MarkActiveInv,
       ReleaseFinalizedInv, TaskDiesInv, ZenonT(60) DEF ReconcileStep
  <1>6. ASSUME NEW k \in Claim, WorkerStep(k)
        PROVE  Inv'
    BY <1>6, LeaseWokenInv, DeadlinePassesInv, SendHeartbeatInv, HeartbeatAnsweredInv,
       SocketClosesInv, ReportDisconnectedInv, ZenonT(60) DEF WorkerStep
  <1>7. ASSUME NEW k \in Claim, StatusStep(k)
        PROVE  Inv'
    BY <1>7, StatusReadsInv, UpdateOnDisconnectInv, StatusFailsInv, UpdateOnHeartbeatInv, ZenonT(60)
       DEF StatusStep
  <1>8. CASE UNCHANGED vars
    BY <1>8, ZenonT(60) DEF vars, Inv, TypeOK
  <1> QED BY <1>1, <1>2, <1>3, <1>4, <1>5, <1>6, <1>7, <1>8, ZenonT(60) DEF Next

LEMMA InvOwner == Inv => ExclusiveTraffic /\ CachedIsOwner
  BY AtClaim, AtRest DEF Sound, Backed, Permits, ConnT, CachedIsOwner, CacheSound, CacheT,
     ExclusiveTraffic

\* Whatever the number of claims, the length of a lease of at least twice the
\* safety deadline and the delays of control's handlers, only the connection
\* of the claim on record carries traffic (SingletonLeaseGuard).
THEOREM OneOwner == Spec => []ExclusiveTraffic
  <1>1. Inv => ExclusiveTraffic
    BY InvOwner
  <1> QED BY <1>1, InitInv, NextInv, PTL DEF Spec

\* And a sender's cached resolution never outlives the claim it names
\* (singleton_cache_valid_until).
THEOREM CacheFollowsOwner == Spec => []CachedIsOwner
  <1>1. Inv => CachedIsOwner
    BY InvOwner
  <1> QED BY <1>1, InitInv, NextInv, PTL DEF Spec
=============================================================================
