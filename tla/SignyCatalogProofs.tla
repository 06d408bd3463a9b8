------------------------- MODULE SignyCatalogProofs -------------------------
(***************************************************************************)
(* The catalog journal's safety for any number of instances and            *)
(* generations: one history, the fence, the durability of what was         *)
(* reported, and that the history stays readable.  The argument: an        *)
(* instance's state is a prefix of the history, and the first replica of   *)
(* every commit after that prefix still exists, so a conditional create    *)
(* can only succeed at the end of the history.                             *)
(***************************************************************************)
EXTENDS SignyCatalog, TLAPS

(* A leaf that names no prover goes to the SMT solver, which is called again *)
(* when its time ran out, and in the end to Zenon.                           *)
USE SMTT(120), Z3T(120), SMTT(90), Z3T(90), ZenonT(60)

Pc == {"new", "idle", "load", "read", "check", "put_a", "put_b", "snap_a", "snap_b",
       "fenced", "dead"}
Tx == (Instances \union {0}) \X Nat
DigestT == Nat \X Tx
CommitT == [gen : Gens, parent : DigestT, tx : Tx, epoch : Nat, claim : BOOLEAN]
StateT == [gen : Nat, digest : DigestT, tx : Tx, epoch : Nat]
MutT == [tx : Tx, epoch : Nat, claim : BOOLEAN]
InstT == [pc : Pc, held : Nat, cache : StateT, base : StateT, list : SUBSET Gens,
          mut : MutT, n : Nat, keep : Nat]

TypeOK ==
  /\ commits \in [Replicas -> [Gens -> CommitT \union {Absent}]]
  /\ snaps \in [Replicas -> [Gens -> StateT \union {Absent}]]
  /\ inst \in [Instances -> InstT]
  /\ hist \in [Gens -> CommitT \union {Absent}]
  /\ top \in Nat /\ top <= MaxGen
  /\ damaged \subseteq Gens

\* Epochs never fall, a claim starts a new one, and one instance wrote all
\* the commits of an epoch.
Chain(h, t) ==
  \A g \in Gens : g <= t =>
    /\ h[g] \in CommitT /\ h[g].gen = g /\ h[g].epoch # 0 /\ h[g].epoch <= h[t].epoch
    /\ g > 1 => h[g].parent = Digest(h[g - 1])
    /\ ~h[g].claim => g > 1 /\ h[g].epoch = h[g - 1].epoch
    /\ \A k \in Gens : k <= t /\ h[k].epoch = h[g].epoch => h[k].tx[1] = h[g].tx[1]

Objects(cs, h, t) ==
  \A r \in Replicas, g \in Gens : cs[r][g] # Absent => g <= t /\ cs[r][g] = h[g]

Snapshots(sn, h, t) ==
  \A r \in Replicas, g \in Gens : sn[r][g] # Absent => g <= t /\ sn[r][g] = Applied(h[g])

\* Two complete snapshots at k or later.
Closed(sn, k) ==
  \E g1 \in Gens, g2 \in Gens :
    k <= g1 /\ g1 < g2 /\ \A r \in Replicas : sn[r][g1] # Absent /\ sn[r][g2] # Absent

Pruned(cs, sn, t) ==
  \A g \in Gens : g <= t /\ cs["a"][g] = Absent => Closed(sn, g + 1)

\* The first replica of every commit after generation x exists.
Covers(cs, t, x) == \A g \in Gens : x < g /\ g <= t => cs["a"][g] # Absent

Known(s, h, t) == s = Genesis \/ (s.gen \in Gens /\ s.gen <= t /\ s = Applied(h[s.gen]))

Owns(i, e, h, t) == \E g \in Gens : g <= t /\ h[g].epoch = e /\ h[g].tx[1] = i

Busy == {"load", "read", "check", "put_a", "put_b"}
Putting == {"put_a", "put_b"}

Sound(i, p, cs, sn, h, t) ==
  /\ Known(p.cache, h, t) /\ Known(p.base, h, t)
  /\ p.cache # Genesis \/ p.pc \in {"check", "put_a", "put_b"} => Covers(cs, t, p.cache.gen)
  /\ p.pc = "read" => Covers(cs, t, p.base.gen)
  /\ p.held # 0 => Owns(i, p.held, h, t)
  /\ p.pc \in Busy => p.mut.tx[1] = i /\ p.mut.tx[2] # 0 /\ (p.mut.claim <=> p.held = 0)
  /\ p.pc \in Putting => /\ Asked(p) = NextEpoch(p) /\ p.cache.gen < MaxGen /\ ~FencedBy(p)
  /\ p.pc = "put_b" => p.cache.gen < t /\ h[p.cache.gen + 1] = Sealed(p)
  /\ p.pc \in {"snap_a", "snap_b"} => p.cache # Genesis
  /\ p.keep # 0 => Closed(sn, p.keep)

Inv ==
  /\ TypeOK
  /\ \A x \in damaged, y \in damaged : x = y
  /\ Chain(hist, top) /\ Objects(commits, hist, top) /\ Snapshots(snaps, hist, top)
  /\ Pruned(commits, snaps, top)
  /\ \A i \in Instances : Sound(i, inst[i], commits, snaps, hist, top)
  /\ \A d \in acked : \E g \in Gens : g <= top /\ d = Digest(hist[g])
-----------------------------------------------------------------------------
LEMMA ConstantTypes ==
  /\ MaxGen \in Nat /\ Gens \subseteq Nat
  /\ \A g \in Nat : g \in Gens <=> g # 0 /\ g <= MaxGen
  BY CatalogAssumption DEF Gens

LEMMA GenesisTyped ==
  /\ Genesis \in StateT /\ Genesis.gen = 0 /\ Genesis.epoch = 0 /\ Genesis.tx[2] = 0
  /\ NoMutation \in MutT
  BY DEF Genesis, NoMutation, StateT, MutT, DigestT, Tx

LEMMA StartedTyped ==
  /\ Started \in InstT /\ Started.cache = Genesis /\ Started.base = Genesis
  /\ Started.held = 0 /\ Started.keep = 0 /\ Started.pc = "new"
  BY GenesisTyped DEF Started, InstT, Pc

LEMMA CommitFacts ==
  ASSUME NEW c \in CommitT
  PROVE  /\ c # Absent /\ Applied(c) \in StateT /\ Applied(c) # Genesis /\ Applied(c) # Absent
         /\ Applied(c).gen = c.gen /\ Applied(c).epoch = c.epoch /\ Applied(c).tx = c.tx
         /\ Applied(c).digest = Digest(c) /\ Digest(c) \in DigestT
  <1>1. c.gen \in Nat /\ c.gen # 0 /\ c.tx \in Tx
    BY ConstantTypes, ZenonT(60) DEF CommitT
  <1>2. Digest(c) \in DigestT
    BY <1>1 DEF Digest, DigestT
  <1>3. /\ Applied(c).gen = c.gen /\ Applied(c).epoch = c.epoch /\ Applied(c).tx = c.tx
        /\ Applied(c).digest = Digest(c)
    BY DEF Applied
  <1>4. Applied(c) \in StateT
    BY <1>1, <1>2 DEF Applied, StateT, CommitT
  <1>5. Applied(c) # Genesis
    BY <1>1, <1>3, GenesisTyped
  <1>6. c # Absent /\ Applied(c) # Absent
    BY <1>1, <1>3 DEF Absent
  <1> QED BY <1>2, <1>3, <1>4, <1>5, <1>6

LEMMA KnownFacts ==
  ASSUME NEW h, NEW t \in Nat, NEW s \in StateT, Chain(h, t), Known(s, h, t)
  PROVE  /\ s.gen \in Nat /\ s.epoch \in Nat /\ s.gen <= t
         /\ s # Genesis => /\ s.gen \in Gens /\ h[s.gen] \in CommitT /\ s = Applied(h[s.gen])
                           /\ s.epoch = h[s.gen].epoch /\ s.tx = h[s.gen].tx
                           /\ s.digest = Digest(h[s.gen])
         /\ s = Genesis => s.gen = 0 /\ s.epoch = 0 /\ s.tx[2] = 0
  BY GenesisTyped, CommitFacts DEF StateT, Known, Chain

\* More objects, the same history.
Grows(old, new) == \A r \in Replicas, g \in Gens : old[r][g] # Absent => new[r][g] # Absent

LEMMA ClosedStays ==
  ASSUME NEW sn, NEW sn2, NEW k \in Nat, Grows(sn, sn2), Closed(sn, k)
  PROVE  Closed(sn2, k)
  BY DEF Closed, Grows

LEMMA ClosedLess ==
  ASSUME NEW sn, NEW k \in Nat, NEW l \in Nat, l <= k, Closed(sn, k)
  PROVE  Closed(sn, l)
  BY ConstantTypes DEF Closed

LEMMA CoversLater ==
  ASSUME NEW cs, NEW t, NEW x \in Nat, NEW y \in Nat, x <= y, Covers(cs, t, x)
  PROVE  Covers(cs, t, y)
  BY ConstantTypes DEF Covers

LEMMA SoundGrows ==
  ASSUME NEW i, NEW p \in InstT, NEW cs, NEW cs2, NEW sn, NEW sn2, NEW h, NEW t,
         Grows(cs, cs2), Grows(sn, sn2), Sound(i, p, cs, sn, h, t)
  PROVE  Sound(i, p, cs2, sn2, h, t)
  BY ClosedStays DEF Covers, Grows, Replicas, Sound, InstT

Acknowledged(d, h, t) == \E g \in Gens : g <= t /\ d = Digest(h[g])

\* A step of instance i that adds objects of the history, or none.
LEMMA GrowStep ==
  ASSUME Inv, NEW i \in Instances, NEW rec \in InstT, Put(i, rec),
         commits' \in [Replicas -> [Gens -> CommitT \union {Absent}]],
         snaps' \in [Replicas -> [Gens -> StateT \union {Absent}]],
         Grows(commits, commits'), Grows(snaps, snaps'),
         Objects(commits', hist, top), Snapshots(snaps', hist, top),
         UNCHANGED <<hist, top, damaged>>,
         \A d \in acked' : d \in acked \/ Acknowledged(d, hist, top),
         Sound(i, rec, commits', snaps', hist, top)
  PROVE  Inv'
  BY SoundGrows, ConstantTypes, ClosedStays DEF Put, Inv, TypeOK, Pruned, Grows, Replicas,
     Acknowledged

\* The same when no object changes.
LEMMA InstStep ==
  ASSUME Inv, NEW i \in Instances, NEW rec \in InstT, Put(i, rec),
         UNCHANGED <<commits, snaps, hist, top, damaged>>,
         \A d \in acked' : d \in acked \/ Acknowledged(d, hist, top),
         Sound(i, rec, commits, snaps, hist, top)
  PROVE  Inv'
  BY GrowStep DEF Grows, Inv, TypeOK
-----------------------------------------------------------------------------
\* Changes of one instance's record.
LEMMA PcTyped ==
  ASSUME NEW p \in InstT, NEW x \in Pc
  PROVE  LET q == [p EXCEPT !.pc = x] IN
         /\ q \in InstT /\ q.pc = x /\ q.held = p.held /\ q.cache = p.cache /\ q.base = p.base
         /\ q.list = p.list /\ q.mut = p.mut /\ q.n = p.n /\ q.keep = p.keep
  BY DEF InstT

LEMMA KeepTyped ==
  ASSUME NEW p \in InstT, NEW x \in Nat
  PROVE  LET q == [p EXCEPT !.keep = x] IN
         /\ q \in InstT /\ q.pc = p.pc /\ q.held = p.held /\ q.cache = p.cache /\ q.base = p.base
         /\ q.list = p.list /\ q.mut = p.mut /\ q.n = p.n /\ q.keep = x
  BY DEF InstT

LEMMA CacheTyped ==
  ASSUME NEW p \in InstT, NEW s \in StateT
  PROVE  LET q == [p EXCEPT !.cache = s] IN
         /\ q \in InstT /\ q.pc = p.pc /\ q.held = p.held /\ q.cache = s /\ q.base = p.base
         /\ q.list = p.list /\ q.mut = p.mut /\ q.n = p.n /\ q.keep = p.keep
  BY DEF InstT

LEMMA BaseTyped ==
  ASSUME NEW p \in InstT, NEW s \in StateT
  PROVE  LET q == [p EXCEPT !.base = s] IN
         /\ q \in InstT /\ q.pc = p.pc /\ q.held = p.held /\ q.cache = p.cache /\ q.base = s
         /\ q.list = p.list /\ q.mut = p.mut /\ q.n = p.n /\ q.keep = p.keep
  BY DEF InstT

LEMMA ListTyped ==
  ASSUME NEW p \in InstT, NEW l \in SUBSET Gens
  PROVE  LET q == [p EXCEPT !.list = l] IN
         /\ q \in InstT /\ q.pc = p.pc /\ q.held = p.held /\ q.cache = p.cache /\ q.base = p.base
         /\ q.list = l /\ q.mut = p.mut /\ q.n = p.n /\ q.keep = p.keep
  BY DEF InstT

LEMMA MutTyped ==
  ASSUME NEW p \in InstT, NEW m \in MutT
  PROVE  LET q == [p EXCEPT !.mut = m] IN
         /\ q \in InstT /\ q.pc = p.pc /\ q.held = p.held /\ q.cache = p.cache /\ q.base = p.base
         /\ q.list = p.list /\ q.mut = m /\ q.n = p.n /\ q.keep = p.keep
  BY DEF InstT

LEMMA HeldTyped ==
  ASSUME NEW p \in InstT, NEW x \in Nat
  PROVE  LET q == [p EXCEPT !.held = x] IN
         /\ q \in InstT /\ q.pc = p.pc /\ q.held = x /\ q.cache = p.cache /\ q.base = p.base
         /\ q.list = p.list /\ q.mut = p.mut /\ q.n = p.n /\ q.keep = p.keep
  BY DEF InstT

LEMMA NTyped ==
  ASSUME NEW p \in InstT, NEW x \in Nat
  PROVE  LET q == [p EXCEPT !.n = x] IN
         /\ q \in InstT /\ q.pc = p.pc /\ q.held = p.held /\ q.cache = p.cache /\ q.base = p.base
         /\ q.list = p.list /\ q.mut = p.mut /\ q.n = x /\ q.keep = p.keep
  BY DEF InstT

LEMMA FailedTyped ==
  ASSUME NEW p \in InstT
  PROVE  LET q == Failed(p) IN
         /\ q \in InstT /\ q.pc \in {"new", "idle"} /\ q.held = p.held /\ q.cache = p.cache
         /\ q.base = Genesis /\ q.keep = p.keep
  <1> DEFINE x == IF p.held = 0 THEN "new" ELSE "idle"
             q1 == [p EXCEPT !.pc = x]
             q2 == [q1 EXCEPT !.base = Genesis]
             q3 == [q2 EXCEPT !.list = {}]
  <1>0. Failed(p) = [q3 EXCEPT !.mut = NoMutation]
    BY DEF Failed
  <1>1. x \in Pc /\ x \in {"new", "idle"}
    BY DEF Pc
  <1> HIDE DEF x
  <1>2. q1 \in InstT /\ q1.pc = x /\ q1.held = p.held /\ q1.cache = p.cache /\ q1.keep = p.keep
    BY <1>1, PcTyped
  <1> HIDE DEF q1
  <1>3. /\ q2 \in InstT /\ q2.pc = x /\ q2.held = p.held /\ q2.cache = p.cache /\ q2.keep = p.keep
        /\ q2.base = Genesis
    BY <1>2, BaseTyped, GenesisTyped
  <1> HIDE DEF q2
  <1>4. /\ q3 \in InstT /\ q3.pc = x /\ q3.held = p.held /\ q3.cache = p.cache /\ q3.keep = p.keep
        /\ q3.base = Genesis
    BY <1>3, ListTyped
  <1> HIDE DEF q3
  <1> QED BY <1>0, <1>1, <1>4, MutTyped, GenesisTyped

LEMMA FailedSound ==
  ASSUME NEW i, NEW p \in InstT, NEW cs, NEW sn, NEW h, NEW t, Sound(i, p, cs, sn, h, t)
  PROVE  Failed(p) \in InstT /\ Sound(i, Failed(p), cs, sn, h, t)
  BY FailedTyped DEF Known, Sound, Busy, Putting

LEMMA Failing ==
  ASSUME Inv, NEW i \in Instances, Put(i, Failed(inst[i])),
         UNCHANGED <<commits, snaps, hist, top, damaged, acked>>
  PROVE  Inv'
  BY FailedSound, InstStep DEF Inv, TypeOK
-----------------------------------------------------------------------------
\* One lemma per action.
LEMMA BeginInv ==
  ASSUME Inv, NEW i \in Instances, Begin(i)
  PROVE  Inv'
  <1> DEFINE p == inst[i]
             m == [tx |-> <<i, p.n + 1>>, epoch |-> 0, claim |-> p.held = 0]
             q1 == [p EXCEPT !.n = p.n + 1]
             q2 == [q1 EXCEPT !.pc = "load"]
             q == [q2 EXCEPT !.mut = m]
  <1>1. p \in InstT /\ Sound(i, p, commits, snaps, hist, top) /\ p.pc \in {"new", "idle"}
    BY DEF Inv, TypeOK, Begin
  <1>2. p.n \in Nat /\ p.n + 1 \in Nat /\ p.n + 1 # 0
    BY <1>1 DEF InstT
  <1>3. m \in MutT /\ m.tx[1] = i /\ m.tx[2] # 0 /\ (m.claim <=> p.held = 0)
    BY <1>2, ZenonT(60) DEF MutT, Tx
  <1>4. Put(i, q) /\ UNCHANGED <<commits, snaps, hist, top, damaged, acked>>
    BY DEF Begin, Put
  <1>5. q1 \in InstT /\ q1.cache = p.cache /\ q1.base = p.base /\ q1.held = p.held /\ q1.keep = p.keep
    BY <1>1, <1>2, NTyped
  <1> HIDE DEF p, m, q1
  <1>6. /\ q2 \in InstT /\ q2.cache = p.cache /\ q2.base = p.base /\ q2.held = p.held
        /\ q2.keep = p.keep /\ q2.pc = "load"
    BY <1>5, PcTyped, ZenonT(60) DEF Pc
  <1> HIDE DEF q2
  <1>7. /\ q \in InstT /\ q.cache = p.cache /\ q.base = p.base /\ q.held = p.held
        /\ q.keep = p.keep /\ q.pc = "load" /\ q.mut = m
    BY <1>3, <1>6, MutTyped
  <1> HIDE DEF q
  <1>8. Sound(i, q, commits, snaps, hist, top)
    BY <1>1, <1>3, <1>7 DEF Sound, Busy, Putting
  <1> QED BY <1>4, <1>7, <1>8, InstStep

LEMMA LoadCachedInv ==
  ASSUME Inv, NEW i \in Instances, LoadCached(i)
  PROVE  Inv'
  <1> DEFINE p == inst[i]
             q == [p EXCEPT !.pc = "check"]
  <1>1. p \in InstT /\ Sound(i, p, commits, snaps, hist, top) /\ p.pc = "load" /\ p.cache # Genesis
    BY DEF Inv, TypeOK, LoadCached, At
  <1>2. Put(i, q) /\ UNCHANGED <<commits, snaps, hist, top, damaged, acked>>
    BY DEF LoadCached
  <1> HIDE DEF p
  <1>3. /\ q \in InstT /\ q.pc = "check" /\ q.held = p.held /\ q.cache = p.cache /\ q.base = p.base
        /\ q.mut = p.mut /\ q.keep = p.keep
    BY <1>1, PcTyped, ZenonT(60) DEF Pc
  <1> HIDE DEF q
  <1>4. Sound(i, q, commits, snaps, hist, top)
    BY <1>1, <1>3 DEF Sound, Busy, Putting
  <1> QED BY <1>2, <1>3, <1>4, InstStep

LEMMA RepairFailsInv ==
  ASSUME Inv, NEW i \in Instances, RepairFails(i)
  PROVE  Inv'
  BY Failing DEF RepairFails

LEMMA EpochTakenInv ==
  ASSUME Inv, NEW i \in Instances, EpochTaken(i)
  PROVE  Inv'
  BY Failing DEF EpochTaken

\* A process that is gone relies on nothing.
LEMMA Gone ==
  ASSUME Inv, NEW i \in Instances, NEW x \in {"fenced", "dead"},
         Put(i, [Started EXCEPT !.pc = x]),
         UNCHANGED <<commits, snaps, hist, top, damaged, acked>>
  PROVE  Inv'
  <1> DEFINE q == [Started EXCEPT !.pc = x]
  <1>1. /\ q \in InstT /\ q.pc = x /\ q.held = 0 /\ q.cache = Genesis /\ q.base = Genesis
        /\ q.keep = 0
    <2>1. x \in Pc
      BY DEF Pc
    <2> QED BY <2>1, StartedTyped, PcTyped
  <1> HIDE DEF q
  <1>2. Sound(i, q, commits, snaps, hist, top)
    BY <1>1 DEF Sound, Known, Busy, Putting
  <1>3. Put(i, q) /\ \A d \in acked' : d \in acked
    BY DEF q
  <1> QED BY <1>1, <1>2, <1>3, InstStep

LEMMA FenceInv ==
  ASSUME Inv, NEW i \in Instances, Fence(i)
  PROVE  Inv'
  BY Gone DEF Fence

LEMMA DieInv ==
  ASSUME Inv, NEW i \in Instances, Die(i)
  PROVE  Inv'
  BY Gone DEF Die

LEMMA LoadedInv ==
  ASSUME Inv, NEW i \in Instances, Loaded(i)
  PROVE  Inv'
  <1> DEFINE p == inst[i]
             q1 == [p EXCEPT !.cache = p.base]
             q2 == [q1 EXCEPT !.base = Genesis]
             q == [q2 EXCEPT !.pc = "check"]
  <1>1. /\ p \in InstT /\ p.base \in StateT
        /\ Sound(i, p, commits, snaps, hist, top) /\ p.pc = "read"
    BY DEF Inv, TypeOK, Loaded, At, InstT
  <1>2. Put(i, q) /\ UNCHANGED <<commits, snaps, hist, top, damaged, acked>>
    BY DEF Loaded, Put
  <1> HIDE DEF p
  <1>3. q1 \in InstT /\ q1.cache = p.base /\ q1.held = p.held /\ q1.keep = p.keep /\ q1.mut = p.mut
    BY <1>1, CacheTyped
  <1> HIDE DEF q1
  <1>4. /\ q2 \in InstT /\ q2.cache = p.base /\ q2.held = p.held /\ q2.keep = p.keep
        /\ q2.mut = p.mut /\ q2.base = Genesis
    BY <1>3, BaseTyped, GenesisTyped
  <1> HIDE DEF q2
  <1>5. /\ q \in InstT /\ q.cache = p.base /\ q.held = p.held /\ q.keep = p.keep
        /\ q.mut = p.mut /\ q.base = Genesis /\ q.pc = "check"
    BY <1>4, PcTyped, ZenonT(60) DEF Pc
  <1> HIDE DEF q
  <1>6. Known(Genesis, hist, top)
    BY DEF Known
  <1>7. Sound(i, q, commits, snaps, hist, top)
    BY <1>1, <1>5, <1>6 DEF Sound, Busy, Putting
  <1> QED BY <1>2, <1>5, <1>7, InstStep
LEMMA AttemptInv ==
  ASSUME Inv, NEW i \in Instances, Attempt(i)
  PROVE  Inv'
  <1> DEFINE p == inst[i]
             m == [p.mut EXCEPT !.epoch = Asked(p)]
             q1 == [p EXCEPT !.pc = "put_a"]
             q == [q1 EXCEPT !.mut = m]
  <1>1. /\ p \in InstT /\ p.mut \in MutT /\ p.cache \in StateT
        /\ Sound(i, p, commits, snaps, hist, top) /\ p.pc = "check"
    BY DEF Inv, TypeOK, Attempt, At, InstT
  <1>2. ~FencedBy(p) /\ Asked(p) = NextEpoch(p) /\ p.cache.gen < MaxGen
    BY DEF Attempt
  <1>3. Put(i, q) /\ UNCHANGED <<commits, snaps, hist, top, damaged, acked>>
    BY <1>1 DEF InstT, MutT, Attempt
  <1>4. Asked(p) \in Nat
    BY <1>1, <1>2 DEF NextEpoch, StateT, MutT
  <1>5. m \in MutT /\ m.tx = p.mut.tx /\ m.claim = p.mut.claim /\ m.epoch = Asked(p)
    BY <1>1, <1>4 DEF MutT
  <1> HIDE DEF p, m
  <1>6. /\ q1 \in InstT /\ q1.cache = p.cache /\ q1.base = p.base /\ q1.held = p.held
        /\ q1.keep = p.keep /\ q1.pc = "put_a"
    BY <1>1, PcTyped, ZenonT(60) DEF Pc
  <1> HIDE DEF q1
  <1>7. /\ q \in InstT /\ q.cache = p.cache /\ q.base = p.base /\ q.held = p.held
        /\ q.keep = p.keep /\ q.pc = "put_a" /\ q.mut = m
    BY <1>5, <1>6, MutTyped
  <1> HIDE DEF q
  <1>8. Asked(q) = NextEpoch(q) /\ ~FencedBy(q)
    BY <1>2, <1>5, <1>7 DEF Asked, NextEpoch, FencedBy
  <1>9. Sound(i, q, commits, snaps, hist, top)
    BY <1>1, <1>2, <1>5, <1>7, <1>8 DEF Sound, Busy, Putting
  <1> QED BY <1>3, <1>7, <1>9, InstStep

\* Dropping the cached state.
LEMMA Dropped ==
  ASSUME NEW i, NEW p \in InstT, NEW cs, NEW sn, NEW h, NEW t, Sound(i, p, cs, sn, h, t),
         p.pc = "put_a"
  PROVE  LET q == [p EXCEPT !.pc = "load", !.cache = Genesis] IN
         q \in InstT /\ Sound(i, q, cs, sn, h, t)
  <1> DEFINE q1 == [p EXCEPT !.pc = "load"]
             q == [q1 EXCEPT !.cache = Genesis]
  <1>1. /\ q1 \in InstT /\ q1.base = p.base /\ q1.held = p.held
        /\ q1.keep = p.keep /\ q1.pc = "load" /\ q1.mut = p.mut
    BY PcTyped, ZenonT(60) DEF Pc
  <1>2. q = [p EXCEPT !.pc = "load", !.cache = Genesis]
    OBVIOUS
  <1> HIDE DEF q1
  <1>3. /\ q \in InstT /\ q.cache = Genesis /\ q.base = p.base /\ q.held = p.held
        /\ q.keep = p.keep /\ q.pc = "load" /\ q.mut = p.mut
    BY <1>1, CacheTyped, GenesisTyped
  <1> HIDE DEF q
  <1>4. Known(Genesis, h, t)
    BY DEF Known
  <1>5. Sound(i, q, cs, sn, h, t)
    BY <1>3, <1>4 DEF Sound, Busy, Putting
  <1> QED BY <1>2, <1>3, <1>5

LEMMA PutAExistsInv ==
  ASSUME Inv, NEW i \in Instances, PutAExists(i)
  PROVE  Inv'
  BY Dropped, InstStep, ZenonT(60) DEF Inv, TypeOK, PutAExists, At

LEMMA PutSnapshotFailsInv ==
  ASSUME Inv, NEW i \in Instances, PutSnapshotFails(i)
  PROVE  Inv'
  <1> DEFINE p == inst[i]
             q == [p EXCEPT !.pc = "idle"]
  <1>1. p \in InstT /\ Sound(i, p, commits, snaps, hist, top) /\ p.pc \in {"snap_a", "snap_b"}
    BY DEF Inv, TypeOK, PutSnapshotFails
  <1>2. Put(i, q) /\ UNCHANGED <<commits, snaps, hist, top, damaged, acked>>
    BY DEF PutSnapshotFails
  <1> HIDE DEF p
  <1>3. /\ q \in InstT /\ q.pc = "idle" /\ q.held = p.held /\ q.cache = p.cache /\ q.base = p.base
        /\ q.mut = p.mut /\ q.keep = p.keep
    BY <1>1, PcTyped, ZenonT(60) DEF Pc
  <1> HIDE DEF q
  <1>4. Sound(i, q, commits, snaps, hist, top)
    BY <1>1, <1>3 DEF Sound, Busy, Putting
  <1> QED BY <1>2, <1>3, <1>4, InstStep

\* A change of what the instance is pruning.
LEMMA Keeping ==
  ASSUME Inv, NEW i \in Instances, NEW x \in Nat, x # 0 => Closed(snaps, x),
         Put(i, [inst[i] EXCEPT !.keep = x]),
         UNCHANGED <<commits, snaps, hist, top, damaged, acked>>
  PROVE  Inv'
  <1> DEFINE p == inst[i]
             q == [p EXCEPT !.keep = x]
  <1>1. p \in InstT /\ Sound(i, p, commits, snaps, hist, top)
    BY DEF Inv, TypeOK
  <1>2. Put(i, q) /\ UNCHANGED <<commits, snaps, hist, top, damaged, acked>>
    OBVIOUS
  <1> HIDE DEF p
  <1>3. /\ q \in InstT /\ q.pc = p.pc /\ q.held = p.held /\ q.cache = p.cache /\ q.base = p.base
        /\ q.mut = p.mut /\ q.keep = x
    BY <1>1, KeepTyped
  <1> HIDE DEF q
  <1>4. Asked(q) = Asked(p) /\ NextEpoch(q) = NextEpoch(p) /\ FencedBy(q) = FencedBy(p)
        /\ Sealed(q) = Sealed(p)
    BY <1>3 DEF Asked, NextEpoch, FencedBy, Sealed
  <1>5. Sound(i, q, commits, snaps, hist, top)
    BY <1>1, <1>3, <1>4, ZenonT(60) DEF Sound
  <1> QED BY <1>2, <1>3, <1>5, InstStep

LEMMA PruneBeginInv ==
  ASSUME Inv, NEW i \in Instances, PruneBegin(i)
  PROVE  Inv'
  BY ConstantTypes, Keeping DEF PruneBegin, Keeps, Intact, Replicas, Closed

LEMMA PruneEndInv ==
  ASSUME Inv, NEW i \in Instances, PruneEnd(i)
  PROVE  Inv'
  BY Keeping DEF PruneEnd

\* A claim that succeeded holds the epoch it wrote.
LEMMA SucceededTyped ==
  ASSUME NEW p \in InstT
  PROVE  LET q == Succeeded(p) IN
         /\ q \in InstT /\ q.pc = "idle" /\ q.cache = p.cache /\ q.base = p.base /\ q.keep = p.keep
         /\ q.held = IF p.mut.claim THEN p.cache.epoch ELSE p.held
  <1> DEFINE e == IF p.mut.claim THEN p.cache.epoch ELSE p.held
             q1 == [p EXCEPT !.pc = "idle"]
             q2 == [q1 EXCEPT !.held = e]
  <1>0. Succeeded(p) = [q2 EXCEPT !.mut = NoMutation]
    BY DEF Succeeded, InstT
  <1>1. e \in Nat
    BY DEF InstT, StateT
  <1> HIDE DEF e
  <1>2. /\ q1 \in InstT /\ q1.pc = "idle" /\ q1.cache = p.cache /\ q1.base = p.base
        /\ q1.keep = p.keep
    BY PcTyped, ZenonT(60) DEF Pc
  <1> HIDE DEF q1
  <1>3. /\ q2 \in InstT /\ q2.pc = "idle" /\ q2.cache = p.cache /\ q2.base = p.base
        /\ q2.keep = p.keep /\ q2.held = e
    BY <1>1, <1>2, HeldTyped
  <1> HIDE DEF q2
  <1>4. LET q == [q2 EXCEPT !.mut = NoMutation] IN
         /\ q \in InstT /\ q.pc = "idle" /\ q.cache = p.cache /\ q.base = p.base /\ q.keep = p.keep
         /\ q.held = e
    BY <1>3, MutTyped, GenesisTyped
  <1> QED BY <1>0, <1>4 DEF e

LEMMA AlreadyDoneInv ==
  ASSUME Inv, NEW i \in Instances, AlreadyDone(i)
  PROVE  Inv'
  <1> DEFINE p == inst[i]
             q == Succeeded(p)
  <1>1. /\ p \in InstT /\ p.cache \in StateT
        /\ Sound(i, p, commits, snaps, hist, top) /\ p.pc = "check" /\ p.cache.tx = p.mut.tx
        /\ Chain(hist, top) /\ top \in Nat
    BY DEF Inv, TypeOK, AlreadyDone, At, InstT
  <1>2. /\ Put(i, q) /\ UNCHANGED <<commits, snaps, hist, top, damaged>>
        /\ acked' = acked \union {p.cache.digest}
    BY DEF AlreadyDone
  <1> HIDE DEF p
  <1>3. Known(p.cache, hist, top) /\ p.mut.tx[1] = i /\ p.mut.tx[2] # 0
    BY <1>1 DEF Sound, Busy
  <1>4. p.cache # Genesis
    BY <1>1, <1>3, KnownFacts
  <1>5. /\ p.cache.gen \in Gens /\ p.cache.gen <= top /\ p.cache.epoch = hist[p.cache.gen].epoch
        /\ p.cache.tx = hist[p.cache.gen].tx /\ p.cache.digest = Digest(hist[p.cache.gen])
    BY <1>1, <1>3, <1>4, KnownFacts
  <1>6. Owns(i, p.cache.epoch, hist, top) /\ Acknowledged(p.cache.digest, hist, top)
    BY <1>1, <1>3, <1>5 DEF Owns, Acknowledged
  <1>7. /\ q \in InstT /\ q.pc = "idle" /\ q.cache = p.cache /\ q.base = p.base /\ q.keep = p.keep
        /\ q.held = IF p.mut.claim THEN p.cache.epoch ELSE p.held
    BY <1>1, SucceededTyped
  <1> HIDE DEF q
  <1>8. Sound(i, q, commits, snaps, hist, top)
    BY <1>1, <1>4, <1>6, <1>7 DEF Sound, Busy, Putting
  <1> QED BY <1>2, <1>6, <1>7, <1>8, InstStep
-----------------------------------------------------------------------------
\* Recreating a missing replica changes nothing the history does not say.
LEMMA RepairedCommits ==
  ASSUME Inv, NEW g \in Gens, Either(commits, g) # Absent
  PROVE  /\ Repaired(commits, g) \in [Replicas -> [Gens -> CommitT \union {Absent}]]
         /\ Grows(commits, Repaired(commits, g)) /\ Objects(Repaired(commits, g), hist, top)
         /\ g <= top /\ Either(commits, g) = hist[g] /\ hist[g] \in CommitT
  BY DEF Inv, TypeOK, Objects, Either, Replicas, Chain, Repaired, Grows

LEMMA RepairedSnapshots ==
  ASSUME Inv, NEW g \in SnapshotGens
  PROVE  /\ Repaired(snaps, g) \in [Replicas -> [Gens -> StateT \union {Absent}]]
         /\ Grows(snaps, Repaired(snaps, g)) /\ Snapshots(Repaired(snaps, g), hist, top)
         /\ g \in Gens /\ g <= top /\ Either(snaps, g) = Applied(hist[g]) /\ hist[g] \in CommitT
  BY CommitFacts DEF Inv, TypeOK, SnapshotGens, Either, Replicas, Snapshots, Chain, Repaired,
     Grows

\* A pruned commit is older than some snapshot that verifies.
LEMMA ReadableAfter ==
  ASSUME Inv, NEW g \in Gens, g <= top, commits["a"][g] = Absent
  PROVE  \E h \in Readable : g < h
  BY ConstantTypes DEF Inv, Pruned, Closed, SnapshotGens, Replicas, Readable

LEMMA NewestCovers ==
  ASSUME Inv, NEW b \in Nat, \A h \in Readable : h <= b
  PROVE  Covers(commits, top, b)
  BY ReadableAfter, ConstantTypes DEF Covers, Readable, SnapshotGens

LEMMA LoadInv ==
  ASSUME Inv, NEW i \in Instances, Load(i)
  PROVE  Inv'
  <1> DEFINE p == inst[i]
             listed(b) == {g \in Gens : g > b.gen /\ \E r \in Replicas : commits[r][g] # Absent}
             q1(b) == [p EXCEPT !.base = b]
             q2(b) == [q1(b) EXCEPT !.list = listed(b)]
             q(b) == [q2(b) EXCEPT !.pc = "read"]
  <1>1. /\ p \in InstT /\ Sound(i, p, commits, snaps, hist, top) /\ p.pc = "load"
        /\ p.cache = Genesis
    BY DEF Inv, TypeOK, Load, At
  <1>2. UNCHANGED <<commits, hist, top, damaged, acked>>
    BY DEF Load
  <1>3. ASSUME NEW b \in StateT, NEW sn, Known(b, hist, top), Covers(commits, top, b.gen),
               Grows(snaps, sn)
        PROVE  q(b) \in InstT /\ Sound(i, q(b), commits, sn, hist, top)
    <2>0. listed(b) \in SUBSET Gens
      OBVIOUS
    <2> HIDE DEF p, listed
    <2>1. /\ q1(b) \in InstT /\ q1(b).base = b /\ q1(b).cache = p.cache /\ q1(b).held = p.held
          /\ q1(b).keep = p.keep /\ q1(b).mut = p.mut
      BY <1>1, BaseTyped
    <2> HIDE DEF q1
    <2>2. /\ q2(b) \in InstT /\ q2(b).base = b /\ q2(b).cache = p.cache /\ q2(b).held = p.held
          /\ q2(b).keep = p.keep /\ q2(b).mut = p.mut
      BY <2>0, <2>1, ListTyped
    <2> HIDE DEF q2
    <2>3. /\ q(b) \in InstT /\ q(b).base = b /\ q(b).cache = p.cache /\ q(b).held = p.held
          /\ q(b).keep = p.keep /\ q(b).mut = p.mut /\ q(b).pc = "read"
      BY <2>2, PcTyped, ZenonT(60) DEF Pc
    <2> HIDE DEF q
    <2>4. Sound(i, q(b), commits, snaps, hist, top)
      BY <1>1, <1>3, <2>3 DEF Sound, Busy, Putting
    <2>5. Grows(commits, commits)
      BY DEF Grows
    <2> QED BY <1>3, <2>3, <2>4, <2>5, SoundGrows
  <1>4. ASSUME NEW b, StartsFrom(i, b) PROVE Put(i, q(b))
    BY <1>4 DEF StartsFrom, Put
  <1>5. CASE Readable = {} /\ StartsFrom(i, Genesis) /\ UNCHANGED snaps
    <2>1. Covers(commits, top, 0)
      BY <1>5, NewestCovers
    <2>2. Known(Genesis, hist, top) /\ Grows(snaps, snaps)
      BY DEF Known, Grows
    <2>3. q(Genesis) \in InstT /\ Sound(i, q(Genesis), commits, snaps, hist, top)
      BY <1>3, <2>1, <2>2, GenesisTyped, ZenonT(60)
    <2>4. Put(i, q(Genesis))
      BY <1>4, <1>5, ZenonT(60)
    <2> HIDE DEF q
    <2> QED BY <1>2, <1>5, <2>3, <2>4, InstStep
  <1>6. CASE \E g \in Readable : /\ \A h \in Readable : h <= g
                                 /\ StartsFrom(i, Either(snaps, g))
                                 /\ snaps' = Repaired(snaps, g)
    <2>1. PICK g \in Readable : /\ \A h \in Readable : h <= g
                                /\ StartsFrom(i, Either(snaps, g))
                                /\ snaps' = Repaired(snaps, g)
      BY <1>6
    <2>2. g \in SnapshotGens
      BY DEF Readable
    <2> DEFINE b == Either(snaps, g)
    <2>3. /\ snaps' \in [Replicas -> [Gens -> StateT \union {Absent}]]
          /\ Grows(snaps, snaps') /\ Snapshots(snaps', hist, top)
          /\ g \in Gens /\ g <= top /\ b = Applied(hist[g]) /\ hist[g] \in CommitT
      BY <2>1, <2>2, RepairedSnapshots
    <2>4. Covers(commits, top, g)
      BY <2>1, <2>3, ConstantTypes, NewestCovers
    <2>5. hist[g].gen = g
      BY <2>3 DEF Inv, Chain
    <2>6. b \in StateT /\ b.gen = g
      BY <2>3, <2>5, CommitFacts
    <2>7. Known(b, hist, top)
      BY <2>3, <2>6 DEF Known
    <2> HIDE DEF b
    <2>8. q(b) \in InstT /\ Sound(i, q(b), commits, snaps', hist, top)
      BY <1>3, <2>3, <2>4, <2>6, <2>7, ZenonT(60)
    <2>9. Put(i, q(b))
      BY <1>4, <2>1, ZenonT(60) DEF b
    <2> HIDE DEF q
    <2>10. /\ commits' \in [Replicas -> [Gens -> CommitT \union {Absent}]]
           /\ Grows(commits, commits') /\ Objects(commits', hist, top)
      BY <1>2 DEF Inv, TypeOK, Grows
    <2> QED BY <1>2, <2>3, <2>8, <2>9, <2>10, GrowStep
  <1> QED BY <1>5, <1>6 DEF Load

LEMMA ReadCommitInv ==
  ASSUME Inv, NEW i \in Instances, ReadCommit(i)
  PROVE  Inv'
  <1> DEFINE p == inst[i]
  <1>1. /\ p \in InstT /\ p.base \in StateT /\ Sound(i, p, commits, snaps, hist, top)
        /\ p.pc = "read" /\ Known(p.base, hist, top) /\ Covers(commits, top, p.base.gen)
    BY DEF Inv, TypeOK, ReadCommit, At, InstT, Sound
  <1>2. UNCHANGED <<snaps, hist, top, damaged, acked>>
    BY DEF ReadCommit
  <1>3. CASE Put(i, Failed(p)) /\ UNCHANGED commits
    BY <1>2, <1>3, Failing
  <1>4. CASE \E g \in p.list :
               /\ g = p.base.gen + 1 /\ Either(commits, g) # Absent
               /\ commits' = Repaired(commits, g)
               /\ Put(i, [p EXCEPT !.base = Applied(Either(commits, g)), !.list = @ \ {g}])
    <2>1. PICK g \in p.list :
               /\ g = p.base.gen + 1 /\ Either(commits, g) # Absent
               /\ commits' = Repaired(commits, g)
               /\ Put(i, [p EXCEPT !.base = Applied(Either(commits, g)), !.list = @ \ {g}])
      BY <1>4, ZenonT(60)
    <2>2. g \in Gens /\ p.list \ {g} \in SUBSET Gens
      BY <1>1 DEF InstT
    <2>3. /\ commits' \in [Replicas -> [Gens -> CommitT \union {Absent}]]
          /\ Grows(commits, commits') /\ Objects(commits', hist, top)
          /\ g <= top /\ Either(commits, g) = hist[g] /\ hist[g] \in CommitT
      BY <2>1, <2>2, RepairedCommits
    <2>4. hist[g].gen = g
      BY <2>2, <2>3 DEF Inv, Chain
    <2> DEFINE b == Applied(hist[g])
               q1 == [p EXCEPT !.base = b]
               q == [q1 EXCEPT !.list = p.list \ {g}]
    <2>5. b \in StateT /\ b.gen = g
      BY <2>3, <2>4, CommitFacts
    <2>6. Known(b, hist, top)
      BY <2>2, <2>3, <2>5 DEF Known
    <2>7. Covers(commits, top, b.gen)
      BY <1>1, <2>1, <2>5, CoversLater DEF StateT
    <2>8. Put(i, q)
      BY <1>1, <2>1, <2>3, ZenonT(60) DEF Put
    <2> HIDE DEF p, b
    <2>9. /\ q1 \in InstT /\ q1.base = b /\ q1.cache = p.cache /\ q1.held = p.held
          /\ q1.keep = p.keep /\ q1.mut = p.mut /\ q1.pc = p.pc
      BY <1>1, <2>5, BaseTyped
    <2> HIDE DEF q1
    <2>10. /\ q \in InstT /\ q.base = b /\ q.cache = p.cache /\ q.held = p.held
           /\ q.keep = p.keep /\ q.mut = p.mut /\ q.pc = p.pc
      BY <2>2, <2>9, ListTyped
    <2> HIDE DEF q
    <2>11. Sound(i, q, commits, snaps, hist, top)
      BY <1>1, <2>6, <2>7, <2>10 DEF Sound, Busy, Putting
    <2>12. Grows(snaps, snaps') /\ Grows(snaps, snaps)
      BY <1>2 DEF Grows
    <2>13. /\ snaps' \in [Replicas -> [Gens -> StateT \union {Absent}]]
           /\ Snapshots(snaps', hist, top)
      BY <1>2 DEF Inv, TypeOK
    <2>14. Sound(i, q, commits', snaps', hist, top)
      BY <2>3, <2>10, <2>11, <2>12, SoundGrows
    <2> QED BY <1>2, <2>3, <2>8, <2>10, <2>12, <2>13, <2>14, GrowStep
  <1> QED BY <1>3, <1>4, ZenonT(60) DEF ReadCommit

LEMMA InspectInv ==
  ASSUME Inv, NEW i \in Instances, NEW g \in Gens, Inspect(i, g)
  PROVE  Inv'
  <1>1. /\ inst[i] \in InstT /\ Sound(i, inst[i], commits, snaps, hist, top)
        /\ inst \in [Instances -> InstT]
    BY DEF Inv, TypeOK
  <1>2. /\ commits' \in [Replicas -> [Gens -> CommitT \union {Absent}]]
        /\ Grows(commits, commits') /\ Objects(commits', hist, top)
    BY RepairedCommits DEF Inspect
  <1>3. UNCHANGED <<snaps, damaged, inst, hist, top, acked>>
    BY DEF Inspect
  <1>4. Put(i, inst[i])
    BY <1>1, <1>3 DEF Put
  <1>5. /\ snaps' \in [Replicas -> [Gens -> StateT \union {Absent}]]
        /\ Snapshots(snaps', hist, top) /\ Grows(snaps, snaps')
    BY <1>3 DEF Inv, TypeOK, Grows
  <1>6. Sound(i, inst[i], commits', snaps', hist, top)
    BY <1>1, <1>2, <1>5, SoundGrows
  <1> QED BY <1>1, <1>2, <1>3, <1>4, <1>5, <1>6, GrowStep

-----------------------------------------------------------------------------

\* The commit an instance is about to put: the successor of its cached generation,
\* under an epoch it holds or claims (journal.rs, what `put_create` is given).
LEMMA SealedFacts ==
  ASSUME NEW i, NEW p \in InstT, NEW cs, NEW sn, NEW h, NEW t \in Nat, Chain(h, t),
         Sound(i, p, cs, sn, h, t), p.pc \in Putting
  PROVE  LET c == Sealed(p) IN
         /\ c \in CommitT /\ c.gen = p.cache.gen + 1 /\ c.gen \in Gens /\ p.cache.gen \in Nat
         /\ p.cache.gen <= t /\ c.tx = p.mut.tx /\ c.tx[1] = i /\ c.claim = p.mut.claim
         /\ c.parent = p.cache.digest /\ c.epoch = NextEpoch(p) /\ p.cache.epoch \in Nat
         /\ p.held \in Nat
         /\ (p.mut.claim <=> p.held = 0) /\ p.mut.claim \in BOOLEAN
         /\ p.held # 0 => p.cache.epoch = p.held /\ Owns(i, p.held, h, t)
         /\ Known(p.cache, h, t) /\ p.cache \in StateT /\ Covers(cs, t, p.cache.gen)
  <1>1. /\ p.cache \in StateT /\ p.mut \in MutT /\ p.held \in Nat
        /\ Known(p.cache, h, t) /\ p.cache.gen < MaxGen /\ Asked(p) = NextEpoch(p) /\ ~FencedBy(p)
        /\ p.mut.tx[1] = i /\ (p.mut.claim <=> p.held = 0) /\ Covers(cs, t, p.cache.gen)
        /\ p.held # 0 => Owns(i, p.held, h, t)
    BY ZenonT(60) DEF InstT, Sound, Busy, Putting
  <1>2. p.cache.gen \in Nat /\ p.cache.epoch \in Nat /\ p.cache.gen <= t
    BY <1>1, KnownFacts
  <1>3. p.cache.gen + 1 \in Gens /\ NextEpoch(p) \in Nat
    BY <1>1, <1>2, ConstantTypes DEF NextEpoch
  <1>4. p.mut.claim \in BOOLEAN /\ p.mut.tx \in Tx /\ p.cache.digest \in DigestT
    BY <1>1 DEF MutT, StateT
  <1>5. Sealed(p) = [gen |-> p.cache.gen + 1, parent |-> p.cache.digest, tx |-> p.mut.tx,
                     epoch |-> NextEpoch(p), claim |-> p.mut.claim]
    BY <1>1 DEF Sealed
  <1>6. Sealed(p) \in CommitT
    BY <1>3, <1>4, <1>5 DEF CommitT
  <1>7. p.held # 0 => p.cache.epoch = p.held
    BY <1>1 DEF FencedBy
  <1> QED BY <1>1, <1>2, <1>3, <1>4, <1>5, <1>6, <1>7

\* The second replica's object at the generation of the commit under way.
LEMMA SecondReplica ==
  ASSUME Inv, NEW i \in Instances, inst[i].pc = "put_b",
         NEW cs, LET c == Sealed(inst[i]) IN cs = [commits EXCEPT !["b"][c.gen] = c]
  PROVE  /\ cs \in [Replicas -> [Gens -> CommitT \union {Absent}]]
         /\ Grows(commits, cs) /\ Objects(cs, hist, top)
         /\ Sealed(inst[i]).gen <= top /\ hist[Sealed(inst[i]).gen] = Sealed(inst[i])
  <1> DEFINE p == inst[i]
             c == Sealed(p)
  <1>1. /\ p \in InstT /\ Sound(i, p, commits, snaps, hist, top) /\ Chain(hist, top) /\ top \in Nat
        /\ commits \in [Replicas -> [Gens -> CommitT \union {Absent}]]
        /\ Objects(commits, hist, top)
    BY DEF Inv, TypeOK
  <1>2. p.pc \in Putting
    BY DEF Putting
  <1>3. c \in CommitT /\ c.gen = p.cache.gen + 1 /\ c.gen \in Gens /\ p.cache.gen \in Nat
    BY <1>1, <1>2, SealedFacts
  <1>4. p.cache.gen < top /\ hist[p.cache.gen + 1] = c
    BY <1>1 DEF Sound
  <1>5. c.gen <= top /\ hist[c.gen] = c /\ c # Absent
    BY <1>1, <1>3, <1>4, CommitFacts
  <1>6. cs = [commits EXCEPT !["b"][c.gen] = c]
    OBVIOUS
  <1> HIDE DEF c, p
  <1>7. /\ cs \in [Replicas -> [Gens -> CommitT \union {Absent}]]
        /\ \A r \in Replicas, g \in Gens :
             cs[r][g] = IF r = "b" /\ g = c.gen THEN c ELSE commits[r][g]
    <2>1. "b" \in Replicas /\ commits["b"] \in [Gens -> CommitT \union {Absent}]
      BY <1>1 DEF Replicas
    <2> DEFINE row == [commits["b"] EXCEPT ![c.gen] = c]
    <2>2. /\ row \in [Gens -> CommitT \union {Absent}]
          /\ \A g \in Gens : row[g] = IF g = c.gen THEN c ELSE commits["b"][g]
      BY <1>3, <2>1
    <2>3. cs = [commits EXCEPT !["b"] = row]
      BY <1>6, ZenonT(60)
    <2> HIDE DEF row
    <2> QED BY <1>1, <2>1, <2>2, <2>3, ZenonT(60)
  <1>8. Grows(commits, cs) /\ Objects(cs, hist, top)
    BY <1>1, <1>5, <1>7 DEF Grows, Objects
  <1> QED BY <1>5, <1>7, <1>8 DEF c, p

LEMMA PutBInv ==
  ASSUME Inv, NEW i \in Instances, PutB(i)
  PROVE  Inv'
  <1> DEFINE p == inst[i]
             c == Sealed(p)
             s == Applied(c)
             q1 == [p EXCEPT !.cache = s]
             q2 == Succeeded(q1)
             x == IF c.gen % Interval = 0 THEN "snap_a" ELSE "idle"
             q == [q2 EXCEPT !.pc = x]
  <1>1. /\ p \in InstT /\ Sound(i, p, commits, snaps, hist, top) /\ p.pc = "put_b"
        /\ Chain(hist, top) /\ top \in Nat
    BY DEF Inv, TypeOK, PutB, At
  <1>2. /\ Put(i, q) /\ commits' = [commits EXCEPT !["b"][c.gen] = c]
        /\ acked' = acked \union {Digest(c)} /\ UNCHANGED <<snaps, damaged, hist, top>>
    BY DEF PutB
  <1>3. /\ commits' \in [Replicas -> [Gens -> CommitT \union {Absent}]]
        /\ Grows(commits, commits') /\ Objects(commits', hist, top)
        /\ c.gen <= top /\ hist[c.gen] = c
    BY <1>1, <1>2, SecondReplica, ZenonT(60)
  <1>4. p.pc \in Putting
    BY <1>1 DEF Putting
  <1>5. /\ c \in CommitT /\ c.gen = p.cache.gen + 1 /\ c.gen \in Gens /\ p.cache.gen \in Nat
        /\ c.tx[1] = i /\ c.claim = p.mut.claim /\ Covers(commits, top, p.cache.gen)
        /\ (p.mut.claim <=> p.held = 0) /\ (p.held # 0 => Owns(i, p.held, hist, top))
    BY <1>1, <1>4, SealedFacts, ZenonT(60)
  <1>6. /\ s \in StateT /\ s # Genesis /\ s.gen = c.gen /\ s.epoch = c.epoch
        /\ s.digest = Digest(c)
    BY <1>5, CommitFacts
  <1>7. Known(s, hist, top) /\ Owns(i, s.epoch, hist, top) /\ Acknowledged(Digest(c), hist, top)
    BY <1>3, <1>5, <1>6 DEF Known, Owns, Acknowledged
  <1>8. Covers(commits, top, s.gen)
    BY <1>5, <1>6, CoversLater
  <1>9. x \in {"snap_a", "idle"} /\ x \in Pc
    BY DEF Pc
  <1> HIDE DEF p, c, s, x
  <1>10. /\ q1 \in InstT /\ q1.base = p.base /\ q1.cache = s /\ q1.held = p.held
         /\ q1.keep = p.keep /\ q1.mut = p.mut
    BY <1>1, <1>6, CacheTyped
  <1> HIDE DEF q1
  <1>11. /\ q2 \in InstT /\ q2.base = p.base /\ q2.cache = s /\ q2.keep = p.keep
         /\ q2.held = IF p.mut.claim THEN s.epoch ELSE p.held
    BY <1>10, SucceededTyped
  <1> HIDE DEF q2
  <1>12. /\ q \in InstT /\ q.base = p.base /\ q.cache = s /\ q.keep = p.keep /\ q.pc = x
         /\ q.held = IF p.mut.claim THEN s.epoch ELSE p.held
    BY <1>9, <1>11, PcTyped
  <1> HIDE DEF q
  <1>13. q.held # 0 => Owns(i, q.held, hist, top)
    BY <1>5, <1>7, <1>12
  <1>14. Known(p.base, hist, top) /\ (p.keep # 0 => Closed(snaps, p.keep))
    BY <1>1 DEF Sound
  <1>15. Sound(i, q, commits, snaps, hist, top)
    BY <1>6, <1>7, <1>8, <1>9, <1>12, <1>13, <1>14, ZenonT(60) DEF Sound, Busy, Putting
  <1>16. /\ snaps' \in [Replicas -> [Gens -> StateT \union {Absent}]]
         /\ Snapshots(snaps', hist, top) /\ Grows(snaps, snaps')
    BY <1>2 DEF Inv, TypeOK, Grows
  <1>17. Sound(i, q, commits', snaps', hist, top)
    BY <1>3, <1>12, <1>15, <1>16, SoundGrows
  <1>18. \A d \in acked' : d \in acked \/ Acknowledged(d, hist, top)
    BY <1>2, <1>7
  <1> QED BY <1>2, <1>3, <1>12, <1>16, <1>17, <1>18, GrowStep, ZenonT(60)

LEMMA PutBFailsInv ==
  ASSUME Inv, NEW i \in Instances, PutBFails(i)
  PROVE  Inv'
  <1> DEFINE p == inst[i]
             c == Sealed(p)
             q == Failed(p)
  <1>1. /\ p \in InstT /\ Sound(i, p, commits, snaps, hist, top) /\ p.pc = "put_b"
        /\ Chain(hist, top) /\ top \in Nat
        /\ commits \in [Replicas -> [Gens -> CommitT \union {Absent}]]
    BY DEF Inv, TypeOK, PutBFails, At
  <1>2. Put(i, q) /\ UNCHANGED <<snaps, damaged, hist, top, acked>>
    BY DEF PutBFails
  <1>3. CASE commits' = commits
    BY <1>2, <1>3, Failing
  <1>4. CASE commits' # commits
    <2>1. commits' = [commits EXCEPT !["b"][c.gen] = IF commits["b"][c.gen] = Absent THEN c
                                                     ELSE commits["b"][c.gen]]
      BY <1>4 DEF PutBFails
    <2>2. p.pc \in Putting
      BY <1>1 DEF Putting
    <2>3. c.gen \in Gens
      BY <1>1, <2>2, SealedFacts
    <2> HIDE DEF c, p
    <2>4. commits["b"][c.gen] = Absent
      BY <2>1, <1>1, <2>3, <1>4 DEF Replicas
    <2>5. commits' = [commits EXCEPT !["b"][c.gen] = c]
      BY <2>1, <2>4
    <2>6. /\ commits' \in [Replicas -> [Gens -> CommitT \union {Absent}]]
          /\ Grows(commits, commits') /\ Objects(commits', hist, top)
      BY <1>1, <2>5, SecondReplica, ZenonT(60) DEF c, p
    <2>7. /\ snaps' \in [Replicas -> [Gens -> StateT \union {Absent}]]
          /\ Snapshots(snaps', hist, top) /\ Grows(snaps, snaps')
      BY <1>2 DEF Inv, TypeOK, Grows
    <2>8. q \in InstT /\ Sound(i, q, commits, snaps, hist, top)
      BY <1>1, FailedSound
    <2> HIDE DEF q
    <2>9. Sound(i, q, commits', snaps', hist, top)
      BY <2>6, <2>7, <2>8, SoundGrows
    <2> QED BY <1>2, <2>6, <2>7, <2>8, <2>9, GrowStep
  <1> QED BY <1>3, <1>4

LEMMA PutSnapshotInv ==
  ASSUME Inv, NEW i \in Instances, PutSnapshot(i)
  PROVE  Inv'
  <1> DEFINE p == inst[i]
             r0 == IF p.pc = "snap_a" THEN "a" ELSE "b"
             g0 == p.cache.gen
             x == IF r0 = "a" /\ snaps[r0][g0] \in {Absent, p.cache} THEN "snap_b" ELSE "idle"
             q == [p EXCEPT !.pc = x]
  <1>1. /\ p \in InstT /\ p.cache \in StateT /\ Sound(i, p, commits, snaps, hist, top)
        /\ p.pc \in {"snap_a", "snap_b"} /\ Chain(hist, top) /\ top \in Nat
        /\ snaps \in [Replicas -> [Gens -> StateT \union {Absent}]]
        /\ Snapshots(snaps, hist, top)
    BY DEF Inv, TypeOK, PutSnapshot, InstT
  <1>2. /\ Put(i, q) /\ UNCHANGED <<commits, damaged, hist, top, acked>>
        /\ snaps' = [snaps EXCEPT ![r0][g0] = IF snaps[r0][g0] = Absent THEN p.cache
                                              ELSE snaps[r0][g0]]
    BY ZenonT(60) DEF PutSnapshot
  <1>3. r0 \in Replicas /\ x \in {"snap_b", "idle"} /\ x \in Pc
    BY DEF Replicas, Pc
  <1> HIDE DEF p, r0, x
  <1>4. p.cache # Genesis /\ Known(p.cache, hist, top)
    BY <1>1 DEF Sound
  <1>5. g0 \in Gens /\ g0 <= top /\ p.cache = Applied(hist[g0])
    BY <1>1, <1>4, KnownFacts
  <1> HIDE DEF g0
  <1>6. /\ snaps' \in [Replicas -> [Gens -> StateT \union {Absent}]]
        /\ \A r \in Replicas, g \in Gens :
             snaps'[r][g] = IF r = r0 /\ g = g0 /\ snaps[r][g] = Absent THEN p.cache ELSE snaps[r][g]
    BY <1>1, <1>2, <1>3, <1>5
  <1>7. hist[g0] \in CommitT
    BY <1>1, <1>5 DEF Chain
  <1>8. p.cache # Absent
    BY <1>5, <1>7, CommitFacts
  <1>9. Snapshots(snaps', hist, top) /\ Grows(snaps, snaps')
    BY <1>1, <1>5, <1>6, <1>8 DEF Snapshots, Grows
  <1>10. /\ commits' \in [Replicas -> [Gens -> CommitT \union {Absent}]]
         /\ Objects(commits', hist, top) /\ Grows(commits, commits')
    BY <1>2 DEF Inv, TypeOK, Grows
  <1>11. /\ q \in InstT /\ q.pc = x /\ q.held = p.held /\ q.cache = p.cache /\ q.base = p.base
         /\ q.mut = p.mut /\ q.keep = p.keep
    BY <1>1, <1>3, PcTyped
  <1> HIDE DEF q
  <1>12. Sound(i, q, commits, snaps, hist, top)
    BY <1>1, <1>3, <1>11, ZenonT(60) DEF Sound, Busy, Putting
  <1>13. Sound(i, q, commits', snaps', hist, top)
    BY <1>9, <1>10, <1>11, <1>12, SoundGrows, ZenonT(60)
  <1> QED BY <1>2, <1>6, <1>9, <1>10, <1>11, <1>13, GrowStep, ZenonT(60)
-----------------------------------------------------------------------------
\* A conditional create succeeds only at the end of the history.
LEMMA CreateExtends ==
  ASSUME Inv, NEW i \in Instances, inst[i].pc = "put_a", Create(Sealed(inst[i]))
  PROVE  LET c == Sealed(inst[i]) IN
         /\ c \in CommitT /\ c.gen = top + 1 /\ c.gen \in Gens
         /\ hist' = [hist EXCEPT ![top + 1] = c] /\ top' = top + 1
         /\ commits' \in [Replicas -> [Gens -> CommitT \union {Absent}]]
         /\ \A r \in Replicas, g \in Gens :
              commits'[r][g] = IF r = "a" /\ g = top + 1 THEN c ELSE commits[r][g]
  <1> DEFINE p == inst[i]
             c == Sealed(p)
  <1>1. /\ p \in InstT /\ Sound(i, p, commits, snaps, hist, top) /\ Chain(hist, top) /\ top \in Nat
        /\ commits \in [Replicas -> [Gens -> CommitT \union {Absent}]]
    BY DEF Inv, TypeOK
  <1>2. p.pc \in Putting
    BY DEF Putting
  <1>3. /\ c \in CommitT /\ c.gen = p.cache.gen + 1 /\ c.gen \in Gens /\ p.cache.gen \in Nat
        /\ p.cache.gen <= top /\ Covers(commits, top, p.cache.gen)
    BY <1>1, <1>2, SealedFacts, ZenonT(60)
  <1>4. /\ commits["a"][c.gen] = Absent /\ commits' = [commits EXCEPT !["a"][c.gen] = c]
        /\ c.gen = top + 1 => hist' = [hist EXCEPT ![c.gen] = c] /\ top' = c.gen
    BY DEF Create
  <1> HIDE DEF c, p
  <1>5. ~(c.gen <= top)
    BY <1>3, <1>4 DEF Covers
  <1>6. c.gen = top + 1
    BY <1>1, <1>3, <1>5
  <1> DEFINE row == [commits["a"] EXCEPT ![c.gen] = c]
  <1>7. "a" \in Replicas /\ commits["a"] \in [Gens -> CommitT \union {Absent}]
    BY <1>1 DEF Replicas
  <1>8. /\ row \in [Gens -> CommitT \union {Absent}]
        /\ \A g \in Gens : row[g] = IF g = c.gen THEN c ELSE commits["a"][g]
    BY <1>3, <1>7
  <1>9. commits' = [commits EXCEPT !["a"] = row]
    BY <1>4
  <1> HIDE DEF row
  <1>10. /\ commits' \in [Replicas -> [Gens -> CommitT \union {Absent}]]
         /\ \A r \in Replicas, g \in Gens :
              commits'[r][g] = IF r = "a" /\ g = c.gen THEN c ELSE commits[r][g]
    BY <1>1, <1>7, <1>8, <1>9
  <1>11. hist' = [hist EXCEPT ![top + 1] = c] /\ top' = top + 1
    BY <1>4, <1>6
  <1> QED BY <1>3, <1>6, <1>10, <1>11 DEF c, p

\* The new commit continues the chain, under an epoch of its own writer.
LEMMA ChainExtends ==
  ASSUME NEW i, NEW p \in InstT, NEW cs, NEW sn, NEW h, NEW t \in Nat, Chain(h, t),
         Sound(i, p, cs, sn, h, t), p.pc = "put_a", p.cache.gen = t, NEW h2,
         t + 1 \in Gens, h2[t + 1] = Sealed(p), \A g \in Gens : g <= t => h2[g] = h[g]
  PROVE  Chain(h2, t + 1)
  <1> DEFINE c == Sealed(p)
  <1>1. p.pc \in Putting
    BY DEF Putting
  <1>2. /\ c \in CommitT /\ c.gen = t + 1 /\ c.tx[1] = i /\ c.claim = p.mut.claim
        /\ c.parent = p.cache.digest /\ c.epoch = NextEpoch(p) /\ p.cache.epoch \in Nat
        /\ p.held \in Nat /\ (p.mut.claim <=> p.held = 0) /\ p.mut.claim \in BOOLEAN
        /\ p.held # 0 => p.cache.epoch = p.held /\ Owns(i, p.held, h, t)
        /\ Known(p.cache, h, t) /\ p.cache \in StateT
    BY <1>1, SealedFacts, ZenonT(60)
  <1>3. c.epoch = IF p.mut.claim THEN p.cache.epoch + 1 ELSE p.cache.epoch
    BY <1>2 DEF NextEpoch
  <1>4. h2[t + 1] = c
    OBVIOUS
  <1> HIDE DEF c
  <1>5. \A g \in Gens : g \in Nat /\ g # 0 /\ (g <= t + 1 <=> g <= t \/ g = t + 1)
    BY ConstantTypes
  <1>6. /\ t # 0 => /\ t \in Gens /\ p.cache.epoch = h[t].epoch /\ p.cache.digest = Digest(h[t])
        /\ t = 0 => p.cache.epoch = 0
    BY <1>2, <1>5, KnownFacts
  <1>7. ASSUME NEW g \in Gens, g <= t
        PROVE  /\ h[g] \in CommitT /\ h[g].gen = g /\ h[g].epoch # 0 /\ h[g].epoch \in Nat
               /\ h[g].epoch <= p.cache.epoch /\ t # 0 /\ h2[g] = h[g]
               /\ g > 1 => h[g].parent = Digest(h[g - 1]) /\ g - 1 \in Gens /\ h2[g - 1] = h[g - 1]
               /\ ~h[g].claim => g > 1 /\ h[g].epoch = h[g - 1].epoch
               /\ \A k \in Gens : k <= t /\ h[k].epoch = h[g].epoch => h[k].tx[1] = h[g].tx[1]
    BY <1>5, <1>7, ConstantTypes, <1>6 DEF Chain, CommitT
  <1>8. ~c.claim => t # 0 /\ p.held # 0
    BY <1>2, <1>5 DEF Owns
  <1>9. c.epoch \in Nat /\ c.epoch # 0 /\ p.cache.epoch <= c.epoch
    BY <1>2, <1>3, <1>6, <1>7, <1>8
  <1>10. \A k \in Gens : k <= t /\ h[k].epoch = c.epoch => h[k].tx[1] = i
    BY <1>7, <1>2, <1>3, <1>8 DEF Owns
  <1>11. c.parent = p.cache.digest /\ (t # 0 => c.parent = Digest(h2[t]) /\ h2[t] = h[t])
    BY <1>2, <1>5, <1>6
  <1>12. ~c.claim => c.epoch = h2[t].epoch /\ t + 1 > 1
    BY <1>2, <1>3, <1>5, <1>6, <1>8
  <1>13. \A g \in Gens : g <= t => /\ h2[g] = h[g] /\ h[g] \in CommitT /\ h[g].gen = g
                                  /\ h[g].epoch # 0 /\ h[g].epoch <= c.epoch
    BY <1>7, <1>2, <1>9
  <1>14. c.tx[1] = i /\ c \in CommitT /\ c.gen = t + 1
    BY <1>2, ZenonT(60)
  <1>15. ASSUME NEW g \in Gens, g <= t + 1
         PROVE  /\ h2[g] \in CommitT /\ h2[g].gen = g /\ h2[g].epoch # 0
                /\ h2[g].epoch <= h2[t + 1].epoch
                /\ g > 1 => h2[g].parent = Digest(h2[g - 1])
                /\ ~h2[g].claim => g > 1 /\ h2[g].epoch = h2[g - 1].epoch
                /\ \A k \in Gens : k <= t + 1 /\ h2[k].epoch = h2[g].epoch
                                     => h2[k].tx[1] = h2[g].tx[1]
    <2>0. \A k \in Gens : k <= t + 1 => k <= t \/ k = t + 1
      BY <1>5, ZenonT(60)
    <2>1. CASE g = t + 1
      <3>1. h2[g] = c /\ g - 1 = t
        BY <1>4, <2>1
      <3>2. \A k \in Gens : k <= t + 1 /\ h2[k].epoch = c.epoch => h2[k].tx[1] = i
        BY <1>4, <1>10, <1>13, <1>14, <2>0, ZenonT(60)
      <3>3. g > 1 => c.parent = Digest(h2[g - 1])
        BY <1>11, <2>1, <3>1
      <3>4. ~c.claim => g > 1 /\ c.epoch = h2[g - 1].epoch
        BY <1>12, <2>1, <3>1, ZenonT(60)
      <3>5. c.epoch <= c.epoch
        BY <1>9
      <3> QED BY <1>4, <1>9, <1>14, <2>1, <3>1, <3>2, <3>3, <3>4, <3>5, ZenonT(60)
    <2>2. CASE g # t + 1
      BY <1>15, <2>0, <2>2, <1>7, <1>13, <1>4, <1>10, <1>14
    <2> QED BY <2>1, <2>2
  <1> QED BY <1>15, ZenonT(60) DEF Chain

\* A longer history disturbs no instance.
LEMMA SoundExtends ==
  ASSUME NEW i, NEW p \in InstT, NEW cs, NEW cs2, NEW sn, NEW h, NEW h2, NEW t \in Nat,
         Sound(i, p, cs, sn, h, t), Grows(cs, cs2), cs2["a"][t + 1] # Absent,
         \A g \in Gens : g <= t => h2[g] = h[g], Chain(h, t)
  PROVE  Sound(i, p, cs2, sn, h2, t + 1)
  <1>1. \A g \in Gens : g \in Nat /\ g # 0 /\ (g <= t + 1 <=> g <= t \/ g = t + 1)
    BY ConstantTypes
  <1>2. \A x : Covers(cs, t, x) => Covers(cs2, t + 1, x)
    BY <1>1 DEF Covers, Grows, Replicas
  <1>3. \A s : Known(s, h, t) => Known(s, h2, t + 1)
    BY <1>1, ZenonT(60) DEF Known
  <1>4. \A e : Owns(i, e, h, t) => Owns(i, e, h2, t + 1)
    BY <1>1 DEF Owns
  <1>5. p.pc = "put_b" => p.cache.gen < t + 1 /\ h2[p.cache.gen + 1] = Sealed(p)
    <2> SUFFICES ASSUME p.pc = "put_b"
                 PROVE  p.cache.gen < t + 1 /\ h2[p.cache.gen + 1] = Sealed(p)
      OBVIOUS
    <2>1. p.cache.gen < t /\ h[p.cache.gen + 1] = Sealed(p) /\ p.pc \in Putting
      BY ZenonT(60) DEF Sound, Putting
    <2>2. p.cache.gen \in Nat /\ p.cache.gen + 1 \in Gens
      BY <2>1, SealedFacts, ZenonT(60)
    <2> QED BY <2>1, <2>2
  <1> QED BY <1>2, <1>3, <1>4, <1>5, ZenonT(60) DEF Sound

LEMMA CreateInv ==
  ASSUME Inv, NEW i \in Instances, inst[i].pc = "put_a", Create(Sealed(inst[i])),
         NEW rec \in InstT, Put(i, rec), Sound(i, rec, commits', snaps, hist', top'),
         UNCHANGED <<snaps, damaged, acked>>
  PROVE  Inv'
  <1> DEFINE c == Sealed(inst[i])
  <1>1. /\ c \in CommitT /\ c.gen = top + 1 /\ top + 1 \in Gens
        /\ hist' = [hist EXCEPT ![top + 1] = c] /\ top' = top + 1
        /\ commits' \in [Replicas -> [Gens -> CommitT \union {Absent}]]
        /\ \A r \in Replicas, g \in Gens :
             commits'[r][g] = IF r = "a" /\ g = top + 1 THEN c ELSE commits[r][g]
    BY CreateExtends
  <1>2. /\ TypeOK /\ Chain(hist, top) /\ Objects(commits, hist, top)
        /\ Snapshots(snaps, hist, top) /\ Pruned(commits, snaps, top)
        /\ inst[i] \in InstT /\ Sound(i, inst[i], commits, snaps, hist, top)
    BY DEF Inv, TypeOK
  <1>3. inst[i].cache.gen = top
    <2>1. inst[i].pc \in Putting
      BY DEF Putting
    <2>2. c.gen = inst[i].cache.gen + 1 /\ inst[i].cache.gen \in Nat /\ top \in Nat
      BY <1>2, <2>1, SealedFacts, ZenonT(60) DEF TypeOK
    <2>3. c.gen = top + 1
      BY <1>1, ZenonT(60)
    <2> HIDE DEF c
    <2>4. \A x \in Nat, y \in Nat : \A z : z = x + 1 /\ z = y + 1 => y = x
      OBVIOUS
    <2> QED BY <2>2, <2>3, <2>4, ZenonT(60)
  <1>4. hist'[top + 1] = c /\ \A g \in Gens : g <= top => hist'[g] = hist[g]
    BY <1>2, ConstantTypes, <1>1 DEF TypeOK
  <1>5. Chain(hist', top + 1)
    <2>1. top \in Nat
      BY <1>2 DEF TypeOK
    <2>2. /\ hist'[top + 1] = Sealed(inst[i]) /\ \A g \in Gens : g <= top => hist'[g] = hist[g]
          /\ top + 1 \in Gens /\ Chain(hist, top) /\ inst[i] \in InstT
          /\ Sound(i, inst[i], commits, snaps, hist, top)
      BY <1>1, <1>2, <1>4, ZenonT(60)
    <2> HIDE DEF c
    <2> QED BY <1>3, <2>1, <2>2, ChainExtends
  <1>6. c # Absent
    BY <1>1, CommitFacts
  <1> HIDE DEF c
  <1>7. TypeOK'
    BY <1>2, <1>1, ConstantTypes DEF Put, TypeOK
  <1>8. \A g \in Gens : g \in Nat /\ (g <= top + 1 <=> g <= top \/ g = top + 1) /\ top \in Nat
    BY <1>2, ConstantTypes DEF TypeOK
  <1>9. Grows(commits, commits') /\ commits'["a"][top + 1] # Absent
    BY <1>1, <1>6 DEF Grows, Replicas
  <1>10. Objects(commits', hist', top + 1)
    BY <1>1, <1>2, <1>4, <1>8 DEF Objects
  <1>11. Snapshots(snaps, hist', top + 1)
    BY <1>2, <1>4, <1>8 DEF Snapshots
  <1>12. Pruned(commits', snaps, top + 1)
    BY <1>1, <1>2, <1>8, <1>9 DEF Pruned, Grows, Replicas
  <1>13. ASSUME NEW j \in Instances PROVE Sound(j, inst'[j], commits', snaps, hist', top + 1)
    <2>1. inst' = [inst EXCEPT ![i] = rec] /\ inst \in [Instances -> InstT]
      BY <1>2 DEF Put, TypeOK
    <2>2. CASE j = i
      BY <1>1, <2>1, <2>2
    <2>3. CASE j # i
      <3>1. inst'[j] = inst[j] /\ inst[j] \in InstT
        BY <2>1, <2>3
      <3>2. Sound(j, inst[j], commits, snaps, hist, top)
        BY DEF Inv
      <3>3. top \in Nat
        BY <1>2 DEF TypeOK
      <3>4. Sound(j, inst[j], commits', snaps, hist', top + 1)
        BY <1>2, <1>4, <1>9, <3>1, <3>2, <3>3, SoundExtends, ZenonT(60)
      <3> QED BY <3>1, <3>4
    <2> QED BY <2>2, <2>3
  <1>14. \A d \in acked : \E g \in Gens : g <= top + 1 /\ d = Digest(hist'[g])
    BY <1>4, <1>8, ZenonT(60) DEF Inv
  <1>15. \A x \in damaged, y \in damaged : x = y
    BY ZenonT(60) DEF Inv
  <1> QED BY <1>1, <1>5, <1>7, <1>10, <1>11, <1>12, <1>13, <1>14, <1>15, ZenonT(60) DEF Inv
\* What the instance whose create succeeded may rely on before it moves on.
LEMMA CreatorSound ==
  ASSUME Inv, NEW i \in Instances, inst[i].pc = "put_a", Create(Sealed(inst[i]))
  PROVE  /\ inst[i] \in InstT /\ Sound(i, inst[i], commits', snaps, hist', top')
         /\ inst[i].cache.gen < top' /\ hist'[inst[i].cache.gen + 1] = Sealed(inst[i])
  <1> DEFINE c == Sealed(inst[i])
  <1>1. /\ c \in CommitT /\ c.gen = top + 1 /\ top + 1 \in Gens
        /\ hist' = [hist EXCEPT ![top + 1] = c] /\ top' = top + 1
        /\ \A r \in Replicas, g \in Gens :
             commits'[r][g] = IF r = "a" /\ g = top + 1 THEN c ELSE commits[r][g]
    BY CreateExtends
  <1>2. /\ hist \in [Gens -> CommitT \union {Absent}] /\ top \in Nat /\ Chain(hist, top)
        /\ inst[i] \in InstT /\ Sound(i, inst[i], commits, snaps, hist, top)
        /\ inst[i].pc \in Putting
    BY DEF Inv, TypeOK, Putting
  <1>3. c.gen = inst[i].cache.gen + 1 /\ inst[i].cache.gen \in Nat
    BY <1>2, SealedFacts, ZenonT(60)
  <1>4. c # Absent
    BY <1>1, CommitFacts
  <1> HIDE DEF c
  <1>5. inst[i].cache.gen = top
    BY <1>1, <1>2, <1>3
  <1>6. hist'[top + 1] = c /\ \A g \in Gens : g <= top => hist'[g] = hist[g]
    BY <1>1, <1>2, ConstantTypes
  <1>7. Grows(commits, commits') /\ commits'["a"][top + 1] # Absent
    BY <1>1, <1>4 DEF Grows, Replicas
  <1>8. Sound(i, inst[i], commits', snaps, hist', top + 1)
    BY <1>2, <1>6, <1>7, SoundExtends
  <1>9. top' = top + 1
    BY <1>1, ZenonT(60)
  <1> QED BY <1>2, <1>5, <1>6, <1>8, <1>9 DEF c

LEMMA PutAInv ==
  ASSUME Inv, NEW i \in Instances, PutA(i)
  PROVE  Inv'
  <1> DEFINE p == inst[i]
             q == [p EXCEPT !.pc = "put_b"]
  <1>1. /\ p.pc = "put_a" /\ Create(Sealed(p)) /\ Put(i, q) /\ UNCHANGED <<snaps, damaged, acked>>
    BY DEF PutA, At
  <1>2. /\ p \in InstT /\ Sound(i, p, commits', snaps, hist', top')
        /\ p.cache.gen < top' /\ hist'[p.cache.gen + 1] = Sealed(p)
    BY <1>1, CreatorSound
  <1>3. /\ q \in InstT /\ q.pc = "put_b" /\ q.held = p.held /\ q.cache = p.cache /\ q.base = p.base
        /\ q.mut = p.mut /\ q.keep = p.keep
    BY <1>2, PcTyped, ZenonT(60) DEF Pc
  <1>4. /\ Asked(q) = Asked(p) /\ NextEpoch(q) = NextEpoch(p) /\ FencedBy(q) = FencedBy(p)
        /\ Sealed(q) = Sealed(p)
    BY <1>3 DEF Asked, NextEpoch, FencedBy, Sealed
  <1> HIDE DEF q
  <1>5. Sound(i, q, commits', snaps, hist', top')
    BY <1>1, <1>2, <1>3, <1>4, ZenonT(60) DEF Sound, Busy, Putting
  <1> QED BY <1>1, <1>3, <1>5, CreateInv, ZenonT(60)

LEMMA PutALostInv ==
  ASSUME Inv, NEW i \in Instances, PutALost(i)
  PROVE  Inv'
  BY Failing, CreatorSound, FailedSound, CreateInv, Dropped, ZenonT(60) DEF PutALost, At

-----------------------------------------------------------------------------
\* Two complete snapshots survive the removal of an older one.
LEMMA ClosedSurvives ==
  ASSUME NEW sn, NEW sn2, NEW k \in Nat, NEW keep \in Nat, NEW x \in Nat, x < keep,
         Closed(sn, keep), Closed(sn, k),
         \A r \in Replicas, g \in Gens : g # x => sn2[r][g] = sn[r][g]
  PROVE  Closed(sn2, k)
  <1>1. CASE k <= keep
    BY <1>1, ConstantTypes DEF Closed
  <1>2. CASE ~(k <= keep)
    <2>1. PICK g1 \in Gens, g2 \in Gens :
            k <= g1 /\ g1 < g2 /\ \A r \in Replicas : sn[r][g1] # Absent /\ sn[r][g2] # Absent
      BY DEF Closed
    <2>2. g1 # x /\ g2 # x
      BY <1>2, <2>1, ConstantTypes
    <2> QED BY <2>1, <2>2 DEF Closed
  <1> QED BY <1>1, <1>2

LEMMA PruneInv ==
  ASSUME Inv, NEW i \in Instances, NEW x \in Gens, NEW r0 \in Replicas, Prune(i, x, r0)
  PROVE  Inv'
  <1>1. /\ TypeOK /\ Chain(hist, top) /\ Objects(commits, hist, top)
        /\ Snapshots(snaps, hist, top) /\ Pruned(commits, snaps, top)
        /\ inst[i] \in InstT /\ Sound(i, inst[i], commits, snaps, hist, top)
    BY DEF Inv, TypeOK
  <1> DEFINE keep == inst[i].keep
  <1>2. /\ UNCHANGED <<damaged, inst, hist, top, acked>> /\ x < keep /\ Old(x)
        /\ keep \in Nat /\ x \in Nat
    BY <1>1, ConstantTypes DEF Prune, InstT
  <1>3. Closed(snaps, keep) /\ Closed(snaps, x + 1)
    <2>1. keep # 0
      BY <1>2
    <2>2. Closed(snaps, keep)
      BY <1>1, <2>1, ZenonT(60) DEF Sound
    <2> QED BY <1>2, <2>2, ClosedLess
  <1> HIDE DEF keep
  <1>4. CASE commits' = [commits EXCEPT ![r0][x] = Absent] /\ UNCHANGED snaps
    <2>1. /\ commits' \in [Replicas -> [Gens -> CommitT \union {Absent}]]
          /\ \A r \in Replicas, g \in Gens :
               commits'[r][g] = IF r = r0 /\ g = x THEN Absent ELSE commits[r][g]
      BY <1>1, <1>4 DEF TypeOK
    <2>2. TypeOK'
      BY <1>1, <1>2, <1>4, <2>1 DEF TypeOK
    <2>3. Objects(commits', hist, top)
      BY <1>1, <2>1, ZenonT(60) DEF Objects
    <2>4. Pruned(commits', snaps, top)
      BY <1>1, <1>3, <2>1, ZenonT(60) DEF Pruned, Replicas
    <2>5. ASSUME NEW j \in Instances PROVE Sound(j, inst[j], commits', snaps, hist, top)
      <3> DEFINE p == inst[j]
      <3>1. /\ Sound(j, p, commits, snaps, hist, top) /\ p.cache \in StateT /\ p.base \in StateT
        BY <1>1 DEF Inv, TypeOK, InstT
      <3>2. /\ p.cache # Genesis \/ p.pc \in {"check", "put_a", "put_b"} => x <= p.cache.gen
            /\ p.pc = "read" => x <= p.base.gen
        BY <1>2 DEF Old
      <3> HIDE DEF p
      <3>3. p.cache.gen \in Nat /\ p.base.gen \in Nat
        BY <3>1, ZenonT(60) DEF StateT
      <3>4. \A y \in Nat : Covers(commits, top, y) /\ x <= y => Covers(commits', top, y)
        BY <1>2, ConstantTypes, <2>1 DEF Covers, Replicas
      <3>5. /\ p.cache # Genesis \/ p.pc \in {"check", "put_a", "put_b"}
                 => Covers(commits', top, p.cache.gen)
            /\ p.pc = "read" => Covers(commits', top, p.base.gen)
        BY <3>1, <3>2, <3>3, <3>4, ZenonT(60) DEF Sound
      <3>6. Sound(j, p, commits', snaps, hist, top)
        BY <3>1, <3>5, ZenonT(60) DEF Sound
      <3> QED BY <3>6 DEF p
    <2> QED BY <1>1, <1>2, <1>4, <2>2, <2>3, <2>4, <2>5, ZenonT(60) DEF Inv
  <1>5. CASE snaps' = [snaps EXCEPT ![r0][x] = Absent] /\ UNCHANGED commits
    <2>1. /\ snaps' \in [Replicas -> [Gens -> StateT \union {Absent}]]
          /\ \A r \in Replicas, g \in Gens :
               snaps'[r][g] = IF r = r0 /\ g = x THEN Absent ELSE snaps[r][g]
      BY <1>1, <1>5 DEF TypeOK
    <2>2. TypeOK'
      BY <1>1, <1>2, <1>5, <2>1 DEF TypeOK
    <2>3. Snapshots(snaps', hist, top)
      BY <1>1, <2>1, ZenonT(60) DEF Snapshots
    <2>4. \A r \in Replicas, g \in Gens : g # x => snaps'[r][g] = snaps[r][g]
      BY <2>1
    <2>5. \A k \in Nat : Closed(snaps, k) => Closed(snaps', k)
      BY <1>2, <1>3, <2>4, ClosedSurvives
    <2>6. Pruned(commits, snaps', top)
      BY ConstantTypes, <1>1, <2>5 DEF Pruned
    <2>7. ASSUME NEW j \in Instances PROVE Sound(j, inst[j], commits, snaps', hist, top)
      <3>1. Sound(j, inst[j], commits, snaps, hist, top) /\ inst[j].keep \in Nat
        BY <1>1 DEF Inv, TypeOK, InstT
      <3>2. inst[j].keep # 0 => Closed(snaps', inst[j].keep)
        BY <2>5, <3>1, ZenonT(60) DEF Sound
      <3> QED BY <3>1, <3>2, ZenonT(60) DEF Sound
    <2> QED BY <1>1, <1>2, <1>5, <2>2, <2>3, <2>6, <2>7, ZenonT(60) DEF Inv
  <1> QED BY <1>4, <1>5 DEF Prune

LEMMA DamageInv ==
  ASSUME Inv, NEW g \in Gens, Damage(g)
  PROVE  Inv'
  BY DEF Damage, Inv, TypeOK

LEMMA InitInv == Init => Inv
  <1> SUFFICES ASSUME Init PROVE Inv
    OBVIOUS
  <1>1. TypeOK
    BY StartedTyped, ConstantTypes DEF Init, TypeOK
  <1>2. \A g \in Gens : ~(g <= 0)
    BY ConstantTypes
  <1>3. /\ Chain(hist, top) /\ Objects(commits, hist, top) /\ Snapshots(snaps, hist, top)
        /\ Pruned(commits, snaps, top)
    BY <1>2, ZenonT(60) DEF Init, Chain, Objects, Snapshots, Pruned
  <1>4. ASSUME NEW i \in Instances PROVE Sound(i, inst[i], commits, snaps, hist, top)
    BY StartedTyped, ZenonT(60) DEF Init, Sound, Known, Busy, Putting
  <1> QED BY <1>1, <1>3, <1>4 DEF Init, Inv

LEMMA NextInv == Inv /\ [Next]_vars => Inv'
  <1> SUFFICES ASSUME Inv, [Next]_vars PROVE Inv'
    OBVIOUS
  <1>1. ASSUME NEW i \in Instances, Step(i) PROVE Inv'
    BY <1>1, BeginInv, LoadInv, LoadCachedInv, ReadCommitInv, RepairFailsInv, LoadedInv, FenceInv,
       AlreadyDoneInv, EpochTakenInv, AttemptInv, PutAInv, PutAExistsInv, PutALostInv, PutBInv,
       PutBFailsInv, PutSnapshotInv, PutSnapshotFailsInv, DieInv, PruneBeginInv, PruneEndInv,
       InspectInv, PruneInv, ZenonT(60) DEF Step
  <1>2. ASSUME NEW g \in Gens, Damage(g) PROVE Inv'
    BY <1>2, DamageInv
  <1>3. CASE UNCHANGED vars
    BY <1>3 DEF vars, Inv, TypeOK
  <1> QED BY <1>1, <1>2, <1>3 DEF Next

\* Every reachable state of the journal, its instances and its object store satisfies
\* the inductive invariant from which the theorems below follow.
THEOREM Invariance == Spec => []Inv
  BY InitInv, NextInv, PTL DEF Spec

(***************************************************************************)
(* Every commit object ever left in the store, by any number of instances  *)
(* that crash, repair each other's replicas or lose an answer, belongs to  *)
(* one chain of parents (commit_catalog_mutation).                         *)
(***************************************************************************)
THEOREM Linear == Spec => []OneHistory
  <1>1. Inv => OneHistory
    BY ConstantTypes DEF Inv, TypeOK, OneHistory, Objects, Chain
  <1> QED BY <1>1, Invariance, PTL

(***************************************************************************)
(* After a takeover nothing of the older instance enters the history       *)
(* (claim_writer_epoch, check_epoch).                                      *)
(***************************************************************************)
THEOREM Fencing == Spec => []FencedStaysOut
  <1>1. Inv => FencedStaysOut
    BY ConstantTypes DEF FencedStaysOut, Inv, TypeOK, Chain
  <1> QED BY <1>1, Invariance, PTL

(***************************************************************************)
(* What commit_catalog_mutation reported as done stays in the history.     *)
(***************************************************************************)
THEOREM Durable == Spec => []AckedCommitted
  <1>1. Inv => AckedCommitted
    BY ConstantTypes DEF AckedCommitted, Inv, TypeOK
  <1> QED BY <1>1, Invariance, PTL

(***************************************************************************)
(* Pruning and one damaged snapshot never cost a startup a commit          *)
(* (prune_catalog, load_catalog_state).                                    *)
(***************************************************************************)
THEOREM StaysReadable == Spec => []CatalogReadable
  <1>1. Inv => CatalogReadable
    BY ConstantTypes, NewestCovers DEF CatalogReadable, Readable, SnapshotGens, Covers, Either
  <1> QED BY <1>1, Invariance, PTL
=============================================================================
