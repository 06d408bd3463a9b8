---------------------------- MODULE SignyCatalog ----------------------------
(***************************************************************************)
(* signy's catalog journal (object_storage/journal.rs, with the epoch      *)
(* claim and check of object_storage/catalog.rs): which parts exist is a   *)
(* chain of commit objects in the object store, one per generation, each   *)
(* written twice with a conditional create.  Every instance that starts    *)
(* claims the next writer epoch with a commit of its own; an older         *)
(* instance that is still running must find out at its next commit.        *)
(*                                                                         *)
(* An instance is one process lifetime.  Its state of the catalog is what  *)
(* it cached: the last commit's generation, digest, transaction and epoch. *)
(* What a mutation adds or removes plays no part in who may write it, so a *)
(* mutation is its transaction identifier, <<instance, n>>, and a digest   *)
(* is the generation with the transaction.                                 *)
(***************************************************************************)
EXTENDS Naturals

CONSTANTS
    Instances,    \* process lifetimes
    Interval,     \* CATALOG_SNAPSHOT_INTERVAL
    MaxGen,       \* bound on generations
    MaxFaults     \* bound on puts that report an error or a false answer

ASSUME CatalogAssumption == Interval \in Nat \ {0} /\ MaxGen \in Nat /\ MaxFaults \in Nat

VARIABLES
    commits, \* commits[r][g]: the commit object of generation g in replica r
    snaps,   \* snaps[r][g]: the snapshot object, a catalog state
    damaged, \* snapshot generations that no longer verify
    inst,    \* the instances
    hist,    \* history: the commit of each generation, as first created
    top,     \* history: the newest generation
    acked,   \* history: the digests of commits reported as successful
    faults

vars == <<commits, snaps, damaged, inst, hist, top, acked, faults>>

Gens == 1..MaxGen
Replicas == {"a", "b"}
Absent == [gen |-> 0]

Digest(c) == <<c.gen, c.tx>>

(* CatalogState::default() *)
Genesis == [gen |-> 0, digest |-> <<0, <<0, 0>>>>, tx |-> <<0, 0>>, epoch |-> 0]

NoMutation == [tx |-> <<0, 0>>, epoch |-> 0, claim |-> FALSE]

(* An instance that has loaded and claimed nothing. *)
Started == [pc |-> "new", held |-> 0, cache |-> Genesis, base |-> Genesis,
            list |-> {}, mut |-> NoMutation, n |-> 0, keep |-> 0]

Init ==
    /\ commits = [r \in Replicas |-> [g \in Gens |-> Absent]]
    /\ snaps = [r \in Replicas |-> [g \in Gens |-> Absent]]
    /\ damaged = {}
    /\ inst = [i \in Instances |-> Started]
    /\ hist = [g \in Gens |-> Absent]
    /\ top = 0
    /\ acked = {}
    /\ faults = 0

At(i, pc) == inst[i].pc = pc

Put(i, rec) == inst' = [inst EXCEPT ![i] = rec]

Fault ==
    /\ faults < MaxFaults
    /\ faults' = faults + 1

(* The call returns an error: an instance without an epoch claims again,   *)
(* one that has it goes on with its work.                                  *)
Failed(p) ==
    [p EXCEPT !.pc = IF p.held = 0 THEN "new" ELSE "idle",
              !.base = Genesis, !.list = {}, !.mut = NoMutation]

----------------------------------------------------------------------------
(* load_catalog_state: the cached state, or the newest snapshot that       *)
(* verifies and the commits listed after it.                               *)

SnapshotGens == {g \in Gens : \E r \in Replicas : snaps[r][g] # Absent}
Readable == SnapshotGens \ damaged

(* Either replica serves; the missing one is created again. *)
Either(objects, g) == IF objects["a"][g] # Absent THEN objects["a"][g] ELSE objects["b"][g]

Repaired(objects, g) ==
    [r \in Replicas |-> [h \in Gens |->
       IF h = g /\ objects[r][h] = Absent THEN Either(objects, g) ELSE objects[r][h]]]

(* The commits listed after the base are read next. *)
StartsFrom(i, base) ==
    Put(i, [inst[i] EXCEPT
              !.base = base,
              !.list = {g \in Gens : g > base.gen /\ \E r \in Replicas : commits[r][g] # Absent},
              !.pc = "read"])

Load(i) ==
    /\ At(i, "load") /\ inst[i].cache = Genesis
    /\ \/ Readable = {} /\ StartsFrom(i, Genesis) /\ UNCHANGED snaps
       \/ \E g \in Readable :
            /\ \A h \in Readable : h <= g
            /\ StartsFrom(i, Either(snaps, g))
            /\ snaps' = Repaired(snaps, g)
    /\ UNCHANGED <<commits, damaged, hist, top, acked, faults>>

LoadCached(i) ==
    /\ At(i, "load") /\ inst[i].cache # Genesis
    /\ Put(i, [inst[i] EXCEPT !.pc = "check"])
    /\ UNCHANGED <<commits, snaps, damaged, hist, top, acked, faults>>

(* apply_catalog_mutation's checks on the parent, the generation and the   *)
(* epoch.                                                                  *)
Applies(s, c) ==
    /\ c.gen = s.gen + 1
    /\ c.parent = s.digest
    /\ c.epoch = IF c.claim THEN s.epoch + 1 ELSE s.epoch

Applied(c) == [gen |-> c.gen, digest |-> Digest(c), tx |-> c.tx, epoch |-> c.epoch]

(* Both replicas are there and differ: load_catalog_commit refuses. *)
Diverged(g) ==
    /\ commits["a"][g] # Absent /\ commits["b"][g] # Absent
    /\ commits["a"][g] # commits["b"][g]

(* load_catalog_commit for the next listed generation: a missing replica   *)
(* is created, then the commit is applied.  A gap, a divergence or a       *)
(* commit that does not apply ends the load with an error.                 *)
ReadCommit(i) ==
    /\ At(i, "read")
    /\ \E g \in inst[i].list :
         /\ \A h \in inst[i].list : g <= h
         /\ LET p == inst[i]
                c == Either(commits, g) IN
            IF g = p.base.gen + 1 /\ c # Absent /\ ~Diverged(g) /\ Applies(p.base, c)
            THEN /\ commits' = Repaired(commits, g)
                 /\ Put(i, [p EXCEPT !.base = Applied(c), !.list = @ \ {g}])
            ELSE /\ Put(i, Failed(p))
                 /\ UNCHANGED commits
    /\ UNCHANGED <<snaps, damaged, hist, top, acked, faults>>

(* The put of the missing replica fails. *)
RepairFails(i) ==
    /\ At(i, "read")
    /\ \E g \in inst[i].list, r \in Replicas :
         (\A h \in inst[i].list : g <= h) /\ commits[r][g] = Absent
    /\ Fault
    /\ Put(i, Failed(inst[i]))
    /\ UNCHANGED <<commits, snaps, damaged, hist, top, acked>>

Loaded(i) ==
    /\ At(i, "read") /\ inst[i].list = {}
    /\ Put(i, [inst[i] EXCEPT !.cache = inst[i].base, !.base = Genesis, !.pc = "check"])
    /\ UNCHANGED <<commits, snaps, damaged, hist, top, acked, faults>>

----------------------------------------------------------------------------
(* commit_catalog_mutation *)

(* claim_writer_epoch and the publishing calls: load the state and name    *)
(* the mutation.  A claim asks for the epoch after the one it loaded.      *)
Begin(i) ==
    /\ inst[i].pc \in {"new", "idle"}
    /\ LET p == inst[i] IN
       Put(i, [p EXCEPT !.n = @ + 1, !.pc = "load",
                        !.mut = [tx |-> <<i, p.n + 1>>, epoch |-> 0, claim |-> p.held = 0]])
    /\ UNCHANGED <<commits, snaps, damaged, hist, top, acked, faults>>

(* check_epoch against the loaded state: someone else owns the prefix. *)
FencedByStart(p) == FALSE

FencedBy(p) == p.held # 0 /\ p.cache.epoch # p.held

Fence(i) ==
    /\ At(i, "check") /\ FencedBy(inst[i])
    /\ Put(i, [Started EXCEPT !.pc = "fenced"])
    /\ UNCHANGED <<commits, snaps, damaged, hist, top, acked, faults>>

(* The epoch a commit on the loaded state must carry, and the one the      *)
(* mutation asks for, fixed by the first state it saw.                     *)
NextEpoch(p) == IF p.mut.claim THEN p.cache.epoch + 1 ELSE p.cache.epoch
Asked(p) == IF p.mut.epoch # 0 THEN p.mut.epoch ELSE NextEpoch(p)

(* The mutation succeeded: a claim now holds its epoch. *)
Succeeded(p) ==
    [p EXCEPT !.pc = "idle", !.held = IF p.mut.claim THEN p.cache.epoch ELSE @,
              !.mut = NoMutation]

(* The loaded state already ends with this transaction. *)
AlreadyDone(i) ==
    /\ At(i, "check") /\ ~FencedBy(inst[i])
    /\ inst[i].cache.tx = inst[i].mut.tx
    /\ Put(i, Succeeded(inst[i]))
    /\ acked' = acked \union {inst[i].cache.digest}
    /\ UNCHANGED <<commits, snaps, damaged, hist, top, faults>>

(* Another claim took the epoch: a claim's attempts run out against the    *)
(* same cached state, any other mutation fails at once.                    *)
EpochTaken(i) ==
    /\ At(i, "check") /\ ~FencedBy(inst[i])
    /\ LET p == inst[i] IN
       /\ p.cache.tx # p.mut.tx
       /\ Asked(p) # NextEpoch(p)
       /\ Put(i, Failed(p))
    /\ UNCHANGED <<commits, snaps, damaged, hist, top, acked, faults>>

Sealed(p) ==
    [gen |-> p.cache.gen + 1, parent |-> p.cache.digest, tx |-> p.mut.tx,
     epoch |-> Asked(p), claim |-> p.mut.claim]

Attempt(i) ==
    /\ At(i, "check") /\ ~FencedBy(inst[i])
    /\ LET p == inst[i] IN
       /\ p.cache.tx # p.mut.tx
       /\ Asked(p) = NextEpoch(p)
       /\ p.cache.gen < MaxGen
       /\ Put(i, [p EXCEPT !.pc = "put_a", !.mut.epoch = Asked(p)])
    /\ UNCHANGED <<commits, snaps, damaged, hist, top, acked, faults>>

(* An unconditional put. *)
CreateOver(c) ==
    /\ commits' = [commits EXCEPT !["a"][c.gen] = c]
    /\ IF c.gen = top + 1
       THEN hist' = [hist EXCEPT ![c.gen] = c] /\ top' = c.gen
       ELSE UNCHANGED <<hist, top>>

(* The first replica's object appears. *)
Create(c) ==
    /\ commits["a"][c.gen] = Absent
    /\ commits' = [commits EXCEPT !["a"][c.gen] = c]
    /\ IF c.gen = top + 1
       THEN hist' = [hist EXCEPT ![c.gen] = c] /\ top' = c.gen
       ELSE UNCHANGED <<hist, top>>

PutA(i) ==
    /\ At(i, "put_a")
    /\ Create(Sealed(inst[i]))
    /\ Put(i, [inst[i] EXCEPT !.pc = "put_b"])
    /\ UNCHANGED <<snaps, damaged, acked, faults>>

(* An existing object is taken for this writer's own. *)
PutAExistsOwn(i) ==
    /\ At(i, "put_a")
    /\ commits["a"][inst[i].cache.gen + 1] # Absent
    /\ acked' = acked \union {Digest(Sealed(inst[i]))}
    /\ Put(i, Succeeded([inst[i] EXCEPT !.cache = Applied(Sealed(inst[i]))]))
    /\ UNCHANGED <<commits, snaps, damaged, hist, top, faults>>

(* The generation is taken: drop the cached state and start over. *)
PutAExists(i) ==
    /\ At(i, "put_a")
    /\ commits["a"][inst[i].cache.gen + 1] # Absent
    /\ Put(i, [inst[i] EXCEPT !.pc = "load", !.cache = Genesis])
    /\ UNCHANGED <<commits, snaps, damaged, hist, top, acked, faults>>

(* The put reports an error, or its retry inside the client reports that   *)
(* the object exists, after the object was created.                        *)
PutALost(i) ==
    /\ At(i, "put_a") /\ Fault
    /\ \/ Put(i, Failed(inst[i])) /\ UNCHANGED <<commits, hist, top>>
       \/ Put(i, Failed(inst[i])) /\ Create(Sealed(inst[i]))
       \/ /\ Create(Sealed(inst[i]))
          /\ Put(i, [inst[i] EXCEPT !.pc = "load", !.cache = Genesis])
    /\ UNCHANGED <<snaps, damaged, acked>>

(* The second replica: created, or found with the same bytes. *)
PutB(i) ==
    /\ At(i, "put_b")
    /\ LET c == Sealed(inst[i]) IN
       /\ commits["b"][c.gen] \in {Absent, c}
       /\ commits' = [commits EXCEPT !["b"][c.gen] = c]
       /\ acked' = acked \union {Digest(c)}
       /\ Put(i, [Succeeded([inst[i] EXCEPT !.cache = Applied(c)]) EXCEPT
                    !.pc = IF c.gen % Interval = 0 THEN "snap_a" ELSE "idle"])
    /\ UNCHANGED <<snaps, damaged, hist, top, faults>>

PutBFails(i) ==
    /\ At(i, "put_b")
    /\ LET c == Sealed(inst[i]) IN
       \/ commits["b"][c.gen] \notin {Absent, c} /\ UNCHANGED <<commits, faults>>
       \/ Fault /\ commits' \in {commits, [commits EXCEPT !["b"][c.gen] = IF @ = Absent THEN c ELSE @]}
    /\ Put(i, Failed(inst[i]))
    /\ UNCHANGED <<snaps, damaged, hist, top, acked>>

(* write_catalog_snapshot, one replica after the other; a failure only     *)
(* defers the snapshot.                                                    *)
PutSnapshot(i) ==
    /\ inst[i].pc \in {"snap_a", "snap_b"}
    /\ LET p == inst[i]
           r == IF p.pc = "snap_a" THEN "a" ELSE "b"
           g == p.cache.gen IN
       /\ snaps' = [snaps EXCEPT ![r][g] = IF @ = Absent THEN p.cache ELSE @]
       /\ Put(i, [p EXCEPT !.pc = IF r = "a" /\ snaps[r][g] \in {Absent, p.cache}
                                  THEN "snap_b" ELSE "idle"])
    /\ UNCHANGED <<commits, damaged, hist, top, acked, faults>>

PutSnapshotFails(i) ==
    /\ inst[i].pc \in {"snap_a", "snap_b"} /\ Fault
    /\ Put(i, [inst[i] EXCEPT !.pc = "idle"])
    /\ UNCHANGED <<commits, snaps, damaged, hist, top, acked>>

----------------------------------------------------------------------------
(* prune_catalog: objects older than the second newest intact snapshot go, *)
(* once they are older than min_age.                                       *)

(* catalog_snapshot_is_intact: both replicas verify and agree, and so does *)
(* the commit they close over, whose missing replica is created on the way *)
(* (Inspect).                                                              *)
Intact(g) ==
    /\ g \notin damaged
    /\ snaps["a"][g] # Absent /\ snaps["a"][g] = snaps["b"][g]
    /\ commits["a"][g] # Absent /\ commits["a"][g] = commits["b"][g]
    /\ Digest(commits["a"][g]) = snaps["a"][g].digest

Inspect(i, g) ==
    /\ inst[i].held # 0 /\ Either(commits, g) # Absent
    /\ \A r \in Replicas : snaps[r][g] # Absent
    /\ commits' = Repaired(commits, g)
    /\ commits' # commits
    /\ UNCHANGED <<snaps, damaged, inst, hist, top, acked, faults>>

(* Only the newest intact snapshot is kept. *)
KeepsOne(g) == Intact(g)

(* The oldest generation to keep: an intact snapshot with a newer one. *)
Keeps(g) == Intact(g) /\ \E newer \in Gens : newer > g /\ Intact(newer)

PruneBegin(i) ==
    /\ inst[i].held # 0 /\ inst[i].keep = 0
    /\ \E g \in Gens : /\ Keeps(g)
                       /\ \A h \in Gens : h > g => ~Keeps(h)
                       /\ Put(i, [inst[i] EXCEPT !.keep = g])
    /\ UNCHANGED <<commits, snaps, damaged, hist, top, acked, faults>>

(* min_age is days: no instance still works from a state that old. *)
Old(g) ==
    \A i \in Instances :
      /\ inst[i].cache # Genesis \/ inst[i].pc \in {"check", "put_a", "put_b"}
           => g <= inst[i].cache.gen
      /\ inst[i].pc = "read" => g <= inst[i].base.gen

Prune(i, g, r) ==
    /\ g < inst[i].keep /\ Old(g)
    /\ \/ commits[r][g] # Absent /\ commits' = [commits EXCEPT ![r][g] = Absent] /\ UNCHANGED snaps
       \/ snaps[r][g] # Absent /\ snaps' = [snaps EXCEPT ![r][g] = Absent] /\ UNCHANGED commits
    /\ UNCHANGED <<damaged, inst, hist, top, acked, faults>>

(* All are deleted, or one deletion failed. *)
PruneEnd(i) ==
    /\ inst[i].keep # 0
    /\ Put(i, [inst[i] EXCEPT !.keep = 0])
    /\ UNCHANGED <<commits, snaps, damaged, hist, top, acked, faults>>

(* One snapshot is damaged, both its replicas at worst. *)
Damage(g) ==
    /\ damaged = {} /\ g \in SnapshotGens
    /\ damaged' = {g}
    /\ UNCHANGED <<commits, snaps, inst, hist, top, acked, faults>>

Die(i) ==
    /\ inst[i].pc # "dead"
    /\ Put(i, [Started EXCEPT !.pc = "dead"])
    /\ UNCHANGED <<commits, snaps, damaged, hist, top, acked, faults>>

----------------------------------------------------------------------------
Step(i) ==
    \/ Begin(i) \/ Load(i) \/ LoadCached(i) \/ ReadCommit(i) \/ RepairFails(i) \/ Loaded(i)
    \/ Fence(i) \/ AlreadyDone(i) \/ EpochTaken(i) \/ Attempt(i)
    \/ PutA(i) \/ PutAExists(i) \/ PutALost(i) \/ PutB(i) \/ PutBFails(i)
    \/ PutSnapshot(i) \/ PutSnapshotFails(i) \/ Die(i)
    \/ PruneBegin(i) \/ PruneEnd(i)
    \/ \E g \in Gens : Inspect(i, g) \/ \E r \in Replicas : Prune(i, g, r)

Next == (\E i \in Instances : Step(i)) \/ (\E g \in Gens : Damage(g))

Spec == Init /\ [][Next]_vars

----------------------------------------------------------------------------
(***************************************************************************)
(* There is one history: every commit object, in whichever replica, is the *)
(* commit the chain has at that generation, and each commit's parent is    *)
(* the one before it, whoever wrote and repaired what and whichever puts   *)
(* were lost (commit_catalog_mutation, load_catalog_commit).               *)
(***************************************************************************)
OneHistory ==
    /\ \A r \in Replicas, g \in Gens :
         commits[r][g] # Absent => g <= top /\ commits[r][g] = hist[g]
    /\ \A g \in 2..top : hist[g].parent = Digest(hist[g - 1])

(***************************************************************************)
(* Once an instance has claimed the prefix, no other instance's commit     *)
(* joins the history: between two claims every commit is by the instance   *)
(* that made the first (check_epoch, "the fence lands on the first write   *)
(* after a takeover").                                                     *)
(***************************************************************************)
FencedStaysOut ==
    \A g \in 1..top :
      ~hist[g].claim => g > 1 /\ hist[g].tx[1] = hist[g - 1].tx[1]

(***************************************************************************)
(* A commit reported as successful is in the history for good.             *)
(***************************************************************************)
AckedCommitted == acked \subseteq {Digest(hist[g]) : g \in 1..top}

(***************************************************************************)
(* A startup can always read the whole history: the newest snapshot that   *)
(* verifies is followed by every later commit, although old objects are    *)
(* pruned, writers die between two puts and one snapshot may be damaged    *)
(* (prune_catalog: "a single damaged snapshot then still leaves a readable *)
(* catalog").                                                              *)
(***************************************************************************)
CatalogReadable ==
    \A base \in Readable \union {0} :
      (\A h \in Readable : h <= base) =>
        \A g \in Gens : base < g /\ g <= top => Either(commits, g) # Absent
=============================================================================
