--------------------------- MODULE DocDbTrxProofs ---------------------------
(***************************************************************************)
(* The transactions of doc-db are serializable on dodb, for every set of    *)
(* calls and of keys and every bound on attempts, plain writes and failed   *)
(* requests.  The argument: a document's revision is the place in the log   *)
(* of the last write of it, so a request whose conditions hold finds what   *)
(* its closure went by still in place.                                      *)
(***************************************************************************)
EXTENDS DocDbTrx, TLAPS

(* A leaf that names no prover goes to the SMT solver, which is called again *)
(* when its time ran out, and in the end to Zenon.                           *)
USE SMTT(120), Z3T(120), SMTT(90), Z3T(90), ZenonT(60)

Record == [call : Calls \cup {"plain"}, puts : SUBSET Keys, deletes : SUBSET Keys,
           loaded : SUBSET (Keys \X Nat), free : SUBSET Keys]
Doc == [live : BOOLEAN, by : Nat, version : Nat]
Entry == [observed : BOOLEAN, expected : SUBSET Nat, saw : Nat, managed : BOOLEAN,
          created : BOOLEAN, dirty : BOOLEAN, deleted : BOOLEAN]
Call == [at : {"new", "closure", "committed", "cancelled", "conflict", "failed"}, attempt : Nat]

TypeOK ==
  /\ db \in [Keys -> Doc]
  /\ log \in Seq(Record)
  /\ call \in [Calls -> Call]
  /\ DOMAIN entries = Calls
  /\ \A c \in Calls : \A k \in Tracked(c) : k \in Keys /\ entries[c][k] \in Entry

\* What an entry of the log wrote.
Wrote(r) == r.puts \cup r.deletes

\* The entry j of the log, or the empty database, leaves no document k.
Absent(k, j) == j = 0 \/ (j \in DOMAIN log /\ k \in log[j].deletes)

\* A document is what the last write of it in the log made it.
DocsFollowLog ==
  \A k \in Keys :
    /\ db[k].by \in 0..Len(log)
    /\ db[k].by # 0 => k \in Wrote(log[db[k].by])
    /\ \A i \in DOMAIN log : i > db[k].by => k \notin Wrote(log[i])
    /\ ~db[k].live => Absent(k, db[k].by)

\* A tracked document goes by what its lookup found, if there was one.
EntrySound(k, e) ==
  /\ e.observed => e.expected = {e.saw}
  /\ ~e.observed => e.expected = {} /\ e.managed /\ e.created
  /\ e.observed /\ (e.created \/ ~e.managed) => Absent(k, e.saw)
EntriesSound == \A c \in Calls : \A k \in Tracked(c) : EntrySound(k, entries[c][k])

\* Every transaction in the log went by the state it found there.
LogSound ==
  \A i \in DOMAIN log :
    /\ \A l \in log[i].loaded : LastWriter(l[1], i) = l[2]
    /\ \A k \in log[i].free : Absent(k, LastWriter(k, i))

Over == {"committed", "failed"}
OneEffect ==
  /\ \A i, j \in DOMAIN log : log[i].call = log[j].call /\ log[i].call # "plain" => i = j
  /\ \A i \in DOMAIN log : log[i].call \in Calls => call[log[i].call].at \in Over

\* The inductive invariant.
Inv == TypeOK /\ DocsFollowLog /\ EntriesSound /\ LogSound /\ OneEffect

LEMMA InitInv == TrxInit => Inv
  <1> SUFFICES ASSUME TrxInit PROVE Inv
    OBVIOUS
  <1>1. /\ log = <<>> /\ \A c \in Calls : Tracked(c) = {}
        /\ \A k \in Keys : db[k] = [live |-> FALSE, by |-> 0, version |-> 0]
    BY DEF TrxInit, Tracked
  <1>2. TypeOK
    BY <1>1 DEF TrxInit, TypeOK, Doc, Call
  <1>3. DocsFollowLog
    BY <1>1 DEF DocsFollowLog, Absent
  <1>4. EntriesSound /\ LogSound /\ OneEffect
    BY <1>1 DEF EntriesSound, LogSound, OneEffect
  <1> QED BY <1>2, <1>3, <1>4 DEF Inv

-----------------------------------------------------------------------------
(* The log.                                                                 *)

\* LastWriter is the place that its definition describes.
LEMMA LastWriterIs ==
  ASSUME NEW k, NEW i \in Nat, NEW w \in Nat, w < i \/ w = 0,
         w # 0 => k \in Wrote(log[w]),
         \A j \in 1..(i - 1) : j > w => k \notin Wrote(log[j])
  PROVE  LastWriter(k, i) = w
  <1> DEFINE writers == {j \in 1..(i - 1) : k \in log[j].puts \cup log[j].deletes}
             Last(j) == \A m \in writers : m <= j
  <1>1. w \in writers \cup {0} /\ Last(w)
    BY DEF Wrote
  <1>2. ASSUME NEW j \in writers \cup {0}, Last(j) PROVE j = w
    <2>1. j \in Nat /\ (w # 0 => w <= j) /\ (j # 0 => j <= w)
      BY <1>1, <1>2
    <2> QED BY <2>1
  <1>3. LastWriter(k, i) = CHOOSE j \in writers \cup {0} : Last(j)
    BY ZenonT(60) DEF LastWriter
  <1> HIDE DEF writers, Last
  <1> QED BY <1>1, <1>2, <1>3

LEMMA GrownLog ==
  ASSUME log \in Seq(Record), NEW r \in Record, log' = Append(log, r)
  PROVE  /\ log' \in Seq(Record) /\ Len(log) \in Nat /\ Len(log') = Len(log) + 1
         /\ DOMAIN log = 1..Len(log) /\ DOMAIN log' = DOMAIN log \cup {Len(log) + 1}
         /\ \A i \in DOMAIN log : log'[i] = log[i]
         /\ log'[Len(log) + 1] = r
  OBVIOUS

\* What was last written before a place does not change.
LEMMA LastWriterStays ==
  ASSUME NEW k, NEW i, \A j \in 1..(i - 1) : log'[j] = log[j]
  PROVE  LastWriter(k, i)' = LastWriter(k, i)
  <1>1. {j \in 1..(i - 1) : k \in log'[j].puts \cup log'[j].deletes}
          = {j \in 1..(i - 1) : k \in log[j].puts \cup log[j].deletes}
    BY ZenonT(60)
  <1> QED BY <1>1, ZenonT(60) DEF LastWriter

-----------------------------------------------------------------------------
(* Steps that leave the documents alone.                                    *)

\* The closure and a request without effect change no document and no log.
LEMMA QuietStep ==
  ASSUME Inv, UNCHANGED <<db, log>>, TypeOK', EntriesSound',
         \A d \in Calls : call'[d] = call[d] \/ call[d].at \notin Over
  PROVE  Inv'
  <1>1. DocsFollowLog'
    BY DEF Inv, DocsFollowLog, Absent
  <1>2. LogSound'
    <2>1. \A k, i : LastWriter(k, i)' = LastWriter(k, i)
      BY LastWriterStays
    <2> QED BY <2>1 DEF Inv, LogSound, Absent
  <1>3. OneEffect'
    BY DEF Inv, OneEffect
  <1> QED BY <1>1, <1>2, <1>3 DEF Inv

\* get, create, deref_mut and delete: one entry of one call changes.
LEMMA TrackStep ==
  ASSUME Inv, NEW c \in Calls, NEW k \in Keys, NEW e \in Entry, EntrySound(k, e),
         Track(c, k, e), UNCHANGED <<db, log, call>>
  PROVE  Inv'
  <1>1. /\ DOMAIN entries = Calls /\ DOMAIN entries' = Calls
        /\ \A d \in Calls : \A j \in DOMAIN entries'[d] :
             \/ d = c /\ j = k /\ entries'[d][j] = e
             \/ j \in Tracked(d) /\ entries'[d][j] = entries[d][j]
    BY DEF Track, Inv, TypeOK, Tracked
  <1>2. TypeOK'
    BY <1>1 DEF Inv, TypeOK, Tracked
  <1>3. EntriesSound'
    BY <1>1 DEF Inv, EntriesSound, EntrySound, Absent, Tracked
  <1> QED BY <1>2, <1>3, QuietStep

\* An attempt ends, or the next begins, without an effect.
LEMMA EndStep ==
  ASSUME Inv, NEW c \in Calls, call[c].at \notin Over, call' \in [Calls -> Call],
         \A d \in Calls : d # c => call'[d] = call[d], UNCHANGED <<db, log>>,
         entries' = [entries EXCEPT ![c] = <<>>] \/ entries' = entries
  PROVE  Inv'
  <1>1. /\ DOMAIN entries' = Calls
        /\ \A d \in Calls : \A j \in DOMAIN entries'[d] :
             j \in Tracked(d) /\ entries'[d][j] = entries[d][j]
    BY DEF Inv, TypeOK, Tracked
  <1>2. TypeOK'
    BY <1>1 DEF Inv, TypeOK, Tracked
  <1>3. EntriesSound'
    BY <1>1 DEF Inv, EntriesSound, EntrySound, Absent, Tracked
  <1>4. \A d \in Calls : call'[d] = call[d] \/ call[d].at \notin Over
    BY DEF Inv, TypeOK
  <1> QED BY <1>2, <1>3, <1>4, QuietStep

LEMMA EditedEntry ==
  ASSUME NEW k, NEW o \in Entry, EntrySound(k, o), NEW e,
         \/ e = [o EXCEPT !.dirty = TRUE] \/ e = [o EXCEPT !.deleted = TRUE]
         \/ ~o.managed /\ e = [o EXCEPT !.managed = TRUE, !.created = TRUE]
  PROVE  e \in Entry /\ EntrySound(k, e)
  BY ZenonT(60) DEF Entry, EntrySound

LEMMA NewEntry ==
  ASSUME NEW k, NEW e,
         e = [observed |-> FALSE, expected |-> {}, saw |-> 0, managed |-> TRUE,
              created |-> TRUE, dirty |-> FALSE, deleted |-> FALSE]
  PROVE  e \in Entry /\ EntrySound(k, e)
  BY DEF Entry, EntrySound

LEMMA ClosureInv ==
  ASSUME Inv, Backend = "dodb", NEW c \in Calls, NEW k \in Keys,
         Get(c, k) \/ Create(c, k) \/ Change(c, k) \/ Delete(c, k)
  PROVE  Inv'
  <1>1. db[k] \in Doc /\ (~db[k].live => Absent(k, db[k].by))
    BY DEF Inv, TypeOK, DocsFollowLog
  <1>2. ASSUME k \in Tracked(c) PROVE entries[c][k] \in Entry /\ EntrySound(k, entries[c][k])
    BY <1>2 DEF Inv, TypeOK, EntriesSound
  <1>3. CASE Get(c, k)
    <2> DEFINE e == [observed |-> TRUE, expected |-> Revision(k), saw |-> db[k].by,
                     managed |-> db[k].live, created |-> FALSE, dirty |-> FALSE,
                     deleted |-> FALSE]
    <2>1. e \in Entry /\ EntrySound(k, e)
      BY <1>1 DEF Revision, Doc, Entry, EntrySound
    <2>2. Track(c, k, e) /\ UNCHANGED <<db, log, call>>
      BY <1>3 DEF Get
    <2> HIDE DEF e
    <2> QED BY <2>1, <2>2, TrackStep
  <1>4. CASE Create(c, k)
    <2>1. PICK e : /\ Track(c, k, e) /\ UNCHANGED <<db, log, call>>
                   /\ \/ e = [observed |-> FALSE, expected |-> {}, saw |-> 0, managed |-> TRUE,
                              created |-> TRUE, dirty |-> FALSE, deleted |-> FALSE]
                      \/ /\ k \in Tracked(c) /\ ~entries[c][k].managed
                         /\ e = [entries[c][k] EXCEPT !.managed = TRUE, !.created = TRUE]
      BY <1>4 DEF Create
    <2>2. CASE k \in Tracked(c)
      BY <1>2, <2>1, <2>2, EditedEntry, NewEntry, TrackStep, ZenonT(60)
    <2>3. CASE k \notin Tracked(c)
      BY <2>1, <2>3, NewEntry, TrackStep, ZenonT(60)
    <2> QED BY <2>2, <2>3
  <1>5. CASE Change(c, k) \/ Delete(c, k)
    <2>1. PICK e : /\ Track(c, k, e) /\ UNCHANGED <<db, log, call>> /\ k \in Tracked(c)
                   /\ \/ e = [entries[c][k] EXCEPT !.dirty = TRUE]
                      \/ e = [entries[c][k] EXCEPT !.deleted = TRUE]
      BY <1>5 DEF Change, Delete
    <2>2. e \in Entry /\ EntrySound(k, e)
      BY <1>2, <2>1, EditedEntry, ZenonT(60)
    <2> QED BY <2>1, <2>2, TrackStep
  <1> QED BY <1>3, <1>4, <1>5

\* The ends of an attempt that leave no trace.
LEMMA NoEffectInv ==
  ASSUME Inv, NEW c \in Calls, UNCHANGED <<db, log>>,
         \/ Begin(c) \/ Abandon(c, "cancelled") \/ Abandon(c, "failed")
         \/ CommitEmpty(c) \/ CommitConflicts(c) \/ CommitFails(c)
  PROVE  Inv'
  <1>1. call[c] \in Call
    BY DEF Inv, TypeOK
  <1>2. ASSUME NEW at \in {"closure", "cancelled", "failed", "committed", "conflict"},
               call[c].at \in {"new", "closure"}, call' = [call EXCEPT ![c].at = at],
               entries' = [entries EXCEPT ![c] = <<>>] \/ entries' = entries
        PROVE  Inv'
    <2>1. call' \in [Calls -> Call] /\ \A d \in Calls : d # c => call'[d] = call[d]
      BY <1>1, <1>2 DEF Inv, TypeOK, Call
    <2> QED BY <1>2, <2>1, EndStep DEF Over
  <1>3. ASSUME call[c].at = "closure",
               call' = [call EXCEPT ![c] = [at |-> "new", attempt |-> @.attempt + 1]],
               entries' = [entries EXCEPT ![c] = <<>>]
        PROVE  Inv'
    <2>1. call' \in [Calls -> Call] /\ \A d \in Calls : d # c => call'[d] = call[d]
      BY <1>1, <1>3 DEF Inv, TypeOK, Call
    <2> QED BY <1>3, <2>1, EndStep, ZenonT(60) DEF Over
  <1> QED BY <1>2, <1>3, ZenonT(60)
       DEF Begin, Abandon, CommitEmpty, CommitConflicts, CommitFails, Ends

-----------------------------------------------------------------------------
(* Writes.                                                                  *)

\* What a write makes of the documents.
Rewrites(r) ==
  /\ db' \in [Keys -> Doc]
  /\ \A k \in Keys :
       \/ k \notin Wrote(r) /\ db'[k] = db[k]
       \/ /\ k \in Wrote(r) /\ db'[k].by = Len(log) + 1
          /\ ~db'[k].live => k \in r.deletes

\* The write goes by the state it finds.
GoesBy(r) ==
  /\ \A l \in r.loaded : db[l[1]].by = l[2]
  /\ \A k \in r.free : Absent(k, db[k].by)

LEMMA WriteStep ==
  ASSUME Inv, NEW r \in Record, log' = Append(log, r), Rewrites(r), GoesBy(r)
  PROVE  DocsFollowLog' /\ LogSound'
  <1>1. /\ db \in [Keys -> Doc] /\ log \in Seq(Record) /\ DocsFollowLog /\ LogSound
    BY DEF Inv, TypeOK
  <1> DEFINE n == Len(log) + 1
  <1>2. /\ Len(log) \in Nat /\ Len(log') = n /\ DOMAIN log = 1..Len(log)
        /\ DOMAIN log' = DOMAIN log \cup {n} /\ log'[n] = r
        /\ \A i \in DOMAIN log : log'[i] = log[i]
    BY <1>1, GrownLog
  <1> HIDE DEF n
  <1>3. \A k, j : Absent(k, j) => Absent(k, j)'
    BY <1>2 DEF Absent
  <1>4. DocsFollowLog'
    <2> SUFFICES ASSUME NEW k \in Keys
                 PROVE  /\ db'[k].by \in 0..Len(log')
                        /\ db'[k].by # 0 => k \in Wrote(log'[db'[k].by])
                        /\ \A i \in DOMAIN log' : i > db'[k].by => k \notin Wrote(log'[i])
                        /\ ~db'[k].live => Absent(k, db[k].by)'
      BY DEF DocsFollowLog
    <2>1. /\ db[k].by \in 0..Len(log)
          /\ db[k].by # 0 => k \in Wrote(log[db[k].by])
          /\ \A i \in DOMAIN log : i > db[k].by => k \notin Wrote(log[i])
          /\ ~db[k].live => Absent(k, db[k].by)
      BY <1>1 DEF DocsFollowLog
    <2>2. CASE k \notin Wrote(r) /\ db'[k] = db[k]
      <3>1. db[k].by \in 0..n /\ (db[k].by # 0 => db[k].by \in DOMAIN log)
        BY <1>2, <2>1 DEF n
      <3>2. db'[k].by # 0 => k \in Wrote(log'[db'[k].by])
        BY <1>2, <2>1, <2>2, <3>1
      <3>3. \A i \in DOMAIN log' : i > db'[k].by => k \notin Wrote(log'[i])
        BY <1>2, <2>1, <2>2
      <3>4. ~db'[k].live => Absent(k, db[k].by)'
        BY <1>3, <2>1, <2>2
      <3> QED BY <1>2, <2>2, <3>1, <3>2, <3>3, <3>4
    <2>3. CASE /\ k \in Wrote(r) /\ db'[k].by = Len(log) + 1
               /\ ~db'[k].live => k \in r.deletes
      <3>1. db'[k].by = n /\ n \in Nat /\ n # 0 /\ n \in DOMAIN log' /\ k \in Wrote(log'[n])
        BY <1>2, <2>3 DEF n
      <3>2. \A i \in DOMAIN log' : ~(i > n)
        BY <1>2 DEF n
      <3>3. ~db'[k].live => Absent(k, db[k].by)'
        BY <1>2, <2>3, <3>1 DEF Absent
      <3> QED BY <1>2, <3>1, <3>2, <3>3
    <2> QED BY <2>2, <2>3 DEF Rewrites
  <1>5. LogSound'
    <2>1. \A i \in DOMAIN log' : \A k : LastWriter(k, i)' = LastWriter(k, i)
      <3> SUFFICES ASSUME NEW i \in DOMAIN log', NEW k PROVE LastWriter(k, i)' = LastWriter(k, i)
        OBVIOUS
      <3>1. \A j \in 1..(i - 1) : log'[j] = log[j]
        BY <1>2 DEF n
      <3> QED BY <3>1, LastWriterStays
    <2>2. ASSUME NEW k \in Keys PROVE LastWriter(k, n) = db[k].by
      <3> DEFINE w == db[k].by
      <3>1. /\ n \in Nat /\ w \in Nat /\ w < n /\ (w # 0 => k \in Wrote(log[w]))
            /\ \A j \in 1..(n - 1) : j > w => k \notin Wrote(log[j])
        BY <1>1, <1>2 DEF DocsFollowLog, n
      <3> HIDE DEF w
      <3>2. LastWriter(k, n) = w
        BY <3>1, LastWriterIs
      <3> QED BY <3>2 DEF w
    <2> SUFFICES ASSUME NEW i \in DOMAIN log'
                 PROVE  /\ \A l \in log'[i].loaded : LastWriter(l[1], i) = l[2]
                        /\ \A k \in log'[i].free : Absent(k, LastWriter(k, i))'
      BY <2>1 DEF LogSound
    <2>3. CASE i \in DOMAIN log
      <3>1. /\ \A l \in log[i].loaded : LastWriter(l[1], i) = l[2]
            /\ \A k \in log[i].free : Absent(k, LastWriter(k, i))
        BY <1>1, <2>3 DEF LogSound
      <3> QED BY <1>2, <1>3, <2>1, <2>3, <3>1
    <2>4. CASE i = n
      <3>1. (\A l \in r.loaded : l[1] \in Keys) /\ \A k \in r.free : k \in Keys
        BY DEF Record
      <3> QED BY <1>2, <1>3, <2>1, <2>2, <2>4, <3>1 DEF GoesBy
    <2> QED BY <1>2, <2>3, <2>4
  <1> QED BY <1>4, <1>5

\* The entry of the log for the request of a call's commit.
Request(c) ==
  [call |-> c,
   puts |-> {k \in Tracked(c) : Puts(entries[c][k])},
   deletes |-> {k \in Tracked(c) : Deletes(entries[c][k])},
   loaded |-> {<<k, entries[c][k].saw>> : k \in {j \in Tracked(c) : Loaded(entries[c][j])}},
   free |-> {k \in Conditions(c) : ~Loaded(entries[c][k])}]

LEMMA WrittenDoc ==
  ASSUME NEW k \in Keys, db[k] \in Doc, NEW live \in BOOLEAN, NEW i \in Nat
  PROVE  /\ Written(k, live, i) \in Doc
         /\ Written(k, live, i).live = live /\ Written(k, live, i).by = i
  BY DEF Written, Doc

\* transact: conditions that hold mean that the closure's view still stands.
LEMMA AppliesWrites ==
  ASSUME Inv, Backend = "dodb", NEW c \in Calls, Applies(c)
  PROVE  Request(c) \in Record /\ log' = Append(log, Request(c))
         /\ Rewrites(Request(c)) /\ GoesBy(Request(c))
  <1> DEFINE r == Request(c)
  <1>1. /\ db \in [Keys -> Doc] /\ log \in Seq(Record) /\ Len(log) \in Nat
        /\ \A k \in Tracked(c) : /\ k \in Keys /\ entries[c][k] \in Entry
                                 /\ EntrySound(k, entries[c][k])
        /\ \A k \in Keys : ~db[k].live => Absent(k, db[k].by)
    BY DEF Inv, TypeOK, EntriesSound, DocsFollowLog
  <1>2. log' = Append(log, r)
    BY ZenonT(60) DEF Applies, Request
  <1>3. r \in Record
    <2>1. \A k \in Tracked(c) : k \in Keys /\ entries[c][k].saw \in Nat
      BY <1>1 DEF Entry
    <2> QED BY <2>1 DEF Request, Record, Conditions
  <1>4. Rewrites(r)
    <2>1. db' = [k \in Keys |-> IF k \notin Mutations(c) THEN db[k]
                                  ELSE Written(k, Puts(entries[c][k]), Len(log) + 1)]
      BY ZenonT(60) DEF Applies
    <2>2. Wrote(r) = Mutations(c)
      BY DEF Wrote, Request, Mutations
    <2>3. ASSUME NEW k \in Keys, k \in Mutations(c)
          PROVE  \E live \in BOOLEAN :
                   /\ db'[k] = Written(k, live, Len(log) + 1)
                   /\ ~live => k \in r.deletes
      <3>1. Puts(entries[c][k]) \in BOOLEAN
        BY DEF Puts
      <3>2. ~Puts(entries[c][k]) => k \in r.deletes
        BY <2>3 DEF Mutations, Request
      <3>3. db'[k] = Written(k, Puts(entries[c][k]), Len(log) + 1)
        BY <2>1, <2>3, ZenonT(60)
      <3> QED BY <3>1, <3>2, <3>3, ZenonT(60)
    <2>4. ASSUME NEW k \in Keys, NEW live \in BOOLEAN
          PROVE  /\ Written(k, live, Len(log) + 1) \in Doc
                 /\ Written(k, live, Len(log) + 1).live = live
                 /\ Written(k, live, Len(log) + 1).by = Len(log) + 1
      BY <1>1, WrittenDoc
    <2>5. db' \in [Keys -> Doc]
      <3> SUFFICES ASSUME NEW k \in Keys PROVE db'[k] \in Doc
        BY <2>1
      <3> QED BY <1>1, <2>1, <2>3, <2>4
    <2>6. ASSUME NEW k \in Keys, k \notin Mutations(c) PROVE db'[k] = db[k]
      BY <2>1, <2>6
    <2>7. ASSUME NEW k \in Keys, k \in Mutations(c)
          PROVE  db'[k].by = Len(log) + 1 /\ (~db'[k].live => k \in r.deletes)
      BY <2>3, <2>4, <2>7, ZenonT(60)
    <2> HIDE DEF r
    <2> QED BY <2>2, <2>5, <2>6, <2>7 DEF Rewrites
  <1>5. \A k \in Conditions(c) : Holds(k, entries[c][k])
    BY ZenonT(60) DEF Applies, Conflicts
  <1>6. ASSUME NEW k \in Tracked(c), entries[c][k].observed
        PROVE  db[k].by = entries[c][k].saw
    <2>1. k \in Conditions(c)
      BY <1>6 DEF Conditions, Conditioned
    <2>2. entries[c][k].expected = {entries[c][k].saw} /\ Holds(k, entries[c][k])
      BY <1>1, <1>5, <1>6, <2>1 DEF EntrySound
    <2> QED BY <2>2 DEF Holds, Revision
  <1>7. \A l \in r.loaded : db[l[1]].by = l[2]
    BY <1>6 DEF Request, Loaded
  <1>8. ASSUME NEW k \in r.free PROVE Absent(k, db[k].by)
    <2>1. k \in Conditions(c) /\ ~Loaded(entries[c][k]) /\ k \in Tracked(c)
      BY <1>8 DEF Request, Conditions
    <2>2. CASE entries[c][k].observed
      <3>1. Absent(k, entries[c][k].saw)
        BY <1>1, <2>1, <2>2 DEF EntrySound, Loaded
      <3> QED BY <1>6, <2>1, <2>2, <3>1
    <2>3. CASE ~entries[c][k].observed
      BY <1>1, <1>5, <2>1, <2>3 DEF EntrySound, Holds
    <2> QED BY <2>2, <2>3
  <1> QED BY <1>2, <1>3, <1>4, <1>7, <1>8 DEF GoesBy

\* A commit that takes effect is its call's only one, and ends it.
LEMMA EffectInv ==
  ASSUME Inv, Backend = "dodb", "plain" \notin Calls, NEW c \in Calls, Applies(c),
         call[c].at = "closure", NEW at \in Over, Ends(c, at)
  PROVE  Inv'
  <1> DEFINE r == Request(c)
  <1>1. r \in Record /\ log' = Append(log, r) /\ Rewrites(r) /\ GoesBy(r) /\ r.call = c
    BY AppliesWrites DEF Request
  <1> HIDE DEF r
  <1>2. log \in Seq(Record) /\ call \in [Calls -> Call] /\ DOMAIN entries = Calls
    BY DEF Inv, TypeOK
  <1>3. DocsFollowLog' /\ LogSound'
    BY <1>1, WriteStep
  <1>4. /\ log' \in Seq(Record) /\ DOMAIN log' = DOMAIN log \cup {Len(log) + 1}
        /\ \A i \in DOMAIN log : log'[i] = log[i]
        /\ log'[Len(log) + 1] = r
    BY <1>1, <1>2, GrownLog
  <1>5. /\ call' \in [Calls -> Call] /\ call'[c].at \in Over
        /\ \A d \in Calls : d # c => call'[d] = call[d]
    BY <1>2 DEF Ends, Call, Over
  <1>6. /\ DOMAIN entries' = Calls
        /\ \A d \in Calls : \A j \in DOMAIN entries'[d] :
             j \in Tracked(d) /\ entries'[d][j] = entries[d][j]
    BY <1>2 DEF Ends, Tracked
  <1>7. TypeOK'
    BY <1>1, <1>4, <1>5, <1>6 DEF Inv, TypeOK, Tracked, Rewrites
  <1>8. EntriesSound'
    <2>1. \A k, j : Absent(k, j) => Absent(k, j)'
      BY <1>4 DEF Absent
    <2> QED BY <1>6, <2>1 DEF Inv, EntriesSound, EntrySound, Tracked
  <1>9. OneEffect'
    <2>1. \A i \in DOMAIN log : log[i].call # c
      BY DEF Inv, OneEffect, Over
    <2> QED BY <1>1, <1>4, <1>5, <2>1 DEF Inv, OneEffect
  <1> QED BY <1>3, <1>7, <1>8, <1>9 DEF Inv

\* Database::put and Database::delete
LEMMA PlainInv ==
  ASSUME Inv, "plain" \notin Calls, NEW k \in Keys, NEW live \in BOOLEAN, PlainWrite(k, live)
  PROVE  Inv'
  <1> DEFINE r == [call |-> "plain", puts |-> IF live THEN {k} ELSE {},
                   deletes |-> IF live THEN {} ELSE {k}, loaded |-> {}, free |-> {}]
  <1>1. /\ log' = Append(log, r) /\ UNCHANGED <<call, entries>>
        /\ db' = [db EXCEPT ![k] = Written(k, live, Len(log) + 1)]
    BY ZenonT(60) DEF PlainWrite
  <1>2. log \in Seq(Record) /\ db \in [Keys -> Doc] /\ Len(log) \in Nat
    BY DEF Inv, TypeOK
  <1>3. r \in Record /\ GoesBy(r)
    BY DEF Record, GoesBy
  <1>4. Rewrites(r)
    <2>1. /\ Written(k, live, Len(log) + 1) \in Doc
          /\ Written(k, live, Len(log) + 1).live = live
          /\ Written(k, live, Len(log) + 1).by = Len(log) + 1
      BY <1>2, WrittenDoc
    <2> QED BY <1>1, <1>2, <2>1 DEF Rewrites, Wrote
  <1>5. r.call = "plain"
    OBVIOUS
  <1> HIDE DEF r
  <1>6. DocsFollowLog' /\ LogSound'
    BY <1>1, <1>3, <1>4, WriteStep
  <1>7. /\ log' \in Seq(Record) /\ DOMAIN log' = DOMAIN log \cup {Len(log) + 1}
        /\ \A i \in DOMAIN log : log'[i] = log[i]
        /\ log'[Len(log) + 1] = r
    BY <1>1, <1>2, <1>3, GrownLog
  <1>8. TypeOK'
    BY <1>1, <1>4, <1>7 DEF Inv, TypeOK, Tracked, Rewrites
  <1>9. EntriesSound'
    <2>1. \A j, m : Absent(j, m) => Absent(j, m)'
      BY <1>7 DEF Absent
    <2> QED BY <1>1, <2>1 DEF Inv, EntriesSound, EntrySound, Tracked
  <1>10. OneEffect'
    BY <1>1, <1>5, <1>7 DEF Inv, OneEffect
  <1> QED BY <1>6, <1>8, <1>9, <1>10 DEF Inv

LEMMA NextInv ==
  ASSUME Backend = "dodb", "plain" \notin Calls
  PROVE  Inv /\ [TrxNext]_trxVars => Inv'
  <1> SUFFICES ASSUME Inv, [TrxNext]_trxVars PROVE Inv'
    OBVIOUS
  <1>1. CASE UNCHANGED trxVars
    <2>1. TypeOK' /\ EntriesSound'
      BY <1>1 DEF trxVars, Inv, TypeOK, EntriesSound, EntrySound, Absent, Tracked
    <2> QED BY <1>1, <2>1, QuietStep DEF trxVars
  <1>2. ASSUME NEW c \in Calls, NEW k \in Keys,
               Get(c, k) \/ Create(c, k) \/ Change(c, k) \/ Delete(c, k)
        PROVE  Inv'
    BY <1>2, ClosureInv
  <1>3. ASSUME NEW c \in Calls,
               \/ Begin(c) \/ Abandon(c, "cancelled") \/ Abandon(c, "failed")
               \/ CommitEmpty(c) \/ CommitConflicts(c)
        PROVE  Inv'
    <2>1. UNCHANGED <<db, log>>
      BY <1>3, ZenonT(60) DEF Begin, Abandon, CommitEmpty, CommitConflicts
    <2> QED BY <1>3, <2>1, NoEffectInv
  <1>4. ASSUME NEW c \in Calls, Commit(c) PROVE Inv'
    BY <1>4, EffectInv, ZenonT(60) DEF Commit, Over
  <1>5. ASSUME NEW c \in Calls, CommitFails(c) PROVE Inv'
    <2>1. CASE UNCHANGED <<db, log>>
      BY <1>5, <2>1, NoEffectInv
    <2>2. CASE Applies(c)
      BY <1>5, <2>2, EffectInv, ZenonT(60) DEF CommitFails, Over
    <2> QED BY <1>5, <2>1, <2>2, ZenonT(60) DEF CommitFails
  <1>6. ASSUME NEW k \in Keys, NEW live \in BOOLEAN, PlainWrite(k, live) PROVE Inv'
    BY <1>6, PlainInv
  <1> QED BY <1>1, <1>2, <1>3, <1>4, <1>5, <1>6, ZenonT(60) DEF TrxNext

LEMMA InvIsSerial ==
  ASSUME Inv, "plain" \notin Calls
  PROVE  TrxSerial
  <1>1. ASSUME NEW i \in DOMAIN log
        PROVE  /\ \A l \in log[i].loaded : LastWriter(l[1], i) = l[2]
               /\ \A k \in log[i].free :
                    LastWriter(k, i) # 0 => k \in log[LastWriter(k, i)].deletes
    BY DEF Inv, LogSound, Absent
  <1>2. ASSUME NEW c \in Calls
        PROVE  /\ \A i, j \in DOMAIN log : log[i].call = c /\ log[j].call = c => i = j
               /\ \A i \in DOMAIN log : log[i].call = c => call[c].at \in Over
    BY DEF Inv, OneEffect
  <1> QED BY <1>1, <1>2 DEF TrxSerial, Over

\* On dodb, a transaction that took effect went by exactly the documents and the
\* absences that it found, whatever the other calls, the plain writes and the
\* failed requests did between its reads and its commit; and a call takes effect
\* at most once, and never when its caller is told that it was cancelled or lost
\* to a conflict (run, commit_entries, TrackedEntry::condition).
THEOREM TrxSerialHolds ==
  ASSUME Backend = "dodb", "plain" \notin Calls
  PROVE  TrxSpec => []TrxSerial
  <1>1. Inv /\ [TrxNext]_trxVars => Inv'
    BY NextInv
  <1>2. Inv => TrxSerial
    BY InvIsSerial
  <1> QED BY <1>1, <1>2, InitInv, PTL DEF TrxSpec
=============================================================================
