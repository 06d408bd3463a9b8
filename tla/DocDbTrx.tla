----------------------------- MODULE DocDbTrx -------------------------------
(***************************************************************************)
(* The transactions of doc-db (doc-db/src/trx.rs): a closure reads, creates,  *)
(* changes and deletes documents in a private copy, and its commit is one     *)
(* conditional request; a conflict runs the closure again.                    *)
(*                                                                         *)
(* A document is told from its earlier versions by the position in the log of *)
(* the write that made it.  What the condition compares is the backend's      *)
(* revision: dodb's is that position, also of a deleted document; the memory  *)
(* backend counts the writes since the document was last created.             *)
(***************************************************************************)
EXTENDS Naturals, Sequences

CONSTANTS
  Calls,       \* calls of trx::run
  Keys,        \* document keys
  Backend,     \* "dodb" or "memory"
  MaxAttempts, \* MAX_ATTEMPTS
  MaxPlain,    \* bound on the writes outside transactions
  MaxErr       \* bound on the requests that fail

VARIABLES
  db,   \* each document: whether it exists, the write that made it so, its version
  log,    \* what took effect, in order (history)
  call,   \* each call
  entries,\* the documents each call tracks
  spent    \* the bounded events so far

trxVars == <<db, log, call, entries, spent>>

TrxInit ==
  /\ db = [k \in Keys |-> [live |-> FALSE, by |-> 0, version |-> 0]]
  /\ log = <<>>
  /\ call = [c \in Calls |-> [at |-> "new", attempt |-> 0]]
  /\ entries = [c \in Calls |-> <<>>]
  /\ spent = [plain |-> 0, err |-> 0]

Tracked(c) == DOMAIN entries[c]
Track(c, k, e) ==
  entries' = [entries EXCEPT ![c] = [j \in Tracked(c) \cup {k} |->
                                       IF j = k THEN e ELSE entries[c][j]]]
Ends(c, at) == call' = [call EXCEPT ![c].at = at] /\ entries' = [entries EXCEPT ![c] = <<>>]

\* get_observed: the revision of a document, or of its absence where the backend
\* has one; a set of at most one.
Revision(k) ==
  IF Backend = "dodb" THEN {db[k].by}
  ELSE IF db[k].live THEN {db[k].version} ELSE {}

\* One write of the entry the log has at position i.
Written(k, live, i) ==
  [live |-> live, by |-> i,
   version |-> IF db[k].live THEN db[k].version + 1 ELSE 0]

Fails == spent.err < MaxErr /\ spent' = [spent EXCEPT !.err = @ + 1]

-----------------------------------------------------------------------------
(* The closure.                                                             *)

\* run_attempt begins with nothing tracked.
Begin(c) ==
  /\ call[c].at = "new" /\ call' = [call EXCEPT ![c].at = "closure"]
  /\ UNCHANGED <<db, log, entries, spent>>

\* Trx::get of one key: the documents of a tuple are observed one by one.
Get(c, k) ==
  /\ call[c].at = "closure" /\ k \notin Tracked(c)
  /\ Track(c, k, [observed |-> TRUE, expected |-> Revision(k), saw |-> db[k].by,
                  managed |-> db[k].live, created |-> FALSE, dirty |-> FALSE,
                  deleted |-> FALSE])
  /\ UNCHANGED <<db, log, call, spent>>

\* Trx::create of a document that was not looked up, or was found missing.
Create(c, k) ==
  /\ call[c].at = "closure"
  /\ \/ /\ k \notin Tracked(c)
        /\ Track(c, k, [observed |-> FALSE, expected |-> {}, saw |-> 0, managed |-> TRUE,
                        created |-> TRUE, dirty |-> FALSE, deleted |-> FALSE])
     \/ /\ k \in Tracked(c) /\ ~entries[c][k].managed
        /\ Track(c, k, [entries[c][k] EXCEPT !.managed = TRUE, !.created = TRUE])
  /\ UNCHANGED <<db, log, call, spent>>

\* DocHandle::deref_mut and DocHandle::delete
Change(c, k) ==
  /\ call[c].at = "closure" /\ k \in Tracked(c) /\ entries[c][k].managed
  /\ Track(c, k, [entries[c][k] EXCEPT !.dirty = TRUE])
  /\ UNCHANGED <<db, log, call, spent>>

Delete(c, k) ==
  /\ call[c].at = "closure" /\ k \in Tracked(c) /\ entries[c][k].managed
  /\ Track(c, k, [entries[c][k] EXCEPT !.deleted = TRUE])
  /\ UNCHANGED <<db, log, call, spent>>

\* The closure ends without a commit: it cancels, or it fails - a read failed, or
\* a key was accessed a second time, or a handle outlived it (take_entries).
Abandon(c, at) ==
  /\ call[c].at = "closure" /\ Ends(c, at)
  /\ UNCHANGED <<db, log, spent>>

-----------------------------------------------------------------------------
(* The commit.                                                              *)

\* Mutant of Conditioned: only what the transaction changes is compared.
ConditionedIfChanged(e) == e.managed /\ (e.created \/ e.dirty \/ e.deleted)

\* TrackedEntry::condition: every document looked up, and every one created and
\* not deleted again.
Conditioned(e) == e.observed \/ (e.managed /\ e.created /\ ~e.deleted)

\* RevisionEquals or NotExists
Holds(k, e) == IF e.expected # {} THEN e.expected = Revision(k) ELSE ~db[k].live

\* TrackedEntry::mutation
Puts(e) == e.managed /\ ~e.deleted /\ (e.created \/ e.dirty)
Deletes(e) == e.managed /\ e.deleted /\ ~e.created

Conditions(c) == {k \in Tracked(c) : Conditioned(entries[c][k])}
Mutations(c) == {k \in Tracked(c) : Puts(entries[c][k]) \/ Deletes(entries[c][k])}
Conflicts(c) == \E k \in Conditions(c) : ~Holds(k, entries[c][k])

\* A document the closure had in hand without creating it.
Loaded(e) == e.observed /\ e.managed /\ ~e.created

\* transact, at the backend: every condition, then every mutation.  The log keeps
\* what the closure went by: the writes whose documents it loaded, and the keys it
\* took for free.
Applies(c) ==
  LET e == entries[c]
  IN /\ ~Conflicts(c)
     /\ log' = Append(log, [call |-> c,
                            puts |-> {k \in Tracked(c) : Puts(e[k])},
                            deletes |-> {k \in Tracked(c) : Deletes(e[k])},
                            loaded |-> {<<k, e[k].saw>> : k \in {j \in Tracked(c) : Loaded(e[j])}},
                            free |-> {k \in Conditions(c) : ~Loaded(e[k])}])
     /\ db' = [k \in Keys |-> IF k \notin Mutations(c) THEN db[k]
                                ELSE Written(k, Puts(e[k]), Len(log) + 1)]

\* commit_entries with nothing to ask and nothing to write
CommitEmpty(c) ==
  /\ call[c].at = "closure" /\ Conditions(c) \cup Mutations(c) = {}
  /\ Ends(c, "committed")
  /\ UNCHANGED <<db, log, spent>>

Commit(c) ==
  /\ call[c].at = "closure" /\ Conditions(c) \cup Mutations(c) # {}
  /\ Applies(c) /\ Ends(c, "committed")
  /\ UNCHANGED spent

\* A conflict runs the closure again, MAX_ATTEMPTS times in all.
CommitConflicts(c) ==
  /\ call[c].at = "closure" /\ Conflicts(c)
  /\ IF call[c].attempt + 1 >= MaxAttempts
     THEN Ends(c, "conflict")
     ELSE /\ call' = [call EXCEPT ![c] = [at |-> "new", attempt |-> @.attempt + 1]]
          /\ entries' = [entries EXCEPT ![c] = <<>>]
  /\ UNCHANGED <<db, log, spent>>

\* A request that fails may have been done; the call ends with the error.
CommitFails(c) ==
  /\ call[c].at = "closure" /\ Conditions(c) \cup Mutations(c) # {} /\ Fails
  /\ Applies(c) \/ UNCHANGED <<db, log>>
  /\ Ends(c, "failed")

-----------------------------------------------------------------------------
\* Database::put and Database::delete, which ask for nothing.
PlainWrite(k, live) ==
  /\ spent.plain < MaxPlain /\ spent' = [spent EXCEPT !.plain = @ + 1]
  /\ db' = [db EXCEPT ![k] = Written(k, live, Len(log) + 1)]
  /\ log' = Append(log, [call |-> "plain", puts |-> IF live THEN {k} ELSE {},
                         deletes |-> IF live THEN {} ELSE {k}, loaded |-> {}, free |-> {}])
  /\ UNCHANGED <<call, entries>>

TrxNext ==
  \/ \E c \in Calls :
       \/ Begin(c) \/ Abandon(c, "cancelled") \/ Abandon(c, "failed")
       \/ CommitEmpty(c) \/ Commit(c) \/ CommitConflicts(c) \/ CommitFails(c)
       \/ \E k \in Keys : Get(c, k) \/ Create(c, k) \/ Change(c, k) \/ Delete(c, k)
  \/ \E k \in Keys, live \in BOOLEAN : PlainWrite(k, live)

TrxSpec == TrxInit /\ [][TrxNext]_trxVars

-----------------------------------------------------------------------------
\* The last of the first i - 1 entries of the log that wrote k; 0 when none did.
LastWriter(k, i) ==
  LET writers == {j \in 1..(i - 1) : k \in log[j].puts \cup log[j].deletes}
  IN CHOOSE j \in writers \cup {0} : \A m \in writers : m <= j

\* A transaction that took effect saw, at that moment, exactly what its closure
\* went by: every document it loaded is still the one it loaded, and every one it
\* missed or created is not there - also the ones it only read.  And a call takes
\* effect at most once however often its closure ran, and only if the caller is
\* told so or is told an error (run, commit_entries, TrackedEntry::condition).
TrxSerial ==
  /\ \A i \in DOMAIN log :
       /\ \A l \in log[i].loaded : LastWriter(l[1], i) = l[2]
       /\ \A k \in log[i].free :
            LET j == LastWriter(k, i) IN j # 0 => k \in log[j].deletes
  /\ \A c \in Calls :
       LET effects == {i \in DOMAIN log : log[i].call = c}
       IN /\ \A i, j \in effects : i = j
          /\ effects # {} => call[c].at \in {"committed", "failed"}
=============================================================================
