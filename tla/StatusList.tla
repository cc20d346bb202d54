----------------------------- MODULE StatusList -----------------------------
(***************************************************************************)
(* The Token Status Lists of one tenant, and the status entries of one     *)
(* issuance session: credential requests allocate entries, the tenant's    *)
(* backend changes the status of the session, verifiers fetch the signed   *)
(* lists, operators delete lists or change their key.  Transactions run    *)
(* concurrently (PostgreSQL); a handler loads a list and writes it back    *)
(* under the condition that its version did not change, some handlers      *)
(* after signing a token in between.                                       *)
(*                                                                         *)
(* Lists are numbered in the order of their creation.  The indexes of a    *)
(* list are handed out in a random order and named in that order, so its   *)
(* stack is the number of indexes left and the next index is that number.  *)
(* A token is the elements it was signed for.  Versions are only compared  *)
(* for equality, so they enter as the set of the handlers that hold the    *)
(* latest version of their list.                                           *)
(***************************************************************************)
EXTENDS FiniteSets, Naturals

CONSTANTS Issues,     \* credential requests that need a status entry
          Updates,    \* POST /session/revoke for the session
          Calls,      \* GET, DELETE or PATCH (of the key chain) of a status list
          Values,     \* statuses that updates set
          Capacity,   \* entries of a list
          MaxLists,   \* bound: lists ever created
          MaxRetries, \* attempts of a versioned write (3 in the code)
          Immediate,  \* immediateUpdate of the tenant
          None

ASSUME Sizes == {Capacity, MaxLists, MaxRetries} \subseteq Nat \ {0}
ASSUME ValuesAreStatuses == Values \subseteq {0, 1, 2}
ASSUME ImmediateIsBoolean == Immediate \in BOOLEAN
ASSUME KindsDiffer ==
    Issues \cap Updates = {} /\ Issues \cap Calls = {} /\ Updates \cap Calls = {}

VARIABLES
    list,     \* the table of lists
    created,  \* how many lists were ever created
    mapping,  \* the status mappings of the session: <<list, index>>
    at,       \* where each handler is
    on,       \* the list each handler works on
    latest,   \* the handlers whose loaded row still is the latest version
    left,     \* the stack that each credential request loaded
    seen,     \* the elements that each handler loaded
    tries,    \* failed attempts of the handler's current versioned write
    signs,    \* failed attempts of its current token generation
    entry,    \* the status entry each issued credential refers to
    value,    \* the status each update sets
    todo,     \* the entries an update has still to write, but the current one
    current,  \* the entry it is writing
    wrote     \* the entries it has written

rows == <<list, created, mapping>>
work == <<on, latest, left, seen, tries, signs>>
update == <<value, todo, current, wrote>>
vars == <<rows, at, work, entry, update>>

Handlers == Issues \cup Updates \cup Calls
Lists == 1..MaxLists
Indexes == 1..Capacity
Statuses == {0, 1, 2}      \* valid, revoked, suspended
Revoked == 1
Elements == [Indexes -> Statuses]
Row == [stored : BOOLEAN, left : 0..Capacity, elements : Elements,
        token : Elements \cup {None}]
Entry == Lists \X Indexes

NewRow == [stored |-> TRUE, left |-> Capacity, elements |-> [k \in Indexes |-> 0],
           token |-> None]
NoRow == [NewRow EXCEPT !.stored = FALSE]

\* The tenant has one list, made by createNewList, whose first token was signed.
Init ==
    /\ list = [l \in Lists |-> IF l = 1 THEN [NewRow EXCEPT !.token = NewRow.elements]
                               ELSE NoRow]
    /\ created = 1
    /\ mapping = {}
    /\ at = [h \in Handlers |-> "idle"]
    /\ on = [h \in Handlers |-> 1]
    /\ latest = {}
    /\ left = [i \in Issues |-> 0]
    /\ seen = [h \in Handlers |-> NewRow.elements]
    /\ tries = [h \in Handlers |-> 0]
    /\ signs = [h \in Handlers |-> 0]
    /\ entry = [i \in Issues |-> None]
    /\ value = [u \in Updates |-> 0]
    /\ todo = [u \in Updates |-> {}]
    /\ current = [u \in Updates |-> None]
    /\ wrote = [u \in Updates |-> {}]

Go(h, place) == at' = [at EXCEPT ![h] = place]

MutantUnchanged(h) == list[on[h]].stored  \* forgets the version

\* WHERE clause of every versioned write: the list is still the one loaded.
Unchanged(h) == list[on[h]].stored /\ h \in latest

\* The write of a handler that passed it: whoever loaded the list before, the
\* writer included, has an old version.
Store(h, row) ==
    /\ list' = [list EXCEPT ![on[h]] = row]
    /\ latest' = {g \in latest : on[g] # on[h]}

\* An attempt failed: again from place on, until MaxRetries attempts have failed.
Retry(h, place) ==
    /\ tries' = [tries EXCEPT ![h] = @ + 1]
    /\ Go(h, IF tries'[h] < MaxRetries THEN place ELSE "unavailable")
-----------------------------------------------------------------------------
(***************************************************************************)
(* A credential request allocates an entry.                                *)
(***************************************************************************)
Available == {l \in Lists : list[l].stored /\ list[l].left > 0}

\* findAvailableListForAllocation: the oldest list that is not full, or a new one.
IssueFind(i) ==
    /\ at[i] \in {"idle", "find", "find again"}
    /\ IF Available # {}
       THEN /\ \E l \in Available :
                  /\ \A m \in Available : l <= m
                  /\ on' = [on EXCEPT ![i] = l]
                  /\ left' = [left EXCEPT ![i] = list[l].left]
            /\ latest' = latest \cup {i}
            /\ Go(i, "claim")
            /\ UNCHANGED tries
       ELSE /\ IF at[i] = "find again" THEN Retry(i, "find")
               ELSE Go(i, "create") /\ UNCHANGED tries
            /\ UNCHANGED <<on, left, latest>>
    /\ UNCHANGED <<rows, seen, signs, entry, update>>

MutantClaims(i) == list[on[i]].stored  \* neither version nor unique constraint

\* The versioned update and the unique constraint of the inserted mapping, which
\* commit together or not at all.
Claims(i) == Unchanged(i) /\ <<on[i], left[i]>> \notin mapping

IssueClaim(i) ==
    /\ at[i] = "claim"
    /\ IF Claims(i)
       THEN /\ Store(i, [list[on[i]] EXCEPT !.left = left[i] - 1])
            /\ mapping' = mapping \cup {<<on[i], left[i]>>}
            /\ entry' = [entry EXCEPT ![i] = <<on[i], left[i]>>]
            /\ Go(i, "issued")
            /\ UNCHANGED tries
       ELSE /\ Retry(i, "find")
            /\ UNCHANGED <<list, latest, mapping, entry>>
    /\ UNCHANGED <<created, on, left, seen, signs, update>>

\* createNewList, outside of the transaction; its token is signed before use.
IssueCreate(i) ==
    /\ at[i] = "create"
    /\ created < MaxLists
    /\ created' = created + 1
    /\ list' = [list EXCEPT ![created'] = NewRow]
    /\ on' = [on EXCEPT ![i] = created']
    /\ signs' = [signs EXCEPT ![i] = 0]
    /\ Go(i, "sign")
    /\ UNCHANGED <<mapping, latest, left, seen, tries, entry, update>>

Issue(i) == IssueFind(i) \/ IssueClaim(i) \/ IssueCreate(i)
-----------------------------------------------------------------------------
(***************************************************************************)
(* regenerateListTokens, of whatever handler needs a token.                *)
(***************************************************************************)
\* Loads the list and signs its elements, unless its key cannot sign.
Sign(h) ==
    /\ at[h] = "sign"
    /\ seen' = [seen EXCEPT ![h] = list[on[h]].elements]
    /\ latest' = latest \cup {h}
    /\ \/ list[on[h]].stored /\ Go(h, "publish")
       \/ list[on[h]].stored /\ Go(h, "unavailable")
       \/ ~list[on[h]].stored /\ Go(h, "not found")
    /\ UNCHANGED <<rows, on, left, tries, signs, entry, update>>

\* What follows a token: the allocation starts again, an update goes on.
AfterToken(h) ==
    CASE h \in Issues -> Go(h, "find again") /\ UNCHANGED <<todo, current>>
      [] h \in Updates /\ todo[h] # {} ->
            \E e \in todo[h] : /\ todo' = [todo EXCEPT ![h] = @ \ {e}]
                               /\ current' = [current EXCEPT ![h] = e]
                               /\ Go(h, "write")
      [] OTHER -> Go(h, "done") /\ UNCHANGED <<todo, current>>

\* createListJWT stores a token only with the elements it was signed for.
Publish(h) ==
    /\ at[h] = "publish"
    /\ IF Unchanged(h)
       THEN /\ Store(h, [list[on[h]] EXCEPT !.token = seen[h]])
            /\ AfterToken(h)
            /\ UNCHANGED signs
       ELSE /\ signs' = [signs EXCEPT ![h] = @ + 1]
            /\ Go(h, IF signs'[h] < MaxRetries THEN "sign" ELSE "unavailable")
            /\ UNCHANGED <<list, latest, todo, current>>
    /\ UNCHANGED <<created, mapping, on, left, seen, tries, entry, value, wrote>>
-----------------------------------------------------------------------------
(***************************************************************************)
(* The backend changes the status of every credential of the session.      *)
(***************************************************************************)
\* updateStatus finds the entries of the session.
UpdateFind(u) ==
    /\ at[u] = "idle"
    /\ value' \in {[value EXCEPT ![u] = s] : s \in Values}
    /\ todo' = [todo EXCEPT ![u] = mapping]
    /\ Go(u, IF mapping = {} THEN "conflict" ELSE "check")
    /\ UNCHANGED <<rows, work, entry, current, wrote>>

MutantAllowed(now, next) == TRUE  \* a revoked entry may be reinstated

\* statusTransitionAllowed: revocation is final.
Allowed(now, next) == now = Revoked => next = Revoked

StatusOf(e) == IF list[e[1]].stored THEN list[e[1]].elements[e[2]] ELSE 0

\* setEntries checks every entry before it writes the first one.
UpdateCheck(u) ==
    /\ at[u] = "check"
    /\ IF \A e \in todo[u] : Allowed(StatusOf(e), value[u])
       THEN \E e \in todo[u] : /\ todo' = [todo EXCEPT ![u] = @ \ {e}]
                               /\ current' = [current EXCEPT ![u] = e]
                               /\ Go(u, "write")
       ELSE Go(u, "conflict") /\ UNCHANGED <<todo, current>>
    /\ UNCHANGED <<rows, work, entry, value, wrote>>

\* setEntryTransaction loads the list and checks the entry again ...
UpdateLoad(u) ==
    /\ at[u] = "write"
    /\ LET l == current[u][1]
       IN  /\ on' = [on EXCEPT ![u] = l]
           /\ seen' = [seen EXCEPT ![u] = list[l].elements]
           /\ latest' = latest \cup {u}
           /\ Go(u, CASE ~list[l].stored -> "not found"
                      [] list[l].stored /\ ~Allowed(StatusOf(current[u]), value[u]) -> "conflict"
                      [] OTHER -> "store")
    /\ UNCHANGED <<rows, left, tries, signs, entry, update>>

\* ... and writes all its elements; with immediateUpdate the token follows.
UpdateStore(u) ==
    /\ at[u] = "store"
    /\ IF Unchanged(u)
       THEN /\ Store(u, [list[on[u]] EXCEPT
                            !.elements = [seen[u] EXCEPT ![current[u][2]] = value[u]]])
            /\ wrote' = [wrote EXCEPT ![u] = @ \cup {current[u]}]
            /\ tries' = [tries EXCEPT ![u] = 0]
            /\ signs' = [signs EXCEPT ![u] = 0]
            /\ IF Immediate THEN Go(u, "sign") /\ UNCHANGED <<todo, current>>
               ELSE AfterToken(u)
       ELSE /\ Retry(u, "write")
            /\ UNCHANGED <<list, latest, signs, todo, current, wrote>>
    /\ UNCHANGED <<created, mapping, on, left, seen, entry, value>>

Update(u) == UpdateFind(u) \/ UpdateCheck(u) \/ UpdateLoad(u) \/ UpdateStore(u)
-----------------------------------------------------------------------------
(***************************************************************************)
(* Verifiers and operators.                                                *)
(***************************************************************************)
\* getListJwt, getListCwt: a token that is missing or past its ttl is renewed.
Read(r) ==
    /\ at[r] = "idle"
    /\ \E l \in 1..created :
          /\ on' = [on EXCEPT ![r] = l]
          /\ \/ ~list[l].stored /\ Go(r, "not found")
             \/ list[l].stored /\ Go(r, "sign")
             \/ list[l].stored /\ list[l].token # None /\ Go(r, "done")
    /\ UNCHANGED <<rows, latest, left, seen, tries, signs, entry, update>>

\* deleteList counts the mappings of the list, then deletes it and, by cascade,
\* whatever mappings it has by then.
DeleteCount(d) ==
    /\ at[d] = "idle"
    /\ \E l \in 1..created :
          /\ on' = [on EXCEPT ![d] = l]
          /\ Go(d, CASE ~list[l].stored -> "not found"
                     [] list[l].stored /\ \E e \in mapping : e[1] = l -> "conflict"
                     [] OTHER -> "delete")
    /\ UNCHANGED <<rows, latest, left, seen, tries, signs, entry, update>>

DeleteRow(d) ==
    /\ at[d] = "delete"
    /\ list' = [list EXCEPT ![on[d]] = NoRow]
    /\ mapping' = {e \in mapping : e[1] # on[d]}
    /\ Go(d, "done")
    /\ UNCHANGED <<created, work, entry, update>>

\* updateList validates the new key, then drops the tokens of the old one.
RekeyLoad(k) ==
    /\ at[k] = "idle"
    /\ \E l \in 1..created :
          /\ on' = [on EXCEPT ![k] = l]
          /\ Go(k, IF list[l].stored THEN "rekey" ELSE "not found")
    /\ latest' = latest \cup {k}
    /\ UNCHANGED <<rows, left, seen, tries, signs, entry, update>>

RekeyStore(k) ==
    /\ at[k] = "rekey"
    /\ IF Unchanged(k)
       THEN Store(k, [list[on[k]] EXCEPT !.token = None]) /\ Go(k, "sign")
       ELSE Go(k, "conflict") /\ UNCHANGED <<list, latest>>
    /\ UNCHANGED <<created, mapping, on, left, seen, tries, signs, entry, update>>

Call(c) == Read(c) \/ DeleteCount(c) \/ DeleteRow(c) \/ RekeyLoad(c) \/ RekeyStore(c)

Next ==
    \/ \E i \in Issues : Issue(i)
    \/ \E h \in Handlers : Sign(h) \/ Publish(h)
    \/ \E u \in Updates : Update(u)
    \/ \E c \in Calls : Call(c)

Spec == Init /\ [][Next]_vars
-----------------------------------------------------------------------------
(***************************************************************************)
(* Properties.                                                             *)
(***************************************************************************)
Places == {"idle", "find", "find again", "claim", "create", "issued", "sign", "publish",
           "check", "write", "store", "delete", "rekey",
           "done", "conflict", "not found", "unavailable"}

TypeOK ==
    /\ list \in [Lists -> Row]
    /\ created \in Lists
    /\ mapping \subseteq Entry
    /\ at \in [Handlers -> Places]
    /\ on \in [Handlers -> Lists]
    /\ latest \subseteq Handlers
    /\ left \in [Issues -> 0..Capacity]
    /\ seen \in [Handlers -> Elements]
    /\ tries \in [Handlers -> 0..MaxRetries]
    /\ signs \in [Handlers -> 0..MaxRetries]
    /\ entry \in [Issues -> Entry \cup {None}]
    /\ value \in [Updates -> Statuses]
    /\ todo \in [Updates -> SUBSET Entry]
    /\ current \in [Updates -> Entry \cup {None}]
    /\ wrote \in [Updates -> SUBSET Entry]

\* Whatever requests allocate at once, each credential gets an entry of its own,
\* and a list accounts for all its entries: what left the stack is mapped, once.
EntriesConserved ==
    /\ \A i, j \in Issues : entry[i] = entry[j] /\ entry[i] # None => i = j
    /\ \A l \in Lists : list[l].stored =>
          \A k \in Indexes : k <= list[l].left <=> <<l, k>> \notin mapping

\* "Revocation is final" (revocation.md), whatever updates overlap: an entry of a
\* list that is revoked stays revoked, also when writers of other entries loaded
\* the list before.
RevocationFinal ==
    [][\A l \in Lists, k \in Indexes :
          list[l].elements[k] = Revoked /\ list'[l].stored =>
              list'[l].elements[k] = Revoked]_vars

\* With immediateUpdate, a revocation that was answered with success is in the
\* token that verifiers fetch, however other updates, key changes and requests
\* for tokens overlap.  (A token that was dropped is signed at the next request.)
RevocationsPublished ==
    \A u \in Updates : Immediate /\ at[u] = "done" /\ value[u] = Revoked =>
        \A e \in wrote[u] :
            LET row == list[e[1]]
            IN  row.stored /\ row.token # None => row.token[e[2]] = Revoked

\* No handler that signed earlier puts an older token back: once verifiers can
\* see a revocation, no later token hides it.
TokensNeverForget ==
    [][\A l \in Lists :
          list[l].token # None /\ list'[l].stored /\ list'[l].token # None =>
              \A k \in Indexes :
                  list[l].token[k] = Revoked => list'[l].token[k] = Revoked]_vars
=============================================================================
