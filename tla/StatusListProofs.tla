-------------------------- MODULE StatusListProofs --------------------------
(***************************************************************************)
(* The safety of status lists for every number of credential requests,     *)
(* status changes, verifiers and operators, and lists of every capacity.   *)
(*                                                                         *)
(* The argument: a handler that holds the latest version of its list holds *)
(* the content of its list (Fresh), because every write of a list makes    *)
(* the versions that others hold old.  So a versioned write changes what   *)
(* it says and nothing else: a stack loses the index that was mapped, the  *)
(* elements change at one allowed place, a token is that of the elements.  *)
(***************************************************************************)
EXTENDS StatusList, TLAPS

\* A handler that goes on has an attempt left.
Attempts ==
    \A h \in Handlers : at[h] # "unavailable" =>
        tries[h] < MaxRetries /\ signs[h] < MaxRetries

\* What each place of a handler takes for granted.
IssuePlaced(i) == at[i] = "claim" => left[i] \in Indexes
UpdatePlaced(u) ==
    /\ at[u] \in {"idle", "check"} => wrote[u] = {}
    /\ \A e \in todo[u] \cup wrote[u] : e[1] <= created
    /\ at[u] = "write" => current[u] \in Entry /\ current[u][1] <= created
    /\ at[u] \in {"store", "sign", "publish"} => current[u] \in Entry /\ on[u] = current[u][1]
Placed ==
    /\ \A h \in Handlers : on[h] <= created
    /\ \A i \in Issues : IssuePlaced(i)
    /\ \A u \in Updates : UpdatePlaced(u)

\* Whoever holds the latest version of a list holds its content.
FreshOf(h) ==
    h \in latest /\ list[on[h]].stored =>
        /\ h \in Issues /\ at[h] = "claim" => left[h] = list[on[h]].left
        /\ at[h] \in {"store", "publish"} => seen[h] = list[on[h]].elements
Fresh == \A h \in Handlers : FreshOf(h)

\* Lists to come are empty, mappings go with their list, and a token shows no
\* revocation that is not in the elements.
Tables ==
    /\ \A l \in Lists : l > created => list[l] = NoRow
    /\ \A e \in mapping : list[e[1]].stored
    /\ \A l \in Lists : list[l].stored /\ list[l].token # None =>
          \A k \in Indexes : list[l].token[k] = Revoked => list[l].elements[k] = Revoked

\* The entry of an issued credential is mapped as long as its list exists.
EntryKnown(i) ==
    entry[i] # None =>
        entry[i][1] <= created /\ (list[entry[i][1]].stored => entry[i] \in mapping)
Mapped ==
    /\ \A i \in Issues : EntryKnown(i)
    /\ EntriesConserved

\* An update writes what its check of the row allowed, what it revoked stays
\* revoked, and is published before it goes on to its next entry.
Pending(u, e) == e = current[u] /\ at[u] \notin {"write", "store", "done"}
WrittenBy(u) ==
    /\ at[u] = "store" => Allowed(seen[u][current[u][2]], value[u])
    /\ \A e \in wrote[u] : value[u] = Revoked /\ list[e[1]].stored =>
          /\ list[e[1]].elements[e[2]] = Revoked
          /\ Immediate /\ list[e[1]].token # None /\ ~Pending(u, e) =>
                list[e[1]].token[e[2]] = Revoked
Written == \A u \in Updates : WrittenBy(u)

IInv == /\ TypeOK /\ Attempts /\ Placed /\ Fresh /\ Tables /\ Mapped /\ Written
-----------------------------------------------------------------------------
(***************************************************************************)
(* Types.                                                                  *)
(***************************************************************************)
LEMMA NewRowType == NewRow \in Row /\ NoRow \in Row
<1>1. NewRow \in Row
  BY Sizes DEF NewRow, Row, Elements, Statuses
<1> QED
  BY <1>1 DEF NoRow, Row

LEMMA RowTypes ==
    ASSUME NEW row \in Row
    PROVE  /\ \A n \in 0..Capacity : [row EXCEPT !.left = n] \in Row
           /\ \A t \in Elements \cup {None} : [row EXCEPT !.token = t] \in Row
           /\ \A e \in Elements : [row EXCEPT !.elements = e] \in Row
BY DEF Row

LEMMA CreatedNat == TypeOK => created \in Nat
BY Sizes DEF TypeOK, Lists

LEMMA GoType ==
    ASSUME at \in [Handlers -> Places], NEW h \in Handlers, NEW place \in Places, Go(h, place)
    PROVE  at' \in [Handlers -> Places]
BY DEF Go

LEMMA StoreType ==
    ASSUME list \in [Lists -> Row], latest \subseteq Handlers, NEW h \in Handlers,
           on[h] \in Lists, NEW row \in Row, Store(h, row)
    PROVE  list' \in [Lists -> Row] /\ latest' \subseteq Handlers
BY DEF Store

LEMMA RetryType ==
    ASSUME TypeOK, Attempts, NEW h \in Handlers, at[h] # "unavailable",
           NEW place \in Places, Retry(h, place)
    PROVE  at' \in [Handlers -> Places] /\ tries' \in [Handlers -> 0..MaxRetries]
<1>1. tries[h] \in 0..MaxRetries /\ tries[h] < MaxRetries /\ MaxRetries \in Nat
  BY Sizes DEF TypeOK, Attempts
<1>2. tries' = [tries EXCEPT ![h] = @ + 1]
  BY DEF Retry
<1>3. tries' \in [Handlers -> 0..MaxRetries]
  BY <1>1, <1>2 DEF TypeOK
<1>4. Go(h, place) \/ Go(h, "unavailable")
  BY DEF Retry
<1>5. at' \in [Handlers -> Places]
  BY <1>4, GoType DEF TypeOK, Places
<1> QED
  BY <1>3, <1>5

LEMMA TypeInit == Init => TypeOK
<1> SUFFICES ASSUME Init PROVE TypeOK
  OBVIOUS
<1>1. NewRow \in Row /\ NoRow \in Row /\ NewRow.elements \in Elements
  BY NewRowType DEF Row
<1>2. [NewRow EXCEPT !.token = NewRow.elements] \in Row
  BY <1>1, RowTypes
<1>3. list \in [Lists -> Row]
  BY <1>1, <1>2 DEF Init
<1>4. 1 \in Lists /\ created = 1 /\ 0 \in 0..Capacity /\ 0 \in 0..MaxRetries /\ 0 \in Statuses
  BY Sizes DEF Init, Lists, Statuses
<1>5. left \in [Issues -> 0..Capacity] /\ value \in [Updates -> Statuses]
  BY <1>4 DEF Init
<1>6. at \in [Handlers -> Places] /\ on \in [Handlers -> Lists]
  BY <1>4 DEF Init, Places
<1>7. tries \in [Handlers -> 0..MaxRetries] /\ signs \in [Handlers -> 0..MaxRetries]
  BY <1>4 DEF Init
<1>8. seen \in [Handlers -> Elements]
  BY <1>1 DEF Init
<1> QED
  BY <1>3, <1>4, <1>5, <1>6, <1>7, <1>8 DEF Init, TypeOK

LEMMA IssueTypes ==
    ASSUME IInv, NEW i \in Issues, Issue(i)
    PROVE  TypeOK'
<1>0. i \in Handlers
  BY DEF Handlers
<1>1. CASE IssueFind(i)
  <2>0. UNCHANGED <<rows, seen, signs, entry, update>> /\ at[i] # "unavailable"
    BY <1>1 DEF IssueFind
  <2>1. CASE Available # {}
    <3>1. PICK l \in Available : on' = [on EXCEPT ![i] = l] /\ left' = [left EXCEPT ![i] = list[l].left]
      BY <1>1, <2>1 DEF IssueFind
    <3>2. l \in Lists /\ list[l].left \in 0..Capacity
      BY <3>1 DEF Available, IInv, TypeOK, Row
    <3>3. on' \in [Handlers -> Lists] /\ left' \in [Issues -> 0..Capacity]
      BY <3>1, <3>2 DEF IInv, TypeOK
    <3>4. latest' \subseteq Handlers /\ tries' = tries /\ Go(i, "claim")
      BY <1>0, <1>1, <2>1 DEF IssueFind, IInv, TypeOK
    <3>5. at' \in [Handlers -> Places]
      BY <1>0, <3>4, GoType DEF IInv, TypeOK, Places
    <3> QED
      BY <2>0, <3>3, <3>4, <3>5 DEF IInv, TypeOK, rows, update
  <2>2. CASE Available = {}
    <3>1. UNCHANGED <<on, left, latest>>
      BY <1>1, <2>2 DEF IssueFind
    <3>2. Retry(i, "find") \/ (Go(i, "create") /\ tries' = tries)
      BY <1>1, <2>2 DEF IssueFind
    <3>3. at' \in [Handlers -> Places] /\ tries' \in [Handlers -> 0..MaxRetries]
      BY <1>0, <2>0, <3>2, GoType, RetryType DEF IInv, TypeOK, Places
    <3> QED
      BY <2>0, <3>1, <3>3 DEF IInv, TypeOK, rows, update
  <2> QED
    BY <2>1, <2>2
<1>2. CASE IssueClaim(i)
  <2>0. /\ UNCHANGED <<created, on, left, seen, signs, update>> /\ at[i] = "claim"
        /\ left[i] \in Indexes /\ on[i] \in Lists
    BY <1>0, <1>2 DEF IssueClaim, IInv, Placed, IssuePlaced, TypeOK
  <2>1. CASE Claims(i)
    <3>1. left[i] - 1 \in 0..Capacity /\ <<on[i], left[i]>> \in Entry
      BY <2>0, Sizes DEF Indexes, Entry
    <3>2. [list[on[i]] EXCEPT !.left = left[i] - 1] \in Row
      BY <2>0, <3>1, RowTypes DEF IInv, TypeOK
    <3>3. list' \in [Lists -> Row] /\ latest' \subseteq Handlers
      BY <1>0, <1>2, <2>0, <2>1, <3>2, StoreType DEF IssueClaim, IInv, TypeOK
    <3>4. /\ mapping' \subseteq Entry /\ entry' \in [Issues -> Entry \cup {None}]
          /\ Go(i, "issued") /\ tries' = tries
      BY <1>2, <2>1, <3>1 DEF IssueClaim, IInv, TypeOK
    <3>5. at' \in [Handlers -> Places]
      BY <1>0, <3>4, GoType DEF IInv, TypeOK, Places
    <3> QED
      BY <2>0, <3>3, <3>4, <3>5 DEF IInv, TypeOK, update
  <2>2. CASE ~Claims(i)
    <3>1. Retry(i, "find") /\ UNCHANGED <<list, latest, mapping, entry>>
      BY <1>2, <2>2 DEF IssueClaim
    <3>2. at' \in [Handlers -> Places] /\ tries' \in [Handlers -> 0..MaxRetries]
      BY <1>0, <2>0, <3>1, RetryType DEF IInv, Places
    <3> QED
      BY <2>0, <3>1, <3>2 DEF IInv, TypeOK, update
  <2> QED
    BY <2>1, <2>2
<1>3. CASE IssueCreate(i)
  <2>0. created' \in Lists
    BY <1>3, Sizes DEF IssueCreate, IInv, TypeOK, Lists
  <2>1. list' \in [Lists -> Row] /\ on' \in [Handlers -> Lists]
    BY <1>3, <2>0, NewRowType DEF IssueCreate, IInv, TypeOK
  <2>2. signs' \in [Handlers -> 0..MaxRetries]
    <3>1. 0 \in 0..MaxRetries /\ signs' = [signs EXCEPT ![i] = 0]
      BY <1>3, Sizes DEF IssueCreate
    <3> QED
      BY <3>1 DEF IInv, TypeOK
  <2>3. at' \in [Handlers -> Places]
    BY <1>0, <1>3, GoType DEF IssueCreate, IInv, TypeOK, Places
  <2> QED
    BY <1>3, <2>0, <2>1, <2>2, <2>3 DEF IssueCreate, IInv, TypeOK, update
<1> QED
  BY <1>1, <1>2, <1>3 DEF Issue

LEMMA SignTypes ==
    ASSUME IInv, NEW h \in Handlers, Sign(h)
    PROVE  TypeOK'
<1>1. list[on[h]].elements \in Elements
  BY DEF IInv, TypeOK, Row
<1>2. seen' \in [Handlers -> Elements] /\ latest' \subseteq Handlers
  BY <1>1 DEF Sign, IInv, TypeOK
<1>3. at' \in [Handlers -> Places]
  BY GoType DEF Sign, IInv, TypeOK, Places
<1> QED
  BY <1>2, <1>3 DEF Sign, IInv, TypeOK, rows, update

LEMMA AfterTokenTypes ==
    ASSUME TypeOK, NEW h \in Handlers, AfterToken(h)
    PROVE  /\ at' \in [Handlers -> Places]
           /\ todo' \in [Updates -> SUBSET Entry]
           /\ current' \in [Updates -> Entry \cup {None}]
<1>1. CASE h \in Updates /\ todo[h] # {} /\ h \notin Issues
  <2>1. PICK e \in todo[h] : /\ todo' = [todo EXCEPT ![h] = @ \ {e}]
                             /\ current' = [current EXCEPT ![h] = e]
                             /\ Go(h, "write")
    BY <1>1 DEF AfterToken
  <2>2. e \in Entry /\ todo[h] \ {e} \in SUBSET Entry
    BY <1>1, <2>1 DEF TypeOK
  <2>3. at' \in [Handlers -> Places]
    BY <2>1, GoType DEF TypeOK, Places
  <2> QED
    BY <2>1, <2>2, <2>3 DEF TypeOK
<1>2. CASE ~(h \in Updates /\ todo[h] # {} /\ h \notin Issues)
  <2>1. (Go(h, "find again") \/ Go(h, "done")) /\ UNCHANGED <<todo, current>>
    BY <1>2, KindsDiffer DEF AfterToken
  <2> QED
    BY <2>1, GoType DEF TypeOK, Places
<1> QED
  BY <1>1, <1>2

LEMMA PublishTypes ==
    ASSUME IInv, NEW h \in Handlers, Publish(h)
    PROVE  TypeOK'
<1>0. /\ UNCHANGED <<created, mapping, on, left, seen, tries, entry, value, wrote>>
      /\ at[h] = "publish" /\ on[h] \in Lists /\ TypeOK
  BY DEF Publish, IInv, TypeOK
<1>1. CASE Unchanged(h)
  <2>1. [list[on[h]] EXCEPT !.token = seen[h]] \in Row
    BY <1>0, RowTypes DEF TypeOK
  <2>2. list' \in [Lists -> Row] /\ latest' \subseteq Handlers
    BY <1>0, <1>1, <2>1, StoreType DEF Publish, TypeOK
  <2>3. AfterToken(h) /\ signs' = signs
    BY <1>1 DEF Publish
  <2> QED
    BY <1>0, <2>2, <2>3, AfterTokenTypes DEF TypeOK
<1>2. CASE ~Unchanged(h)
  <2>1. /\ signs' = [signs EXCEPT ![h] = @ + 1] /\ UNCHANGED <<list, latest, todo, current>>
        /\ Go(h, "sign") \/ Go(h, "unavailable")
    BY <1>2 DEF Publish
  <2>2. signs[h] \in 0..MaxRetries /\ signs[h] < MaxRetries /\ MaxRetries \in Nat
    BY <1>0, Sizes DEF TypeOK, IInv, Attempts
  <2>3. signs' \in [Handlers -> 0..MaxRetries]
    BY <1>0, <2>1, <2>2 DEF TypeOK
  <2>4. at' \in [Handlers -> Places]
    BY <1>0, <2>1, GoType DEF TypeOK, Places
  <2> QED
    BY <1>0, <2>1, <2>3, <2>4 DEF TypeOK
<1> QED
  BY <1>1, <1>2

LEMMA UpdateTypes ==
    ASSUME IInv, NEW u \in Updates, Update(u)
    PROVE  TypeOK'
<1>0. u \in Handlers /\ TypeOK
  BY DEF Handlers, IInv
<1>1. CASE UpdateFind(u)
  <2>1. PICK s \in Values : value' = [value EXCEPT ![u] = s]
    BY <1>1 DEF UpdateFind
  <2>2. value' \in [Updates -> Statuses]
    BY <1>0, <2>1, ValuesAreStatuses DEF TypeOK, Statuses
  <2>3. todo' \in [Updates -> SUBSET Entry]
    BY <1>0, <1>1 DEF UpdateFind, TypeOK
  <2>4. Go(u, "conflict") \/ Go(u, "check")
    BY <1>1 DEF UpdateFind
  <2>5. at' \in [Handlers -> Places]
    BY <1>0, <2>4, GoType DEF TypeOK, Places
  <2> QED
    BY <1>0, <1>1, <2>2, <2>3, <2>5 DEF UpdateFind, TypeOK, rows, work
<1>2. CASE UpdateCheck(u)
  <2>1. \/ /\ Go(u, "conflict") /\ UNCHANGED <<todo, current>>
        \/ \E e \in todo[u] : /\ todo' = [todo EXCEPT ![u] = @ \ {e}]
                              /\ current' = [current EXCEPT ![u] = e]
                              /\ Go(u, "write")
    BY <1>2 DEF UpdateCheck
  <2>2. todo' \in [Updates -> SUBSET Entry] /\ current' \in [Updates -> Entry \cup {None}]
    BY <1>0, <2>1 DEF TypeOK
  <2>3. at' \in [Handlers -> Places]
    BY <1>0, <2>1, GoType DEF TypeOK, Places
  <2> QED
    BY <1>0, <1>2, <2>2, <2>3 DEF UpdateCheck, TypeOK, rows, work
<1>3. CASE UpdateLoad(u)
  <2>1. current[u] \in Entry
    BY <1>3 DEF UpdateLoad, IInv, Placed, UpdatePlaced
  <2>2. current[u][1] \in Lists
    BY <2>1 DEF Entry
  <2>3. /\ on' = [on EXCEPT ![u] = current[u][1]]
        /\ seen' = [seen EXCEPT ![u] = list[current[u][1]].elements]
        /\ latest' = latest \cup {u}
        /\ UNCHANGED <<rows, left, tries, signs, entry, update>>
        /\ Go(u, "not found") \/ Go(u, "conflict") \/ Go(u, "store")
    BY <1>3, Zenon DEF UpdateLoad
  <2>4. list[current[u][1]].elements \in Elements
    BY <1>0, <2>2 DEF TypeOK, Row
  <2>5. on' \in [Handlers -> Lists] /\ seen' \in [Handlers -> Elements] /\ latest' \subseteq Handlers
    BY <1>0, <2>2, <2>3, <2>4 DEF TypeOK
  <2>6. at' \in [Handlers -> Places]
    BY <1>0, <2>3, GoType DEF TypeOK, Places
  <2> QED
    BY <1>0, <2>3, <2>5, <2>6 DEF TypeOK, rows, update
<1>4. CASE UpdateStore(u)
  <2>0. /\ at[u] = "store" /\ UNCHANGED <<created, mapping, on, left, seen, entry, value>>
        /\ current[u] \in Entry /\ on[u] \in Lists
    BY <1>0, <1>4 DEF UpdateStore, IInv, Placed, UpdatePlaced, TypeOK
  <2>1. CASE Unchanged(u)
    <3>1. value[u] \in Statuses /\ current[u][2] \in Indexes /\ seen[u] \in Elements
      BY <1>0, <2>0 DEF TypeOK, Entry
    <3>2. [seen[u] EXCEPT ![current[u][2]] = value[u]] \in Elements
      BY <3>1 DEF Elements
    <3>3. [list[on[u]] EXCEPT !.elements = [seen[u] EXCEPT ![current[u][2]] = value[u]]] \in Row
      BY <1>0, <2>0, <3>2, RowTypes DEF TypeOK
    <3>4. list' \in [Lists -> Row] /\ latest' \subseteq Handlers
      BY <1>0, <1>4, <2>0, <2>1, <3>3, StoreType DEF UpdateStore, TypeOK
    <3>5. 0 \in 0..MaxRetries
      BY Sizes
    <3>6. /\ tries' \in [Handlers -> 0..MaxRetries] /\ signs' \in [Handlers -> 0..MaxRetries]
          /\ wrote' \in [Updates -> SUBSET Entry]
      BY <1>0, <1>4, <2>0, <2>1, <3>5 DEF UpdateStore, TypeOK
    <3>7. AfterToken(u) \/ (Go(u, "sign") /\ UNCHANGED <<todo, current>>)
      BY <1>4, <2>1 DEF UpdateStore
    <3>8. /\ at' \in [Handlers -> Places] /\ todo' \in [Updates -> SUBSET Entry]
          /\ current' \in [Updates -> Entry \cup {None}]
      BY <1>0, <3>7, AfterTokenTypes, GoType DEF TypeOK, Places
    <3> QED
      BY <1>0, <2>0, <3>4, <3>6, <3>8 DEF TypeOK
  <2>2. CASE ~Unchanged(u)
    <3>1. Retry(u, "write") /\ UNCHANGED <<list, latest, signs, todo, current, wrote>>
      BY <1>4, <2>2 DEF UpdateStore
    <3>2. at' \in [Handlers -> Places] /\ tries' \in [Handlers -> 0..MaxRetries]
      BY <1>0, <2>0, <3>1, RetryType DEF IInv, Places
    <3> QED
      BY <1>0, <2>0, <3>1, <3>2 DEF TypeOK
  <2> QED
    BY <2>1, <2>2
<1> QED
  BY <1>1, <1>2, <1>3, <1>4 DEF Update

LEMMA CallTypes ==
    ASSUME IInv, NEW c \in Calls, Call(c)
    PROVE  TypeOK'
<1>0. c \in Handlers /\ TypeOK /\ \A l \in 1..created : l \in Lists
  BY Sizes DEF Handlers, IInv, TypeOK, Lists
<1>1. CASE Read(c) \/ DeleteCount(c) \/ RekeyLoad(c)
  <2>1. /\ UNCHANGED <<rows, left, seen, tries, signs, entry, update>>
        /\ latest' = latest \/ latest' = latest \cup {c}
    BY <1>1 DEF Read, DeleteCount, RekeyLoad
  <2>2. \E l \in 1..created, place \in Places : on' = [on EXCEPT ![c] = l] /\ Go(c, place)
    <3>1. CASE Read(c)
      BY <3>1 DEF Read, Places
    <3>2. CASE DeleteCount(c)
      <4>1. PICK l \in 1..created :
               /\ on' = [on EXCEPT ![c] = l]
               /\ Go(c, CASE ~list[l].stored -> "not found"
                          [] list[l].stored /\ \E e \in mapping : e[1] = l -> "conflict"
                          [] OTHER -> "delete")
        BY <3>2 DEF DeleteCount
      <4>2. Go(c, "not found") \/ Go(c, "conflict") \/ Go(c, "delete")
        BY <4>1, Zenon
      <4> QED
        BY <4>1, <4>2 DEF Places
    <3>3. CASE RekeyLoad(c)
      BY <3>3 DEF RekeyLoad, Places
    <3> QED
      BY <1>1, <3>1, <3>2, <3>3
  <2>3. on' \in [Handlers -> Lists] /\ at' \in [Handlers -> Places]
    BY <1>0, <2>2, GoType DEF TypeOK
  <2> QED
    BY <1>0, <2>1, <2>3 DEF TypeOK, rows, update
<1>2. CASE DeleteRow(c)
  <2>1. list' \in [Lists -> Row]
    BY <1>0, <1>2, NewRowType DEF DeleteRow, TypeOK
  <2>2. mapping' \subseteq Entry
    BY <1>0, <1>2 DEF DeleteRow, TypeOK
  <2>3. at' \in [Handlers -> Places]
    BY <1>0, <1>2, GoType DEF DeleteRow, TypeOK, Places
  <2> QED
    BY <1>0, <1>2, <2>1, <2>2, <2>3 DEF DeleteRow, TypeOK, work, update
<1>3. CASE RekeyStore(c)
  <2>0. UNCHANGED <<created, mapping, on, left, seen, tries, signs, entry, update>> /\ on[c] \in Lists
    BY <1>0, <1>3 DEF RekeyStore, TypeOK
  <2>1. [list[on[c]] EXCEPT !.token = None] \in Row
    BY <1>0, <2>0, RowTypes DEF TypeOK
  <2>2. list' \in [Lists -> Row] /\ latest' \subseteq Handlers
    BY <1>0, <1>3, <2>0, <2>1, StoreType DEF RekeyStore, TypeOK
  <2>3. Go(c, "sign") \/ Go(c, "conflict")
    BY <1>3 DEF RekeyStore
  <2>4. at' \in [Handlers -> Places]
    BY <1>0, <2>3, GoType DEF TypeOK, Places
  <2> QED
    BY <1>0, <2>0, <2>2, <2>4 DEF TypeOK, update
<1> QED
  BY <1>1, <1>2, <1>3 DEF Call

LEMMA TypeStep == IInv /\ [Next]_vars => TypeOK'
<1>1. ASSUME IInv, UNCHANGED vars
      PROVE  TypeOK'
  BY <1>1 DEF IInv, TypeOK, vars, rows, work, update
<1> QED
  BY <1>1, IssueTypes, SignTypes, PublishTypes, UpdateTypes, CallTypes DEF Next
-----------------------------------------------------------------------------
(***************************************************************************)
(* What any step does to the lists: a list that exists after the step is   *)
(* new, or it existed, lost no revocation, and has the token it had, none  *)
(* or that of its elements.                                                *)
(***************************************************************************)
Grows(l) ==
    /\ list[l].stored
    /\ \A k \in Indexes : list[l].elements[k] = Revoked => list'[l].elements[k] = Revoked
    /\ list'[l].token \in {list[l].token, None, list'[l].elements}

RowsGrow ==
    \A l \in Lists : list'[l].stored => Grows(l) \/ (l > created /\ list'[l] = NewRow)

LEMMA SameGrow == list' = list => RowsGrow
BY DEF RowsGrow, Grows

\* The row that a versioned write stores.
LEMMA StoreGrow ==
    ASSUME TypeOK, NEW h \in Handlers, Unchanged(h), NEW row \in Row, Store(h, row),
           \A k \in Indexes :
              list[on[h]].elements[k] = Revoked => row.elements[k] = Revoked,
           row.token \in {list[on[h]].token, None, row.elements}
    PROVE  RowsGrow
BY DEF TypeOK, Unchanged, Store, RowsGrow, Grows

LEMMA IssueGrow ==
    ASSUME IInv, NEW i \in Issues, Issue(i)
    PROVE  RowsGrow
<1>0. i \in Handlers /\ TypeOK
  BY DEF Handlers, IInv
<1>1. CASE IssueFind(i) \/ (IssueClaim(i) /\ ~Claims(i))
  BY <1>1, SameGrow DEF IssueFind, IssueClaim, rows
<1>2. CASE IssueClaim(i) /\ Claims(i)
  <2> DEFINE row == [list[on[i]] EXCEPT !.left = left[i] - 1]
  <2>1. Unchanged(i) /\ Store(i, row) /\ left[i] \in Indexes
    BY <1>2 DEF IssueClaim, Claims, IInv, Placed, IssuePlaced
  <2>2. list[on[i]] \in Row /\ left[i] - 1 \in 0..Capacity
    BY <1>0, <2>1, Sizes DEF TypeOK, Indexes
  <2>3. row \in Row /\ row.elements = list[on[i]].elements /\ row.token = list[on[i]].token
    BY ONLY <2>2 DEF Row
  <2> HIDE DEF row
  <2> QED
    BY <1>0, <2>1, <2>3, StoreGrow
<1>3. CASE IssueCreate(i)
  <2>1. created' \in Lists /\ created' > created /\ list' = [list EXCEPT ![created'] = NewRow]
    BY <1>0, <1>3, Sizes DEF IssueCreate, TypeOK, Lists
  <2> QED
    BY <1>0, <2>1 DEF RowsGrow, Grows, TypeOK
<1> QED
  BY <1>1, <1>2, <1>3 DEF Issue

LEMMA PublishGrow ==
    ASSUME IInv, NEW h \in Handlers, Publish(h)
    PROVE  RowsGrow
<1>1. CASE ~Unchanged(h)
  BY <1>1, SameGrow DEF Publish
<1>2. CASE Unchanged(h)
  <2> DEFINE row == [list[on[h]] EXCEPT !.token = seen[h]]
  <2>1. Store(h, row) /\ seen[h] = list[on[h]].elements
    BY <1>2 DEF Publish, Unchanged, IInv, Fresh, FreshOf
  <2>2. list[on[h]] \in Row
    BY DEF IInv, TypeOK
  <2>3. row \in Row /\ row.elements = list[on[h]].elements /\ row.token = row.elements
    BY ONLY <2>1, <2>2 DEF Row
  <2> HIDE DEF row
  <2> QED
    BY <1>2, <2>1, <2>3, StoreGrow DEF IInv
<1> QED
  BY <1>1, <1>2

LEMMA UpdateGrow ==
    ASSUME IInv, NEW u \in Updates, Update(u)
    PROVE  RowsGrow
<1>0. u \in Handlers /\ TypeOK
  BY DEF Handlers, IInv
<1>1. CASE ~(UpdateStore(u) /\ Unchanged(u))
  BY <1>1, SameGrow DEF Update, UpdateFind, UpdateCheck, UpdateLoad, UpdateStore, rows
<1>2. CASE UpdateStore(u) /\ Unchanged(u)
  <2> DEFINE elements == [seen[u] EXCEPT ![current[u][2]] = value[u]]
             row == [list[on[u]] EXCEPT !.elements = elements]
  <2>1. Store(u, row) /\ at[u] = "store"
    BY <1>2 DEF UpdateStore
  <2>2. /\ seen[u] = list[on[u]].elements /\ seen[u] \in Elements
        /\ Allowed(seen[u][current[u][2]], value[u])
        /\ current[u][2] \in Indexes /\ value[u] \in Statuses
    BY <1>0, <1>2, <2>1 DEF Unchanged, IInv, TypeOK, Fresh, FreshOf, Written, WrittenBy,
       Placed, UpdatePlaced, Entry
  <2>3. list[on[u]] \in Row
    BY <1>0 DEF TypeOK
  <2>4. /\ elements \in Elements
        /\ \A k \in Indexes : seen[u][k] = Revoked => elements[k] = Revoked
    BY <2>2 DEF Elements, Allowed
  <2> HIDE DEF elements
  <2>5. row \in Row /\ row.elements = elements /\ row.token = list[on[u]].token
    BY ONLY <2>3, <2>4 DEF Row
  <2> HIDE DEF row
  <2> QED
    BY <1>0, <1>2, <2>1, <2>2, <2>4, <2>5, StoreGrow
<1> QED
  BY <1>1, <1>2

LEMMA CallGrow ==
    ASSUME IInv, NEW c \in Calls, Call(c)
    PROVE  RowsGrow
<1>0. c \in Handlers /\ TypeOK
  BY DEF Handlers, IInv
<1>1. CASE Read(c) \/ DeleteCount(c) \/ RekeyLoad(c) \/ (RekeyStore(c) /\ ~Unchanged(c))
  BY <1>1, SameGrow DEF Read, DeleteCount, RekeyLoad, RekeyStore, rows
<1>2. CASE DeleteRow(c)
  BY <1>0, <1>2 DEF DeleteRow, NoRow, NewRow, RowsGrow, Grows, TypeOK
<1>3. CASE RekeyStore(c) /\ Unchanged(c)
  <2> DEFINE row == [list[on[c]] EXCEPT !.token = None]
  <2>1. Store(c, row) /\ list[on[c]] \in Row
    BY <1>0, <1>3 DEF RekeyStore, TypeOK
  <2>2. row \in Row /\ row.elements = list[on[c]].elements /\ row.token = None
    BY ONLY <2>1 DEF Row
  <2> HIDE DEF row
  <2> QED
    BY <1>0, <1>3, <2>1, <2>2, StoreGrow
<1> QED
  BY <1>1, <1>2, <1>3 DEF Call

LEMMA StepGrow == IInv /\ [Next]_vars => RowsGrow
<1>1. ASSUME UNCHANGED vars \/ \E h \in Handlers : Sign(h)
      PROVE  RowsGrow
  BY <1>1, SameGrow DEF vars, rows, Sign
<1> QED
  BY <1>1, IssueGrow, PublishGrow, UpdateGrow, CallGrow DEF Next
-----------------------------------------------------------------------------
(***************************************************************************)
(* What a step of one handler leaves alone.                                *)
(***************************************************************************)
\* The state of the other handlers; they may lose the latest version.
Frame(h) ==
    /\ \A g \in Handlers \ {h} :
          /\ at'[g] = at[g] /\ on'[g] = on[g] /\ seen'[g] = seen[g]
          /\ tries'[g] = tries[g] /\ signs'[g] = signs[g]
          /\ g \in latest' => g \in latest
    /\ \A i \in Issues \ {h} : left'[i] = left[i] /\ entry'[i] = entry[i]
    /\ \A u \in Updates \ {h} : /\ value'[u] = value[u] /\ todo'[u] = todo[u]
                                /\ current'[u] = current[u] /\ wrote'[u] = wrote[u]

\* Who still has the latest version of a list has its content: no write reached it.
Kept(h) ==
    \A g \in Handlers \ {h} : g \in latest' /\ list'[on[g]].stored =>
        list[on[g]].stored /\ list'[on[g]].left = list[on[g]].left
            /\ list'[on[g]].elements = list[on[g]].elements

LEMMA GoFrame ==
    ASSUME TypeOK, NEW h \in Handlers, NEW place, Go(h, place)
    PROVE  at'[h] = place /\ \A g \in Handlers \ {h} : at'[g] = at[g]
BY DEF Go, TypeOK

LEMMA RetryFrame ==
    ASSUME TypeOK, NEW h \in Handlers, NEW place, Retry(h, place)
    PROVE  /\ at'[h] \in {place, "unavailable"}
           /\ at'[h] # "unavailable" => tries'[h] < MaxRetries
           /\ \A g \in Handlers \ {h} : at'[g] = at[g] /\ tries'[g] = tries[g]
<1>1. tries' = [tries EXCEPT ![h] = @ + 1] /\ tries'[h] = tries[h] + 1
  BY DEF Retry, TypeOK
<1>2. CASE tries'[h] < MaxRetries
  BY <1>1, <1>2, GoFrame DEF Retry, TypeOK
<1>3. CASE ~(tries'[h] < MaxRetries)
  BY <1>1, <1>3, GoFrame DEF Retry, TypeOK
<1> QED
  BY <1>2, <1>3

LEMMA StoreKept ==
    ASSUME TypeOK, NEW h \in Handlers, NEW row, Store(h, row)
    PROVE  Kept(h) /\ \A g \in Handlers : g \in latest' => g \in latest /\ on[g] # on[h]
BY DEF TypeOK, Store, Kept

LEMMA SameKept == ASSUME list' = list, NEW h PROVE Kept(h)
BY DEF Kept

LEMMA AfterTokenFrame ==
    ASSUME TypeOK, NEW h \in Handlers, AfterToken(h)
    PROVE  /\ \A g \in Handlers \ {h} : at'[g] = at[g]
           /\ \A u \in Updates \ {h} : todo'[u] = todo[u] /\ current'[u] = current[u]
           /\ h \in Issues => at'[h] = "find again"
           /\ h \notin Issues => at'[h] \in {"write", "done"}
           /\ h \in Updates /\ at'[h] = "write" => current'[h] \in todo[h]
           /\ h \in Updates => todo'[h] \subseteq todo[h]
<1>1. CASE h \in Updates /\ todo[h] # {} /\ h \notin Issues
  <2>1. PICK e \in todo[h] : /\ todo' = [todo EXCEPT ![h] = @ \ {e}]
                             /\ current' = [current EXCEPT ![h] = e]
                             /\ Go(h, "write")
    BY <1>1 DEF AfterToken
  <2> QED
    BY <1>1, <2>1, GoFrame DEF TypeOK
<1>2. CASE ~(h \in Updates /\ todo[h] # {} /\ h \notin Issues)
  <2>1. /\ todo' = todo /\ current' = current
        /\ h \in Issues => Go(h, "find again")
        /\ h \notin Issues => Go(h, "done")
    BY <1>2, KindsDiffer DEF AfterToken
  <2>2. CASE h \in Issues
    BY <2>1, <2>2, GoFrame, KindsDiffer
  <2>3. CASE h \notin Issues
    <3>1. at'[h] = "done" /\ \A g \in Handlers \ {h} : at'[g] = at[g]
      BY <2>1, <2>3, GoFrame
    <3> QED
      BY <2>1, <2>3, <3>1
  <2> QED
    BY <2>2, <2>3
<1> QED
  BY <1>1, <1>2

LEMMA IssueFrame ==
    ASSUME IInv, NEW i \in Issues, Issue(i)
    PROVE  Frame(i) /\ Kept(i)
<1>0. i \in Handlers /\ TypeOK /\ i \notin Updates
  BY KindsDiffer DEF Handlers, IInv
<1>1. CASE IssueFind(i)
  <2>0. UNCHANGED <<rows, seen, signs, entry, update>>
    BY <1>1 DEF IssueFind
  <2>1. CASE Available # {}
    <3>1. PICK l \in Available : on' = [on EXCEPT ![i] = l] /\ left' = [left EXCEPT ![i] = list[l].left]
      BY <1>1, <2>1 DEF IssueFind
    <3>2. latest' = latest \cup {i} /\ tries' = tries /\ Go(i, "claim")
      BY <1>1, <2>1 DEF IssueFind
    <3> QED
      BY <1>0, <2>0, <3>1, <3>2, GoFrame, SameKept DEF Frame, TypeOK, rows, update
  <2>2. CASE Available = {}
    <3>1. UNCHANGED <<on, left, latest>>
      BY <1>1, <2>2 DEF IssueFind
    <3>2. Retry(i, "find") \/ (Go(i, "create") /\ tries' = tries)
      BY <1>1, <2>2 DEF IssueFind
    <3> QED
      BY <1>0, <2>0, <3>1, <3>2, GoFrame, RetryFrame, SameKept DEF Frame, rows, update
  <2> QED
    BY <2>1, <2>2
<1>2. CASE IssueClaim(i)
  <2>0. UNCHANGED <<created, on, left, seen, signs, update>>
    BY <1>2 DEF IssueClaim
  <2>1. CASE Claims(i)
    <3>1. /\ Store(i, [list[on[i]] EXCEPT !.left = left[i] - 1]) /\ tries' = tries
          /\ entry' = [entry EXCEPT ![i] = <<on[i], left[i]>>] /\ Go(i, "issued")
      BY <1>2, <2>1 DEF IssueClaim
    <3> QED
      BY <1>0, <2>0, <3>1, GoFrame, StoreKept DEF Frame, TypeOK, update
  <2>2. CASE ~Claims(i)
    <3>1. Retry(i, "find") /\ UNCHANGED <<list, latest, mapping, entry>>
      BY <1>2, <2>2 DEF IssueClaim
    <3> QED
      BY <1>0, <2>0, <3>1, RetryFrame, SameKept DEF Frame, update
  <2> QED
    BY <2>1, <2>2
<1>3. CASE IssueCreate(i)
  <2>1. /\ created' = created + 1 /\ list' = [list EXCEPT ![created'] = NewRow]
        /\ on' = [on EXCEPT ![i] = created'] /\ signs' = [signs EXCEPT ![i] = 0]
        /\ Go(i, "sign") /\ UNCHANGED <<mapping, latest, left, seen, tries, entry, update>>
    BY <1>3 DEF IssueCreate
  <2>2. \A g \in Handlers : on[g] # created'
    BY <2>1 DEF IInv, Placed, TypeOK, Lists
  <2>3. Kept(i)
    BY <1>0, <2>1, <2>2 DEF Kept, TypeOK
  <2> QED
    BY <1>0, <2>1, <2>3, GoFrame DEF Frame, TypeOK, update
<1> QED
  BY <1>1, <1>2, <1>3 DEF Issue

LEMMA SignFrame ==
    ASSUME IInv, NEW h \in Handlers, Sign(h)
    PROVE  Frame(h) /\ Kept(h)
<1>1. TypeOK /\ (Go(h, "publish") \/ Go(h, "unavailable") \/ Go(h, "not found"))
  BY DEF IInv, Sign
<1>2. /\ seen' = [seen EXCEPT ![h] = list[on[h]].elements] /\ latest' = latest \cup {h}
      /\ UNCHANGED <<rows, on, left, tries, signs, entry, update>>
  BY DEF Sign
<1> QED
  BY <1>1, <1>2, GoFrame, SameKept DEF Frame, TypeOK, rows, update

LEMMA PublishFrame ==
    ASSUME IInv, NEW h \in Handlers, Publish(h)
    PROVE  Frame(h) /\ Kept(h)
<1>0. TypeOK /\ UNCHANGED <<created, mapping, on, left, seen, tries, entry, value, wrote>>
  BY DEF IInv, Publish
<1>1. CASE Unchanged(h)
  <2>1. Store(h, [list[on[h]] EXCEPT !.token = seen[h]]) /\ AfterToken(h) /\ signs' = signs
    BY <1>1 DEF Publish
  <2> QED
    BY <1>0, <2>1, AfterTokenFrame, StoreKept DEF Frame
<1>2. CASE ~Unchanged(h)
  <2>1. /\ signs' = [signs EXCEPT ![h] = @ + 1] /\ UNCHANGED <<list, latest, todo, current>>
        /\ Go(h, "sign") \/ Go(h, "unavailable")
    BY <1>2 DEF Publish
  <2> QED
    BY <1>0, <2>1, GoFrame, SameKept DEF Frame, TypeOK
<1> QED
  BY <1>1, <1>2

LEMMA UpdateFrame ==
    ASSUME IInv, NEW u \in Updates, Update(u)
    PROVE  Frame(u) /\ Kept(u)
<1>0. u \in Handlers /\ TypeOK /\ u \notin Issues
  BY KindsDiffer DEF Handlers, IInv
<1>1. CASE UpdateFind(u)
  <2>1. PICK s \in Values : value' = [value EXCEPT ![u] = s]
    BY <1>1 DEF UpdateFind
  <2>2. /\ todo' = [todo EXCEPT ![u] = mapping] /\ UNCHANGED <<rows, work, entry, current, wrote>>
        /\ Go(u, "conflict") \/ Go(u, "check")
    BY <1>1 DEF UpdateFind
  <2> QED
    BY <1>0, <2>1, <2>2, GoFrame, SameKept DEF Frame, TypeOK, rows, work
<1>2. CASE UpdateCheck(u)
  <2>1. \/ /\ Go(u, "conflict") /\ UNCHANGED <<todo, current>>
        \/ \E e \in todo[u] : /\ todo' = [todo EXCEPT ![u] = @ \ {e}]
                              /\ current' = [current EXCEPT ![u] = e]
                              /\ Go(u, "write")
    BY <1>2 DEF UpdateCheck
  <2>2. UNCHANGED <<rows, work, entry, value, wrote>>
    BY <1>2 DEF UpdateCheck
  <2> QED
    BY <1>0, <2>1, <2>2, GoFrame, SameKept DEF Frame, TypeOK, rows, work
<1>3. CASE UpdateLoad(u)
  <2>1. /\ on' = [on EXCEPT ![u] = current[u][1]]
        /\ seen' = [seen EXCEPT ![u] = list[current[u][1]].elements]
        /\ latest' = latest \cup {u}
        /\ UNCHANGED <<rows, left, tries, signs, entry, update>>
        /\ Go(u, "not found") \/ Go(u, "conflict") \/ Go(u, "store")
    BY <1>3, Zenon DEF UpdateLoad
  <2> QED
    BY <1>0, <2>1, GoFrame, SameKept DEF Frame, TypeOK, rows, update
<1>4. CASE UpdateStore(u)
  <2>0. UNCHANGED <<created, mapping, on, left, seen, entry, value>>
    BY <1>4 DEF UpdateStore
  <2>1. CASE Unchanged(u)
    <3>1. /\ Store(u, [list[on[u]] EXCEPT !.elements = [seen[u] EXCEPT ![current[u][2]] = value[u]]])
          /\ wrote' = [wrote EXCEPT ![u] = @ \cup {current[u]}]
          /\ tries' = [tries EXCEPT ![u] = 0] /\ signs' = [signs EXCEPT ![u] = 0]
          /\ AfterToken(u) \/ (Go(u, "sign") /\ UNCHANGED <<todo, current>>)
      BY <1>4, <2>1 DEF UpdateStore
    <3>2. /\ \A g \in Handlers \ {u} : at'[g] = at[g]
          /\ \A v \in Updates \ {u} : todo'[v] = todo[v] /\ current'[v] = current[v]
      BY <1>0, <3>1, AfterTokenFrame, GoFrame
    <3> QED
      BY <1>0, <2>0, <3>1, <3>2, StoreKept DEF Frame, TypeOK
  <2>2. CASE ~Unchanged(u)
    <3>1. Retry(u, "write") /\ UNCHANGED <<list, latest, signs, todo, current, wrote>>
      BY <1>4, <2>2 DEF UpdateStore
    <3> QED
      BY <1>0, <2>0, <3>1, RetryFrame, SameKept DEF Frame
  <2> QED
    BY <2>1, <2>2
<1> QED
  BY <1>1, <1>2, <1>3, <1>4 DEF Update

LEMMA CallFrame ==
    ASSUME IInv, NEW c \in Calls, Call(c)
    PROVE  Frame(c) /\ Kept(c)
<1>0. c \in Handlers /\ TypeOK
  BY DEF Handlers, IInv
<1>1. CASE Read(c) \/ DeleteCount(c) \/ RekeyLoad(c)
  <2>1. /\ UNCHANGED <<rows, left, seen, tries, signs, entry, update>>
        /\ latest' = latest \/ latest' = latest \cup {c}
    BY <1>1 DEF Read, DeleteCount, RekeyLoad
  <2>2. \E l, place : on' = [on EXCEPT ![c] = l] /\ Go(c, place)
    BY <1>1 DEF Read, DeleteCount, RekeyLoad
  <2> QED
    BY <1>0, <2>1, <2>2, GoFrame, SameKept DEF Frame, TypeOK, rows, update
<1>2. CASE DeleteRow(c)
  <2>1. list' = [list EXCEPT ![on[c]] = NoRow] /\ ~NoRow.stored
    BY <1>2 DEF DeleteRow, NoRow, NewRow
  <2>2. Kept(c)
    BY <1>0, <2>1 DEF Kept, TypeOK
  <2>3. Go(c, "done") /\ UNCHANGED <<created, work, entry, update>>
    BY <1>2 DEF DeleteRow
  <2> QED
    BY <1>0, <2>2, <2>3, GoFrame DEF Frame, work, update
<1>3. CASE RekeyStore(c)
  <2>1. /\ UNCHANGED <<created, mapping, on, left, seen, tries, signs, entry, update>>
        /\ \/ Store(c, [list[on[c]] EXCEPT !.token = None]) /\ Go(c, "sign")
           \/ Go(c, "conflict") /\ UNCHANGED <<list, latest>>
    BY <1>3 DEF RekeyStore
  <2> QED
    BY <1>0, <2>1, GoFrame, StoreKept, SameKept DEF Frame, update
<1> QED
  BY <1>1, <1>2, <1>3 DEF Call
-----------------------------------------------------------------------------
(***************************************************************************)
(* What a step does to its own handler; with the frame, what it does to    *)
(* all of them.                                                            *)
(***************************************************************************)
Local(h) ==
    /\ at[h] # "unavailable" => tries[h] < MaxRetries /\ signs[h] < MaxRetries
    /\ on[h] <= created
    /\ h \in Issues => IssuePlaced(h)
    /\ h \in Updates => UpdatePlaced(h) /\ WrittenBy(h)
    /\ FreshOf(h)

LEMMA LocalEach == IInv => \A h \in Handlers : Local(h)
BY DEF IInv, Attempts, Placed, Fresh, Written, Local

LEMMA CreatedGrows == IInv /\ [Next]_vars => created' \in Nat /\ created <= created'
<1>1. ASSUME TypeOK PROVE created \in Nat
  BY <1>1, Sizes DEF TypeOK, Lists
<1>2. ASSUME TypeOK, NEW i \in Issues, Issue(i) PROVE created' = created \/ created' = created + 1
  BY <1>2 DEF Issue, IssueFind, IssueClaim, IssueCreate, rows
<1>3. ASSUME NEW u \in Updates, Update(u) PROVE created' = created
  BY <1>3 DEF Update, UpdateFind, UpdateCheck, UpdateLoad, UpdateStore, rows
<1>4. ASSUME NEW c \in Calls, Call(c) PROVE created' = created
  BY <1>4 DEF Call, Read, DeleteCount, DeleteRow, RekeyLoad, RekeyStore, rows
<1>5. ASSUME UNCHANGED vars \/ \E h \in Handlers : Sign(h) \/ Publish(h) PROVE created' = created
  BY <1>5 DEF vars, rows, Sign, Publish
<1> QED
  BY <1>1, <1>2, <1>3, <1>4, <1>5 DEF IInv, Next

LEMMA OtherLocal ==
    ASSUME IInv, TypeOK', RowsGrow, created' \in Nat, created <= created',
           NEW h \in Handlers, Frame(h), Kept(h), NEW g \in Handlers \ {h}
    PROVE  Local(g)'
<1>a. Local(g) /\ TypeOK
  BY LocalEach DEF IInv
<1>b. created \in Nat
  BY <1>a, CreatedNat
<1>0. Local(g) /\ TypeOK /\ created \in Nat
  BY <1>a, <1>b
<1>1. /\ at'[g] = at[g] /\ on'[g] = on[g] /\ seen'[g] = seen[g]
      /\ tries'[g] = tries[g] /\ signs'[g] = signs[g] /\ on[g] \in Lists
      /\ g \in latest' => g \in latest
  BY <1>0 DEF Frame, TypeOK
<1>2. g \in Issues => left'[g] = left[g]
  BY DEF Frame
<1>3. g \in Updates => /\ value'[g] = value[g] /\ todo'[g] = todo[g]
                       /\ current'[g] = current[g] /\ wrote'[g] = wrote[g]
  BY DEF Frame
<1>4. /\ (at[g] # "unavailable" => tries[g] < MaxRetries /\ signs[g] < MaxRetries)'
      /\ on'[g] <= created'
  BY <1>0, <1>1 DEF Local, Lists
<1>5. g \in Issues => IssuePlaced(g)'
  BY <1>0, <1>1, <1>2 DEF Local, IssuePlaced
<1>6. ASSUME g \in Updates PROVE UpdatePlaced(g)'
  <2>1. UpdatePlaced(g) /\ todo[g] \cup wrote[g] \subseteq Entry
    BY <1>0, <1>6 DEF Local, TypeOK
  <2>2. \A e \in Entry : e[1] <= created => e[1] <= created'
    BY <1>0 DEF Entry, Lists
  <2> QED
    BY <1>1, <1>3, <1>6, <2>1, <2>2 DEF UpdatePlaced
<1>7. ASSUME g \in Updates PROVE WrittenBy(g)'
  <2>0. WrittenBy(g) /\ UpdatePlaced(g)
    BY <1>0, <1>7 DEF Local
  <2>1. (at[g] = "store" => Allowed(seen[g][current[g][2]], value[g]))'
    BY <1>1, <1>3, <1>7, <2>0 DEF WrittenBy, Allowed
  <2>2. ASSUME NEW e \in wrote'[g], (value[g] = Revoked /\ list[e[1]].stored)'
        PROVE  (/\ list[e[1]].elements[e[2]] = Revoked
                /\ Immediate /\ list[e[1]].token # None /\ ~Pending(g, e) =>
                      list[e[1]].token[e[2]] = Revoked)'
    <3>1. e \in wrote[g] /\ e[1] \in Lists /\ e[2] \in Indexes /\ e[1] <= created
      BY <1>0, <1>3, <1>7, <2>0, <2>2 DEF TypeOK, Entry, UpdatePlaced
    <3>2. Grows(e[1])
      BY <1>0, <2>2, <3>1 DEF RowsGrow, Lists
    <3>3. Pending(g, e)' <=> Pending(g, e)
      BY <1>1, <1>3, <1>7 DEF Pending
    <3>4. value[g] = Revoked
      BY <1>3, <1>7, <2>2
    <3>5. list[e[1]].elements[e[2]] = Revoked /\ list'[e[1]].elements[e[2]] = Revoked
      BY <2>0, <3>1, <3>2, <3>4 DEF WrittenBy, Grows
    <3>6. CASE list'[e[1]].token = list[e[1]].token
      BY <2>0, <3>1, <3>2, <3>3, <3>4, <3>5, <3>6 DEF WrittenBy, Grows
    <3>7. CASE list'[e[1]].token = None \/ list'[e[1]].token = list'[e[1]].elements
      BY <3>5, <3>7
    <3> QED
      BY <3>2, <3>6, <3>7 DEF Grows
  <2> QED
    BY <2>1, <2>2 DEF WrittenBy
<1>8. FreshOf(g)'
  <2>1. SUFFICES ASSUME g \in latest', list'[on[g]].stored
                 PROVE  /\ g \in Issues /\ at[g] = "claim" => left[g] = list'[on[g]].left
                        /\ at[g] \in {"store", "publish"} => seen[g] = list'[on[g]].elements
    BY <1>1, <1>2 DEF FreshOf
  <2>2. /\ list[on[g]].stored /\ list'[on[g]].left = list[on[g]].left
        /\ list'[on[g]].elements = list[on[g]].elements
    BY <2>1 DEF Kept
  <2> QED
    BY <1>0, <1>1, <2>1, <2>2 DEF Local, FreshOf
<1> QED
  BY <1>4, <1>5, <1>6, <1>7, <1>8 DEF Local

LEMMA ListBounds ==
    ASSUME IInv
    PROVE  \A l \in Lists : list[l].stored => l <= created
<1>1. ~NoRow.stored
  BY DEF NoRow, NewRow
<1>2. created \in Nat /\ \A l \in Lists : l \in Nat
  BY Sizes DEF IInv, TypeOK, Lists
<1> QED
  BY <1>1, <1>2 DEF IInv, Tables

LEMMA IssueLocal ==
    ASSUME IInv, TypeOK', NEW i \in Issues, Issue(i)
    PROVE  Local(i)'
<1>0. i \in Handlers /\ i \notin Updates /\ TypeOK /\ Local(i) /\ MaxRetries \in Nat \ {0}
  BY LocalEach, KindsDiffer, Sizes DEF Handlers, IInv
<1>1. CASE IssueFind(i)
  <2>0. UNCHANGED <<rows, seen, signs, entry, update>> /\ at[i] # "unavailable"
    BY <1>1 DEF IssueFind
  <2>1. CASE Available # {}
    <3>1. PICK l \in Available : on' = [on EXCEPT ![i] = l] /\ left' = [left EXCEPT ![i] = list[l].left]
      BY <1>1, <2>1 DEF IssueFind
    <3>2. latest' = latest \cup {i} /\ tries' = tries /\ Go(i, "claim")
      BY <1>1, <2>1 DEF IssueFind
    <3>3. /\ on'[i] = l /\ left'[i] = list[l].left /\ at'[i] = "claim"
          /\ l \in Lists /\ list[l].left > 0 /\ list[l].left \in 0..Capacity /\ l <= created
      BY <1>0, <3>1, <3>2, GoFrame, ListBounds DEF Available, TypeOK, Row
    <3>4. list[l].left \in Indexes
      BY <3>3, Sizes DEF Indexes
    <3> QED
      BY <1>0, <2>0, <3>2, <3>3, <3>4 DEF Local, IssuePlaced, FreshOf, rows
  <2>2. CASE Available = {}
    <3>1. UNCHANGED <<on, left, latest>>
      BY <1>1, <2>2 DEF IssueFind
    <3>2. Retry(i, "find") \/ (Go(i, "create") /\ tries' = tries)
      BY <1>1, <2>2 DEF IssueFind
    <3>3. /\ at'[i] \in {"find", "create", "unavailable"}
          /\ at'[i] # "unavailable" => tries'[i] < MaxRetries
      BY <1>0, <2>0, <3>2, GoFrame, RetryFrame DEF Local
    <3> QED
      BY <1>0, <2>0, <3>1, <3>3 DEF Local, IssuePlaced, FreshOf, rows
  <2> QED
    BY <2>1, <2>2
<1>2. CASE IssueClaim(i)
  <2>0. UNCHANGED <<created, on, left, seen, signs, update>> /\ at[i] = "claim"
    BY <1>2 DEF IssueClaim
  <2>1. /\ at'[i] \in {"issued", "find", "unavailable"}
        /\ at'[i] # "unavailable" => tries'[i] < MaxRetries
    <3>1. Retry(i, "find") \/ (Go(i, "issued") /\ tries' = tries)
      BY <1>2 DEF IssueClaim
    <3> QED
      BY <1>0, <2>0, <3>1, GoFrame, RetryFrame DEF Local
  <2> QED
    BY <1>0, <2>0, <2>1 DEF Local, IssuePlaced, FreshOf
<1>3. CASE IssueCreate(i)
  <2>1. /\ on'[i] = created' /\ signs'[i] = 0 /\ at'[i] = "sign" /\ tries' = tries
        /\ created' \in Nat
    BY <1>0, <1>3, GoFrame, Sizes DEF IssueCreate, TypeOK, Lists
  <2>2. at[i] # "unavailable"
    BY <1>3 DEF IssueCreate
  <2> QED
    BY <1>0, <2>1, <2>2 DEF Local, IssuePlaced, FreshOf
<1> QED
  BY <1>1, <1>2, <1>3 DEF Issue

LEMMA SignLocal ==
    ASSUME IInv, TypeOK', NEW h \in Handlers, Sign(h)
    PROVE  Local(h)'
<1>0. TypeOK /\ Local(h)
  BY LocalEach DEF IInv
<1>1. /\ at[h] = "sign" /\ at'[h] \in {"publish", "unavailable", "not found"}
      /\ seen'[h] = list[on[h]].elements
      /\ UNCHANGED <<rows, on, left, tries, signs, entry, update>>
  BY <1>0, GoFrame DEF Sign, TypeOK
<1>2. h \in Issues => IssuePlaced(h)'
  BY <1>1 DEF IssuePlaced
<1>3. ASSUME h \in Updates PROVE UpdatePlaced(h)' /\ WrittenBy(h)'
  <2>1. UpdatePlaced(h) /\ WrittenBy(h)
    BY <1>0, <1>3 DEF Local
  <2>2. UpdatePlaced(h)'
    BY <1>1, <2>1 DEF UpdatePlaced, rows, update
  <2>3. \A e : Pending(h, e)' <=> Pending(h, e)
    BY <1>1 DEF Pending, update
  <2>4. list' = list /\ wrote' = wrote /\ value' = value
    BY <1>1 DEF rows, update
  <2> QED
    BY <1>1, <2>1, <2>2, <2>3, <2>4 DEF WrittenBy
<1>4. FreshOf(h)'
  BY <1>1 DEF FreshOf, rows
<1> QED
  BY <1>0, <1>1, <1>2, <1>3, <1>4 DEF Local, rows

LEMMA CallLocal ==
    ASSUME IInv, TypeOK', NEW c \in Calls, Call(c)
    PROVE  Local(c)'
<1>0. c \in Handlers /\ c \notin Issues /\ c \notin Updates /\ TypeOK /\ Local(c)
  BY LocalEach, KindsDiffer DEF Handlers, IInv
<1>1. /\ at[c] # "unavailable" /\ UNCHANGED <<created, tries, signs>>
      /\ on'[c] <= created
      /\ at'[c] \notin {"store", "publish"}
  <2>1. CASE Read(c) \/ DeleteCount(c) \/ RekeyLoad(c)
    <3>1. /\ UNCHANGED <<rows, tries, signs>> /\ at[c] = "idle"
      BY <2>1 DEF Read, DeleteCount, RekeyLoad
    <3>2. \E l \in 1..created, place \in {"not found", "sign", "done", "conflict", "delete", "rekey"} :
             on' = [on EXCEPT ![c] = l] /\ Go(c, place)
      <4>1. CASE Read(c) \/ RekeyLoad(c)
        BY <4>1 DEF Read, RekeyLoad
      <4>2. CASE DeleteCount(c)
        <5>1. PICK l \in 1..created :
                 /\ on' = [on EXCEPT ![c] = l]
                 /\ Go(c, CASE ~list[l].stored -> "not found"
                            [] list[l].stored /\ \E e \in mapping : e[1] = l -> "conflict"
                            [] OTHER -> "delete")
          BY <4>2 DEF DeleteCount
        <5>2. Go(c, "not found") \/ Go(c, "conflict") \/ Go(c, "delete")
          BY <5>1, Zenon
        <5> QED
          BY <5>1, <5>2
      <4> QED
        BY <2>1, <4>1, <4>2
    <3>3. created \in Nat
      BY <1>0, CreatedNat
    <3>4. \A l \in 1..created : l <= created
      BY <3>3
    <3>5. PICK l \in 1..created : \E place \in {"not found", "sign", "done", "conflict", "delete", "rekey"} :
             on' = [on EXCEPT ![c] = l] /\ Go(c, place)
      BY <3>2
    <3>6. on'[c] = l
      BY <1>0, <3>5 DEF TypeOK
    <3>7. at'[c] \in {"not found", "sign", "done", "conflict", "delete", "rekey"}
      BY <1>0, <3>5, GoFrame
    <3> QED
      BY <3>1, <3>4, <3>6, <3>7 DEF rows
  <2>2. CASE DeleteRow(c)
    BY <1>0, <2>2, GoFrame DEF DeleteRow, work, Local
  <2>3. CASE RekeyStore(c)
    BY <1>0, <2>3, GoFrame DEF RekeyStore, Local
  <2> QED
    BY <2>1, <2>2, <2>3 DEF Call
<1> QED
  BY <1>0, <1>1 DEF Local, FreshOf

LEMMA PublishLocal ==
    ASSUME IInv, TypeOK', RowsGrow, NEW h \in Handlers, Publish(h)
    PROVE  Local(h)'
<1>0. /\ TypeOK /\ Local(h) /\ at[h] = "publish" /\ on[h] \in Lists
      /\ UNCHANGED <<created, mapping, on, left, seen, tries, entry, value, wrote>>
  BY LocalEach DEF IInv, TypeOK, Publish
<1>1. CASE Unchanged(h)
  <2>1. /\ Store(h, [list[on[h]] EXCEPT !.token = seen[h]]) /\ AfterToken(h) /\ signs' = signs
        /\ seen[h] = list[on[h]].elements
    BY <1>0, <1>1 DEF Publish, Unchanged, Local, FreshOf
  <2>2. /\ h \in Issues => at'[h] = "find again"
        /\ h \notin Issues => at'[h] \in {"write", "done"}
        /\ h \in Updates /\ at'[h] = "write" => current'[h] \in todo[h]
        /\ h \in Updates => todo'[h] \subseteq todo[h]
    BY <1>0, <2>1, AfterTokenFrame
  <2>3. at'[h] \in {"find again", "write", "done"}
    BY <2>2
  <2>4. ASSUME h \in Updates PROVE UpdatePlaced(h)' /\ WrittenBy(h)'
    <3>1. UpdatePlaced(h) /\ WrittenBy(h) /\ todo[h] \subseteq Entry /\ wrote[h] \subseteq Entry
      BY <1>0, <2>4 DEF Local, TypeOK
    <3>2. UpdatePlaced(h)'
      BY <1>0, <2>2, <2>3, <2>4, <3>1 DEF UpdatePlaced
    <3>3. ASSUME NEW e \in wrote'[h], (value[h] = Revoked /\ list[e[1]].stored)'
          PROVE  (/\ list[e[1]].elements[e[2]] = Revoked
                  /\ Immediate /\ list[e[1]].token # None =>
                        list[e[1]].token[e[2]] = Revoked)'
      <4>1. e \in wrote[h] /\ e[1] \in Lists /\ e[2] \in Indexes /\ e[1] <= created /\ value[h] = Revoked
        BY <1>0, <3>1, <3>3 DEF Entry, UpdatePlaced
      <4>2. Grows(e[1])
        BY <1>0, <3>3, <4>1, Sizes DEF RowsGrow, Lists, TypeOK
      <4>3. list[e[1]].elements[e[2]] = Revoked /\ list'[e[1]].elements[e[2]] = Revoked
        BY <3>1, <4>1, <4>2 DEF WrittenBy, Grows
      <4>4. CASE e[1] = on[h]
        <5>1. list'[e[1]] = [list[on[h]] EXCEPT !.token = seen[h]] /\ list[on[h]] \in Row
          BY <1>0, <2>1, <4>1, <4>4 DEF Store, TypeOK
        <5>2. list'[e[1]].token = seen[h]
          BY <5>1 DEF Row
        <5> QED
          BY <2>1, <4>3, <4>4, <5>2
      <4>5. CASE e[1] # on[h]
        <5>1. list'[e[1]] = list[e[1]]
          BY <1>0, <2>1, <4>1, <4>5 DEF Store, TypeOK
        <5>2. ~Pending(h, e)
          BY <1>0, <2>4, <3>1, <4>5 DEF Pending, UpdatePlaced
        <5>3. CASE Immediate
          BY <3>1, <4>1, <4>2, <4>3, <5>1, <5>2, <5>3 DEF WrittenBy, Grows
        <5>4. CASE ~Immediate
          BY <4>3, <5>4
        <5> QED
          BY <5>3, <5>4
      <4> QED
        BY <4>4, <4>5
    <3> QED
      BY <2>3, <3>2, <3>3 DEF WrittenBy
  <2>5. h \in Issues => IssuePlaced(h)'
    BY <2>3 DEF IssuePlaced
  <2>6. FreshOf(h)'
    BY <2>3 DEF FreshOf
  <2> QED
    BY <1>0, <2>1, <2>4, <2>5, <2>6 DEF Local
<1>2. CASE ~Unchanged(h)
  <2>1. /\ signs' = [signs EXCEPT ![h] = @ + 1] /\ UNCHANGED <<list, latest, todo, current>>
        /\ Go(h, IF signs'[h] < MaxRetries THEN "sign" ELSE "unavailable")
    BY <1>2 DEF Publish
  <2>2. at'[h] = (IF signs'[h] < MaxRetries THEN "sign" ELSE "unavailable")
    BY <1>0, <2>1, GoFrame
  <2>3. /\ at'[h] \in {"sign", "unavailable"}
        /\ at'[h] # "unavailable" => signs'[h] < MaxRetries
    BY <2>2
  <2>4. ASSUME h \in Updates PROVE UpdatePlaced(h)' /\ WrittenBy(h)'
    <3>1. UpdatePlaced(h) /\ WrittenBy(h)
      BY <1>0, <2>4 DEF Local
    <3>2. UpdatePlaced(h)'
      BY <1>0, <2>1, <2>3, <3>1 DEF UpdatePlaced
    <3>3. \A e : Pending(h, e)' <=> Pending(h, e)
      BY <1>0, <2>1, <2>3 DEF Pending
    <3> QED
      BY <1>0, <2>1, <2>3, <3>1, <3>2, <3>3 DEF WrittenBy
  <2>5. (h \in Issues => IssuePlaced(h)') /\ FreshOf(h)'
    BY <2>3 DEF IssuePlaced, FreshOf
  <2> QED
    BY <1>0, <2>1, <2>3, <2>4, <2>5 DEF Local
<1> QED
  BY <1>1, <1>2

LEMMA UpdateLocal ==
    ASSUME IInv, TypeOK', RowsGrow, NEW u \in Updates, Update(u)
    PROVE  Local(u)'
<1>0. /\ u \in Handlers /\ u \notin Issues /\ TypeOK /\ Local(u) /\ UpdatePlaced(u) /\ WrittenBy(u)
      /\ MaxRetries \in Nat \ {0}
  BY LocalEach, KindsDiffer, Sizes DEF Handlers, IInv, Local
<1>1. CASE UpdateFind(u)
  <2>1. /\ at[u] = "idle" /\ todo'[u] = mapping /\ UNCHANGED <<rows, work, entry, current, wrote>>
        /\ Go(u, "conflict") \/ Go(u, "check")
    BY <1>0, <1>1 DEF UpdateFind, TypeOK
  <2>2. at'[u] \in {"conflict", "check"} /\ wrote'[u] = {}
    BY <1>0, <2>1, GoFrame DEF UpdatePlaced
  <2>3. \A e \in mapping : e[1] <= created
    BY ListBounds DEF IInv, Tables, TypeOK, Entry
  <2>4. UpdatePlaced(u)'
    BY <1>0, <2>1, <2>2, <2>3 DEF UpdatePlaced, rows
  <2>5. WrittenBy(u)'
    BY <2>2 DEF WrittenBy
  <2> QED
    BY <1>0, <2>1, <2>2, <2>4, <2>5 DEF Local, FreshOf, rows, work
<1>2. CASE UpdateCheck(u)
  <2>1. at[u] = "check" /\ UNCHANGED <<rows, work, entry, value, wrote>> /\ wrote[u] = {}
    BY <1>0, <1>2 DEF UpdateCheck, UpdatePlaced
  <2>2. /\ todo'[u] \subseteq todo[u]
        /\ \/ at'[u] = "conflict"
           \/ at'[u] = "write" /\ current'[u] \in todo[u]
    <3>1. CASE Go(u, "conflict") /\ UNCHANGED <<todo, current>>
      BY <1>0, <3>1, GoFrame
    <3>2. CASE \E e \in todo[u] : /\ todo' = [todo EXCEPT ![u] = @ \ {e}]
                                  /\ current' = [current EXCEPT ![u] = e]
                                  /\ Go(u, "write")
      BY <1>0, <3>2, GoFrame DEF TypeOK
    <3> QED
      BY <1>2, <3>1, <3>2 DEF UpdateCheck
  <2>3. todo[u] \subseteq Entry
    BY <1>0 DEF TypeOK
  <2>4. UpdatePlaced(u)'
    BY <1>0, <2>1, <2>2, <2>3 DEF UpdatePlaced, rows
  <2>5. WrittenBy(u)'
    BY <2>1, <2>2 DEF WrittenBy
  <2> QED
    BY <1>0, <2>1, <2>2, <2>4, <2>5 DEF Local, FreshOf, rows, work
<1>3. CASE UpdateLoad(u)
  <2>1. /\ at[u] = "write" /\ current[u] \in Entry /\ current[u][1] <= created
        /\ on'[u] = current[u][1] /\ seen'[u] = list[current[u][1]].elements
        /\ UNCHANGED <<rows, left, tries, signs, entry, update>>
    BY <1>0, <1>3 DEF UpdateLoad, TypeOK, UpdatePlaced
  <2>2. \/ at'[u] \in {"not found", "conflict"}
        \/ at'[u] = "store" /\ list[current[u][1]].stored /\ Allowed(StatusOf(current[u]), value[u])
    <3>1. \/ Go(u, "not found") \/ Go(u, "conflict")
          \/ Go(u, "store") /\ list[current[u][1]].stored /\ Allowed(StatusOf(current[u]), value[u])
      BY <1>3, Zenon DEF UpdateLoad
    <3> QED
      BY <1>0, <3>1, GoFrame
  <2>3. UpdatePlaced(u)'
    BY <1>0, <2>1, <2>2 DEF UpdatePlaced, rows, update
  <2>4. at'[u] = "store" => Allowed(seen'[u][current[u][2]], value[u])
    BY <2>1, <2>2 DEF StatusOf
  <2>5. \A e \in wrote[u] : ~Pending(u, e)
    BY <2>1 DEF Pending
  <2>6. list' = list /\ wrote' = wrote /\ value' = value /\ current' = current
    BY <2>1 DEF rows, update
  <2>7. WrittenBy(u)'
    <3>1. \A e \in wrote'[u] : value'[u] = Revoked /\ list'[e[1]].stored =>
             /\ list'[e[1]].elements[e[2]] = Revoked
             /\ Immediate /\ list'[e[1]].token # None => list'[e[1]].token[e[2]] = Revoked
      BY <1>0, <2>5, <2>6 DEF WrittenBy
    <3>2. (at[u] = "store" => Allowed(seen[u][current[u][2]], value[u]))'
      BY <2>4, <2>6
    <3> QED
      BY <3>1, <3>2 DEF WrittenBy
  <2> QED
    BY <1>0, <2>1, <2>2, <2>3, <2>7 DEF Local, FreshOf, rows
<1>4. CASE UpdateStore(u)
  <2>0. /\ at[u] = "store" /\ UNCHANGED <<created, mapping, on, left, seen, entry, value>>
        /\ current[u] \in Entry /\ on[u] = current[u][1] /\ on[u] <= created
        /\ todo[u] \subseteq Entry /\ wrote[u] \subseteq Entry
    BY <1>0, <1>4 DEF UpdateStore, UpdatePlaced, Local, TypeOK
  <2>1. CASE Unchanged(u)
    <3> DEFINE elements == [seen[u] EXCEPT ![current[u][2]] = value[u]]
               row == [list[on[u]] EXCEPT !.elements = elements]
    <3>1. /\ Store(u, row) /\ wrote'[u] = wrote[u] \cup {current[u]}
          /\ tries'[u] = 0 /\ signs'[u] = 0
          /\ IF Immediate THEN Go(u, "sign") /\ UNCHANGED <<todo, current>> ELSE AfterToken(u)
      BY <1>0, <1>4, <2>1 DEF UpdateStore, TypeOK
    <3>2. /\ todo'[u] \subseteq todo[u]
          /\ \/ Immediate /\ at'[u] = "sign" /\ current'[u] = current[u]
             \/ ~Immediate /\ at'[u] = "write" /\ current'[u] \in todo[u]
             \/ ~Immediate /\ at'[u] = "done"
      <4>1. CASE Immediate
        BY <1>0, <3>1, <4>1, GoFrame
      <4>2. CASE ~Immediate
        BY <1>0, <3>1, <4>2, AfterTokenFrame
      <4> QED
        BY <4>1, <4>2
    <3>3. UpdatePlaced(u)'
      <4>1. \A e \in todo'[u] \cup wrote'[u] : e[1] <= created
        BY <1>0, <2>0, <3>1, <3>2 DEF UpdatePlaced
      <4>2. at'[u] = "write" => current'[u] \in Entry /\ current'[u][1] <= created
        BY <1>0, <2>0, <3>2 DEF UpdatePlaced
      <4>3. at'[u] = "sign" => current'[u] \in Entry /\ on[u] = current'[u][1]
        BY <2>0, <3>2
      <4>4. at'[u] \in {"sign", "write", "done"}
        BY <3>2
      <4> QED
        BY <2>0, <4>1, <4>2, <4>3, <4>4 DEF UpdatePlaced
    <3>4. list'[on[u]].elements = elements /\ list'[on[u]].token = list[on[u]].token
      <4>1. list'[on[u]] = row /\ list[on[u]] \in Row
        BY <1>0, <3>1 DEF Store, TypeOK
      <4> HIDE DEF elements
      <4> QED
        BY ONLY <4>1 DEF Row
    <3>5. elements[current[u][2]] = value[u]
      BY <1>0, <2>0 DEF TypeOK, Elements, Entry
    <3>6. ASSUME NEW e \in wrote'[u], (value[u] = Revoked /\ list[e[1]].stored)'
          PROVE  (/\ list[e[1]].elements[e[2]] = Revoked
                  /\ Immediate /\ list[e[1]].token # None /\ ~Pending(u, e) =>
                        list[e[1]].token[e[2]] = Revoked)'
      <4>1. value[u] = Revoked
        BY <2>0, <3>6
      <4>2. CASE e = current[u]
        <5>1. Immediate => Pending(u, e)'
          BY <3>2, <4>2 DEF Pending
        <5>2. list'[e[1]].elements[e[2]] = Revoked
          BY <2>0, <3>4, <3>5, <4>1, <4>2
        <5> QED
          BY <5>1, <5>2
      <4>3. CASE e # current[u]
        <5>1. e \in wrote[u] /\ e[1] \in Lists /\ e[2] \in Indexes /\ e[1] <= created
          BY <1>0, <2>0, <3>1, <4>3 DEF Entry, UpdatePlaced
        <5>2. Grows(e[1])
          BY <1>0, <3>6, <5>1, Sizes DEF RowsGrow, Lists, TypeOK
        <5>3. list[e[1]].elements[e[2]] = Revoked /\ list'[e[1]].elements[e[2]] = Revoked
          BY <1>0, <4>1, <5>1, <5>2 DEF WrittenBy, Grows
        <5>4. list'[e[1]].token = list[e[1]].token
          <6>1. CASE e[1] = on[u]
            BY <3>4, <6>1
          <6>2. CASE e[1] # on[u]
            BY <1>0, <3>1, <5>1, <6>2 DEF Store, TypeOK
          <6> QED
            BY <6>1, <6>2
        <5>5. ~Pending(u, e)
          BY <2>0, <4>3 DEF Pending
        <5>6. Immediate /\ list[e[1]].token # None => list[e[1]].token[e[2]] = Revoked
          BY <1>0, <4>1, <5>1, <5>2, <5>5 DEF WrittenBy, Grows
        <5> QED
          BY <5>3, <5>4, <5>6
      <4> QED
        BY <4>2, <4>3
    <3>7. at'[u] # "store" /\ at'[u] # "publish"
      BY <3>2
    <3>8. WrittenBy(u)'
      BY <3>6, <3>7 DEF WrittenBy
    <3>9. FreshOf(u)'
      BY <1>0, <3>7 DEF FreshOf
    <3> QED
      BY <1>0, <2>0, <3>1, <3>3, <3>8, <3>9 DEF Local
  <2>2. CASE ~Unchanged(u)
    <3>1. Retry(u, "write") /\ UNCHANGED <<list, latest, signs, todo, current, wrote>>
      BY <1>4, <2>2 DEF UpdateStore
    <3>2. /\ at'[u] \in {"write", "unavailable"}
          /\ at'[u] # "unavailable" => tries'[u] < MaxRetries
      BY <1>0, <3>1, RetryFrame
    <3>3. UpdatePlaced(u)'
      BY <1>0, <2>0, <3>1, <3>2 DEF UpdatePlaced
    <3>4. \A e : ~Pending(u, e)
      BY <2>0 DEF Pending
    <3>5. at'[u] # "store" /\ at'[u] # "publish" /\ at[u] # "unavailable"
      BY <2>0, <3>2
    <3>6. WrittenBy(u)'
      BY <1>0, <2>0, <3>1, <3>4, <3>5 DEF WrittenBy
    <3>7. FreshOf(u)'
      BY <1>0, <3>5 DEF FreshOf
    <3> QED
      BY <1>0, <2>0, <3>1, <3>2, <3>3, <3>5, <3>6, <3>7 DEF Local
  <2> QED
    BY <2>1, <2>2
<1> QED
  BY <1>1, <1>2, <1>3, <1>4 DEF Update

LEMMA StepLocal ==
    ASSUME IInv, TypeOK', Next
    PROVE  \E h \in Handlers : Local(h)' /\ Frame(h) /\ Kept(h)
<1>0. RowsGrow
  BY StepGrow
<1>1. ASSUME NEW i \in Issues, Issue(i) PROVE i \in Handlers /\ Local(i)' /\ Frame(i) /\ Kept(i)
  BY <1>1, IssueLocal, IssueFrame DEF Handlers
<1>2. ASSUME NEW h \in Handlers, Sign(h) \/ Publish(h) PROVE Local(h)' /\ Frame(h) /\ Kept(h)
  BY <1>0, <1>2, SignLocal, SignFrame, PublishLocal, PublishFrame
<1>3. ASSUME NEW u \in Updates, Update(u) PROVE u \in Handlers /\ Local(u)' /\ Frame(u) /\ Kept(u)
  BY <1>0, <1>3, UpdateLocal, UpdateFrame DEF Handlers
<1>4. ASSUME NEW c \in Calls, Call(c) PROVE c \in Handlers /\ Local(c)' /\ Frame(c) /\ Kept(c)
  BY <1>4, CallLocal, CallFrame DEF Handlers
<1> QED
  BY <1>1, <1>2, <1>3, <1>4 DEF Next

LEMMA AllLocal == IInv /\ TypeOK' /\ [Next]_vars => \A g \in Handlers : Local(g)'
<1>1. ASSUME IInv, UNCHANGED vars PROVE \A g \in Handlers : Local(g)'
  <2>1. \A g \in Handlers : Local(g)
    BY <1>1, LocalEach
  <2> QED
    BY <1>1, <2>1 DEF vars, rows, work, update, Local, IssuePlaced, UpdatePlaced, WrittenBy, FreshOf,
       Pending
<1>2. ASSUME IInv, TypeOK', Next PROVE \A g \in Handlers : Local(g)'
  <2>1. PICK h \in Handlers : Local(h)' /\ Frame(h) /\ Kept(h)
    BY <1>2, StepLocal
  <2>2. RowsGrow /\ created' \in Nat /\ created <= created'
    BY <1>2, StepGrow, CreatedGrows
  <2>3. \A g \in Handlers \ {h} : Local(g)'
    BY <1>2, <2>1, <2>2, OtherLocal
  <2> QED
    BY <2>1, <2>3
<1> QED
  BY <1>1, <1>2
-----------------------------------------------------------------------------
(***************************************************************************)
(* The tables: only a claim, a new list and a deletion change what lists   *)
(* there are, their stacks and their mappings.                             *)
(***************************************************************************)
SameTables ==
    /\ created' = created /\ mapping' = mapping /\ entry' = entry
    /\ \A l \in Lists : (list'[l].stored <=> list[l].stored) /\ list'[l].left = list[l].left
    /\ \A l \in Lists : l > created => list'[l] = list[l]

LEMMA TokensOfElements ==
    ASSUME IInv, RowsGrow
    PROVE  \A l \in Lists : list'[l].stored /\ list'[l].token # None =>
              \A k \in Indexes : list'[l].token[k] = Revoked => list'[l].elements[k] = Revoked
<1> SUFFICES ASSUME NEW l \in Lists, list'[l].stored, list'[l].token # None,
                    NEW k \in Indexes, list'[l].token[k] = Revoked
             PROVE  list'[l].elements[k] = Revoked
  OBVIOUS
<1>1. CASE list'[l] = NewRow
  BY <1>1 DEF NewRow
<1>2. CASE Grows(l)
  <2>1. list[l].stored /\ (list[l].elements[k] = Revoked => list'[l].elements[k] = Revoked)
    BY <1>2 DEF Grows
  <2>2. CASE list'[l].token = list[l].token
    BY <2>1, <2>2 DEF IInv, Tables
  <2> QED
    BY <1>2, <2>2 DEF Grows
<1> QED
  BY <1>1, <1>2 DEF RowsGrow

LEMMA SameTablesStep ==
    ASSUME IInv, RowsGrow, SameTables
    PROVE  Tables' /\ Mapped'
<1>1. TypeOK /\ Tables /\ Mapped
  BY DEF IInv
<1>2. Tables'
  BY <1>1, TokensOfElements DEF SameTables, Tables, TypeOK, Entry
<1>3. EntriesConserved'
  BY <1>1 DEF SameTables, Mapped, EntriesConserved
<1>4. \A i \in Issues : EntryKnown(i)'
  BY <1>1 DEF SameTables, Mapped, EntryKnown, TypeOK, Entry
<1> QED
  BY <1>2, <1>3, <1>4 DEF Mapped

\* A write that keeps the stack, of a list that exists.
LEMMA StoreSame ==
    ASSUME IInv, NEW h \in Handlers, NEW row, Store(h, row), Unchanged(h),
           row.stored <=> list[on[h]].stored, row.left = list[on[h]].left,
           created' = created, mapping' = mapping, entry' = entry
    PROVE  SameTables
<1>1. on[h] \in Lists /\ on[h] <= created /\ created \in Nat /\ TypeOK
  BY CreatedNat DEF IInv, TypeOK, Placed
<1>2. \A l \in Lists : list'[l] = IF l = on[h] THEN row ELSE list[l]
  BY <1>1 DEF Store, TypeOK
<1>3. \A l \in Lists : l > created => l # on[h]
  BY <1>1 DEF Lists
<1> QED
  BY <1>2, <1>3 DEF SameTables

LEMMA UpdateSame ==
    ASSUME IInv, NEW u \in Updates, Update(u)
    PROVE  SameTables
<1>0. u \in Handlers /\ TypeOK
  BY DEF Handlers, IInv
<1>1. CASE ~(UpdateStore(u) /\ Unchanged(u))
  <2>1. rows' = rows /\ entry' = entry
    BY <1>1 DEF Update, UpdateFind, UpdateCheck, UpdateLoad, UpdateStore, rows
  <2> QED
    BY <2>1 DEF rows, SameTables
<1>2. CASE UpdateStore(u) /\ Unchanged(u)
  <2> DEFINE elements == [seen[u] EXCEPT ![current[u][2]] = value[u]]
             row == [list[on[u]] EXCEPT !.elements = elements]
  <2>1. Store(u, row) /\ created' = created /\ mapping' = mapping /\ entry' = entry
    BY <1>2 DEF UpdateStore
  <2>2. list[on[u]] \in Row
    BY <1>0 DEF TypeOK
  <2> HIDE DEF elements
  <2>3. (row.stored <=> list[on[u]].stored) /\ row.left = list[on[u]].left
    BY ONLY <2>2 DEF Row
  <2> HIDE DEF row
  <2> QED
    BY <1>0, <1>2, <2>1, <2>3, StoreSame
<1> QED
  BY <1>1, <1>2

LEMMA TokenSame ==
    ASSUME IInv, NEW h \in Handlers, NEW token, Unchanged(h),
           Store(h, [list[on[h]] EXCEPT !.token = token]),
           created' = created, mapping' = mapping, entry' = entry
    PROVE  SameTables
<1> DEFINE row == [list[on[h]] EXCEPT !.token = token]
<1>1. list[on[h]] \in Row
  BY DEF IInv, TypeOK
<1>2. (row.stored <=> list[on[h]].stored) /\ row.left = list[on[h]].left
  BY ONLY <1>1 DEF Row
<1>3. Store(h, row)
  OBVIOUS
<1> HIDE DEF row
<1> QED
  BY <1>2, <1>3, StoreSame

LEMMA PublishSame ==
    ASSUME IInv, NEW h \in Handlers, Publish(h)
    PROVE  SameTables
<1>1. created' = created /\ mapping' = mapping /\ entry' = entry
  BY DEF Publish
<1>2. CASE Unchanged(h)
  <2>1. Store(h, [list[on[h]] EXCEPT !.token = seen[h]])
    BY <1>2 DEF Publish
  <2> QED
    BY <1>1, <1>2, <2>1, TokenSame
<1>3. CASE ~Unchanged(h)
  BY <1>1, <1>3 DEF Publish, SameTables
<1> QED
  BY <1>2, <1>3

LEMMA DeleteTables ==
    ASSUME IInv, RowsGrow, NEW c \in Calls, DeleteRow(c)
    PROVE  Tables' /\ Mapped'
<1>0. c \in Handlers /\ TypeOK /\ Tables /\ Mapped /\ on[c] \in Lists
  BY DEF Handlers, IInv, TypeOK
<1>1. /\ list' = [list EXCEPT ![on[c]] = NoRow] /\ mapping' = {e \in mapping : e[1] # on[c]}
      /\ created' = created /\ entry' = entry /\ ~NoRow.stored
  BY DEF DeleteRow, NoRow, NewRow, work, update
<1>2. \A l \in Lists : list'[l] = IF l = on[c] THEN NoRow ELSE list[l]
  BY <1>0, <1>1 DEF TypeOK
<1>3. \A e \in mapping : e[1] \in Lists
  BY <1>0 DEF TypeOK, Entry
<1>4. Tables'
  <2>1. \A l \in Lists : l > created' => list'[l] = NoRow
    BY <1>0, <1>1, <1>2 DEF Tables
  <2>2. \A e \in mapping' : list'[e[1]].stored
    BY <1>0, <1>1, <1>2, <1>3 DEF Tables
  <2> QED
    BY <2>1, <2>2, TokensOfElements DEF Tables
<1>5. \A i \in Issues : EntryKnown(i)'
  <2> SUFFICES ASSUME NEW i \in Issues, entry[i] # None
               PROVE  /\ entry[i][1] <= created
                      /\ list'[entry[i][1]].stored => entry[i] \in mapping'
    BY <1>1 DEF EntryKnown
  <2>1. EntryKnown(i) /\ entry[i][1] \in Lists
    BY <1>0 DEF Mapped, TypeOK, Entry
  <2> QED
    BY <1>1, <1>2, <2>1 DEF EntryKnown
<1>6. EntriesConserved'
  <2>1. \A i, j \in Issues : entry'[i] = entry'[j] /\ entry'[i] # None => i = j
    BY <1>0, <1>1 DEF Mapped, EntriesConserved
  <2>2. ASSUME NEW l \in Lists, list'[l].stored, NEW k \in Indexes
        PROVE  k <= list'[l].left <=> <<l, k>> \notin mapping'
    <3>1. l # on[c] /\ list'[l] = list[l]
      BY <1>1, <1>2, <2>2
    <3>2. <<l, k>> \in mapping' <=> <<l, k>> \in mapping
      BY <1>1, <3>1
    <3> QED
      BY <1>0, <2>2, <3>1, <3>2 DEF Mapped, EntriesConserved
  <2> QED
    BY <2>1, <2>2 DEF EntriesConserved
<1> QED
  BY <1>4, <1>5, <1>6 DEF Mapped

LEMMA CallTables ==
    ASSUME IInv, RowsGrow, NEW c \in Calls, Call(c)
    PROVE  Tables' /\ Mapped'
<1>0. c \in Handlers
  BY DEF Handlers
<1>1. ASSUME Read(c) \/ DeleteCount(c) \/ RekeyLoad(c) \/ (RekeyStore(c) /\ ~Unchanged(c))
      PROVE  SameTables
  <2>1. rows' = rows /\ entry' = entry
    BY <1>1 DEF Read, DeleteCount, RekeyLoad, RekeyStore, rows
  <2> QED
    BY <2>1 DEF rows, SameTables
<1>2. ASSUME RekeyStore(c), Unchanged(c)
      PROVE  SameTables
  <2>1. /\ Store(c, [list[on[c]] EXCEPT !.token = None])
        /\ created' = created /\ mapping' = mapping /\ entry' = entry
    BY <1>2 DEF RekeyStore
  <2> QED
    BY <1>0, <1>2, <2>1, TokenSame
<1> QED
  BY <1>1, <1>2, DeleteTables, SameTablesStep DEF Call

LEMMA CreateTables ==
    ASSUME IInv, RowsGrow, TypeOK', NEW i \in Issues, IssueCreate(i)
    PROVE  Tables' /\ Mapped'
<1>0. TypeOK /\ Tables /\ Mapped /\ created \in Nat
  BY CreatedNat DEF IInv
<1>1. /\ created' = created + 1 /\ list' = [list EXCEPT ![created'] = NewRow]
      /\ mapping' = mapping /\ entry' = entry /\ created' \in Lists
  BY DEF IssueCreate, TypeOK
<1>2. \A l \in Lists : list'[l] = IF l = created' THEN NewRow ELSE list[l]
  BY <1>0, <1>1 DEF TypeOK
<1>3. /\ \A e \in mapping : e[1] \in Lists /\ e[1] <= created
      /\ \A l \in Lists : l \in Nat
  <2>1. \A e \in mapping : e[1] \in Lists
    BY <1>0 DEF TypeOK, Entry
  <2>2. \A e \in mapping : e[1] <= created
    BY <1>0, <2>1, ListBounds DEF Tables
  <2>3. \A l \in Lists : l \in Nat
    BY Sizes DEF Lists
  <2> QED
    BY <2>1, <2>2, <2>3
<1>4. Tables'
  <2>1. \A l \in Lists : l > created' => list'[l] = NoRow
    BY <1>0, <1>1, <1>2, <1>3 DEF Tables
  <2>2. \A e \in mapping' : list'[e[1]].stored
    BY <1>0, <1>1, <1>2, <1>3 DEF Tables
  <2> QED
    BY <2>1, <2>2, TokensOfElements DEF Tables
<1>5. \A j \in Issues : EntryKnown(j)'
  <2> SUFFICES ASSUME NEW j \in Issues, entry[j] # None
               PROVE  /\ entry[j][1] <= created'
                      /\ list'[entry[j][1]].stored => entry[j] \in mapping
    BY <1>1 DEF EntryKnown
  <2>1. EntryKnown(j) /\ entry[j][1] \in Lists
    BY <1>0 DEF Mapped, TypeOK, Entry
  <2>2. entry[j][1] <= created /\ entry[j][1] \in Nat
    BY <1>3, <2>1 DEF EntryKnown
  <2> QED
    BY <1>0, <1>1, <1>2, <2>1, <2>2 DEF EntryKnown
<1>6. EntriesConserved'
  <2>1. \A j, k \in Issues : entry'[j] = entry'[k] /\ entry'[j] # None => j = k
    BY <1>0, <1>1 DEF Mapped, EntriesConserved
  <2>2. ASSUME NEW l \in Lists, list'[l].stored, NEW k \in Indexes
        PROVE  k <= list'[l].left <=> <<l, k>> \notin mapping'
    <3>1. CASE l = created'
      <4>1. <<l, k>> \notin mapping
        BY <1>0, <1>1, <1>3, <3>1
      <4>2. list'[l].left = Capacity
        BY <1>2, <3>1 DEF NewRow
      <4> QED
        BY <1>1, <4>1, <4>2, Sizes DEF Indexes
    <3>2. CASE l # created'
      BY <1>0, <1>1, <1>2, <2>2, <3>2 DEF Mapped, EntriesConserved
    <3> QED
      BY <3>1, <3>2
  <2> QED
    BY <2>1, <2>2 DEF EntriesConserved
<1> QED
  BY <1>4, <1>5, <1>6 DEF Mapped

LEMMA ClaimTables ==
    ASSUME IInv, RowsGrow, NEW i \in Issues, IssueClaim(i), Claims(i)
    PROVE  Tables' /\ Mapped'
<1> DEFINE row == [list[on[i]] EXCEPT !.left = left[i] - 1]
           mine == <<on[i], left[i]>>
<1>0. TypeOK /\ Tables /\ Mapped /\ created \in Nat /\ i \in Handlers /\ FreshOf(i)
  BY CreatedNat DEF IInv, Handlers, Fresh
<1>1. /\ Store(i, row) /\ mapping' = mapping \cup {mine} /\ entry' = [entry EXCEPT ![i] = mine]
      /\ created' = created /\ at[i] = "claim"
  BY DEF IssueClaim
<1>2. /\ on[i] \in Lists /\ list[on[i]].stored /\ left[i] = list[on[i]].left /\ left[i] \in Indexes
      /\ mine \notin mapping /\ list[on[i]] \in Row
  BY <1>0, <1>1 DEF Claims, Unchanged, FreshOf, IInv, Placed, IssuePlaced, TypeOK
<1>3. on[i] <= created
  BY <1>2, ListBounds
<1>4. row.stored /\ row.left = left[i] - 1
  BY ONLY <1>2 DEF Row
<1>5. \A l \in Lists : list'[l] = IF l = on[i] THEN row ELSE list[l]
  BY <1>0, <1>1, <1>2 DEF Store, TypeOK
<1> HIDE DEF row
<1>6. \A l \in Lists : list'[l].stored <=> list[l].stored
  BY <1>2, <1>4, <1>5
<1>7. \A e \in mapping' : e \in mapping \/ e = mine
  BY <1>1
<1>8. \A e \in mapping : e[1] \in Lists
  BY <1>0 DEF TypeOK, Entry
<1>9. Tables'
  <2>1. \A l \in Lists : l > created' => list'[l] = NoRow
    <3>1. \A l \in Lists : l > created => l # on[i]
      BY <1>0, <1>3 DEF Lists
    <3> QED
      BY <1>0, <1>1, <1>5, <3>1 DEF Tables
  <2>2. \A e \in mapping' : list'[e[1]].stored
    BY <1>0, <1>2, <1>6, <1>7, <1>8 DEF Tables
  <2> QED
    BY <2>1, <2>2, TokensOfElements DEF Tables
<1>10. \A j \in Issues : entry'[j] = IF j = i THEN mine ELSE entry[j]
  BY <1>0, <1>1 DEF TypeOK
<1>11. \A j \in Issues : EntryKnown(j)'
  <2> SUFFICES ASSUME NEW j \in Issues, entry'[j] # None
               PROVE  /\ entry'[j][1] <= created
                      /\ list'[entry'[j][1]].stored => entry'[j] \in mapping'
    BY <1>1 DEF EntryKnown
  <2>1. CASE j = i
    BY <1>1, <1>3, <1>10, <2>1
  <2>2. CASE j # i
    <3>1. entry'[j] = entry[j] /\ EntryKnown(j) /\ entry[j][1] \in Lists
      BY <1>0, <1>10, <2>2 DEF Mapped, TypeOK, Entry
    <3> QED
      BY <1>1, <1>6, <3>1 DEF EntryKnown
  <2> QED
    BY <2>1, <2>2
<1>12. EntriesConserved'
  <2>1. ASSUME NEW j \in Issues, NEW k \in Issues, entry'[j] = entry'[k], entry'[j] # None
        PROVE  j = k
    <3>1. \A m \in Issues : entry[m] # mine \/ entry[m] = None
      BY <1>0, <1>2 DEF Mapped, EntryKnown
    <3>2. \A m \in Issues \ {i} : entry'[m] # None => entry'[m] # mine
      BY <1>10, <3>1
    <3> QED
      BY <1>0, <1>10, <2>1, <3>2 DEF Mapped, EntriesConserved
  <2>2. ASSUME NEW l \in Lists, list'[l].stored, NEW k \in Indexes
        PROVE  k <= list'[l].left <=> <<l, k>> \notin mapping'
    <3>1. k <= list[l].left <=> <<l, k>> \notin mapping
      BY <1>0, <1>6, <2>2 DEF Mapped, EntriesConserved
    <3>2. CASE l = on[i]
      <4>1. list'[l].left = left[i] - 1 /\ list[l].left = left[i]
        BY <1>2, <1>4, <1>5, <3>2
      <4>2. <<l, k>> \in mapping' <=> (<<l, k>> \in mapping \/ k = left[i])
        BY <1>1, <3>2
      <4>3. k \in Nat /\ left[i] \in Nat
        BY <1>2, Sizes DEF Indexes
      <4> QED
        BY <3>1, <4>1, <4>2, <4>3
    <3>3. CASE l # on[i]
      <4>1. list'[l].left = list[l].left
        BY <1>5, <3>3
      <4>2. <<l, k>> \in mapping' <=> <<l, k>> \in mapping
        BY <1>1, <3>3
      <4> QED
        BY <3>1, <4>1, <4>2
    <3> QED
      BY <3>2, <3>3
  <2> QED
    BY <2>1, <2>2 DEF EntriesConserved
<1> QED
  BY <1>9, <1>11, <1>12 DEF Mapped

LEMMA StepTables == IInv /\ TypeOK' /\ [Next]_vars => Tables' /\ Mapped'
<1> SUFFICES ASSUME IInv, TypeOK', [Next]_vars PROVE Tables' /\ Mapped'
  OBVIOUS
<1>0. RowsGrow
  BY StepGrow
<1>1. ASSUME NEW i \in Issues, Issue(i) PROVE Tables' /\ Mapped'
  <2>1. ASSUME IssueFind(i) \/ (IssueClaim(i) /\ ~Claims(i)) PROVE SameTables
    <3>1. rows' = rows /\ entry' = entry
      BY <2>1 DEF IssueFind, IssueClaim, rows
    <3> QED
      BY <3>1 DEF rows, SameTables
  <2> QED
    BY <1>0, <1>1, <2>1, ClaimTables, CreateTables, SameTablesStep DEF Issue
<1>2. ASSUME UNCHANGED vars \/ \E h \in Handlers : Sign(h) PROVE Tables' /\ Mapped'
  <2>1. rows' = rows /\ entry' = entry
    BY <1>2 DEF vars, Sign
  <2>2. SameTables
    BY <2>1 DEF rows, SameTables
  <2> QED
    BY <1>0, <2>2, SameTablesStep
<1>3. ASSUME NEW h \in Handlers, Publish(h) PROVE Tables' /\ Mapped'
  BY <1>0, <1>3, PublishSame, SameTablesStep
<1>4. ASSUME NEW u \in Updates, Update(u) PROVE Tables' /\ Mapped'
  BY <1>0, <1>4, UpdateSame, SameTablesStep
<1>5. ASSUME NEW c \in Calls, Call(c) PROVE Tables' /\ Mapped'
  BY <1>0, <1>5, CallTables
<1> QED
  BY <1>1, <1>2, <1>3, <1>4, <1>5 DEF Next
-----------------------------------------------------------------------------
(***************************************************************************)
(* The inductive invariant.                                                *)
(***************************************************************************)
LEMMA InvInit == Init => IInv
<1> SUFFICES ASSUME Init PROVE IInv
  OBVIOUS
<1>1. TypeOK /\ 1 \in Lists /\ created = 1 /\ MaxRetries \in Nat \ {0}
  BY TypeInit, Sizes DEF Init, Lists
<1>2. /\ \A h \in Handlers : at[h] = "idle" /\ on[h] = 1 /\ tries[h] = 0 /\ signs[h] = 0
      /\ \A i \in Issues : entry[i] = None /\ i \in Handlers
      /\ \A u \in Updates : todo[u] = {} /\ wrote[u] = {} /\ u \in Handlers
      /\ latest = {} /\ mapping = {}
  BY DEF Init, Handlers
<1>3. Attempts
  BY <1>1, <1>2 DEF Attempts
<1>4. Placed
  BY <1>1, <1>2 DEF Placed, IssuePlaced, UpdatePlaced
<1>5. Fresh
  BY <1>2 DEF Fresh, FreshOf
<1>6. Written
  BY <1>2 DEF Written, WrittenBy
<1>7. \A l \in Lists : list[l] = IF l = 1 THEN [NewRow EXCEPT !.token = NewRow.elements] ELSE NoRow
  BY DEF Init
<1>8. ~NoRow.stored /\ NewRow.left = Capacity /\ NewRow.elements = [k \in Indexes |-> 0]
      /\ NewRow \in Row
  BY NewRowType DEF NoRow, NewRow
<1>9. /\ [NewRow EXCEPT !.token = NewRow.elements].left = Capacity
      /\ [NewRow EXCEPT !.token = NewRow.elements].elements = [k \in Indexes |-> 0]
      /\ [NewRow EXCEPT !.token = NewRow.elements].token = [k \in Indexes |-> 0]
  BY ONLY <1>8 DEF Row
<1>10. Tables
  <2>1. \A l \in Lists : l > created => list[l] = NoRow
    BY <1>1, <1>7 DEF Lists
  <2>2. \A l \in Lists : list[l].stored => list[l].token = list[l].elements
    BY <1>7, <1>8, <1>9
  <2> QED
    BY <1>2, <2>1, <2>2 DEF Tables
<1>11. Mapped
  <2>1. \A l \in Lists, k \in Indexes : list[l].stored => k <= list[l].left
    <3>1. \A l \in Lists : list[l].stored => list[l].left = Capacity
      BY <1>7, <1>8, <1>9
    <3>2. \A k \in Indexes : k <= Capacity
      BY Sizes DEF Indexes
    <3> QED
      BY <3>1, <3>2
  <2> QED
    BY <1>2, <2>1 DEF Mapped, EntryKnown, EntriesConserved
<1> QED
  BY <1>1, <1>3, <1>4, <1>5, <1>6, <1>10, <1>11 DEF IInv

LEMMA InvStep == IInv /\ [Next]_vars => IInv'
<1> SUFFICES ASSUME IInv, [Next]_vars PROVE IInv'
  OBVIOUS
<1>1. TypeOK'
  BY TypeStep
<1>2. Tables' /\ Mapped'
  BY <1>1, StepTables
<1>3. \A g \in Handlers : Local(g)'
  BY <1>1, AllLocal
<1>4. Attempts' /\ Placed' /\ Fresh' /\ Written'
  BY <1>3 DEF Local, Attempts, Placed, Fresh, Written, Handlers
<1> QED
  BY <1>1, <1>2, <1>4 DEF IInv

LEMMA Invariance == Spec => []IInv
BY InvInit, InvStep, PTL DEF Spec
-----------------------------------------------------------------------------
(***************************************************************************)
(* The theorems.                                                           *)
(***************************************************************************)
\* Lists, entries and handlers keep their types: no stack goes below zero (a stack
\* is only popped at the version that was read) and no attempt past the limit.
THEOREM TypeCorrect == Spec => []TypeOK
<1>1. IInv => TypeOK
  BY DEF IInv
<1> QED
  BY Invariance, <1>1, PTL

\* Credentials never share an entry, and the stack of a list and its mappings
\* account for every index, whatever requests, new lists and deletions overlap
\* (allocateWithRetries: versioned update and unique constraint in one transaction).
THEOREM Conservation == Spec => []EntriesConserved
<1>1. IInv => EntriesConserved
  BY DEF IInv, Mapped
<1> QED
  BY Invariance, <1>1, PTL

\* Revocation is final for updates that overlap: an update that loaded the list
\* before a revocation fails its versioned write (setEntryTransaction).
THEOREM RevokedStaysRevoked == Spec => RevocationFinal
<1>1. ASSUME IInv, [Next]_vars, NEW l \in Lists, NEW k \in Indexes,
             list[l].elements[k] = Revoked, list'[l].stored
      PROVE  list'[l].elements[k] = Revoked
  <2>1. CASE Grows(l)
    BY <1>1, <2>1 DEF Grows
  <2>2. CASE l > created
    BY <1>1, <2>2 DEF IInv, Tables, NoRow, NewRow, Revoked
  <2> QED
    BY <1>1, <2>1, <2>2, StepGrow DEF RowsGrow
<1>2. IInv /\ [Next]_vars =>
        [\A l \in Lists, k \in Indexes :
            list[l].elements[k] = Revoked /\ list'[l].stored =>
                list'[l].elements[k] = Revoked]_vars
  BY <1>1
<1> QED
  BY Invariance, <1>2, PTL DEF Spec, RevocationFinal

\* A token that shows a revocation is only replaced by tokens that show it
\* (createListJWT stores a token under the version it was signed for).
THEOREM TokensRemember == Spec => TokensNeverForget
<1>1. ASSUME IInv, [Next]_vars, NEW l \in Lists, list[l].token # None,
             list'[l].stored, list'[l].token # None, NEW k \in Indexes, list[l].token[k] = Revoked
      PROVE  list'[l].token[k] = Revoked
  <2>1. CASE Grows(l)
    <3>1. list[l].elements[k] = Revoked /\ list'[l].elements[k] = Revoked
      BY <1>1, <2>1 DEF Grows, IInv, Tables
    <3> QED
      BY <1>1, <2>1, <3>1 DEF Grows
  <2>2. CASE list'[l] = NewRow
    BY <1>1, <2>2 DEF NewRow
  <2> QED
    BY <1>1, <2>1, <2>2, StepGrow DEF RowsGrow
<1>2. IInv /\ [Next]_vars =>
        [\A l \in Lists :
            list[l].token # None /\ list'[l].stored /\ list'[l].token # None =>
                \A k \in Indexes :
                    list[l].token[k] = Revoked => list'[l].token[k] = Revoked]_vars
  BY <1>1
<1> QED
  BY Invariance, <1>2, PTL DEF Spec, TokensNeverForget

\* With immediateUpdate, what an update revoked and answered is in every token
\* that verifiers can fetch (setEntries publishes after each entry).
THEOREM PublishedWhenDone == Spec => []RevocationsPublished
<1>1. IInv => RevocationsPublished
  BY DEF IInv, Written, WrittenBy, Pending, RevocationsPublished
<1> QED
  BY Invariance, <1>1, PTL
=============================================================================
