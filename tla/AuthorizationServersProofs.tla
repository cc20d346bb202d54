--------------------- MODULE AuthorizationServersProofs ---------------------
(***************************************************************************)
(* The hosted authorization servers for every number of authorizations,    *)
(* requests and lifetimes.                                                 *)
(*                                                                         *)
(* The argument: what is true of a row stays true of every copy of it,     *)
(* because it only refers to responses that were given, and those never    *)
(* change (Grown).  So a handler may write back a copy however old it is   *)
(* (RowOK holds for the rows and for the copies the handlers hold).        *)
(***************************************************************************)
EXTENDS AuthorizationServers, TLAPS

\* Row p was redeemed by a code RefreshLife before its refresh token expires.
CodeRedeemed(p, row, A, O, T) ==
    \E s \in Exchanges : /\ A[s] = "done" /\ O[s] = p /\ T[s].via \in Callbacks
                         /\ row.refreshExpires = T[s].time + RefreshLife

\* What holds of a row of p, and of a copy of it, in the state of the handlers A,
\* their rows O, the tokens T and the claims C.
Refreshable(p, row, A, O, T) ==
    /\ A[row.refresh] = "done" /\ row.code # None
    /\ row.expires >= T[row.refresh].time + AccessLife
    /\ row.expires >= row.refreshExpires
    /\ row.server = "chained" => T[row.refresh].identity = row.login
    /\ CodeRedeemed(p, row, A, O, T)

RowOK(p, row, A, O, T, C) ==
    /\ row.refresh # None => Refreshable(p, row, A, O, T)
    /\ row.code # None =>
          IF row.server = "chained" THEN row.login = row.code ELSE C # None
    /\ row.status \in {"authorize", "callback"} => row.refresh = None
    /\ row.status = "authorize" => row.code = None
    /\ row.stored => row.server # None

RowsOK == \A p \in Pushes : RowOK(p, rows[p], at, of, token, claims)
HeldOK == \A h \in Handlers : RowOK(of[h], held[h], at, of, token, claims)

\* A handler that is going to save.
Busy(h) == at[h] \in {"read", "publish", "save", "expire"}
BusyOK(h) == Busy(h) => held[h].stored /\ of[h] \in Pushes

AuthorizeOK(a) == at[a] = "save" => held[a].status = "authorize"

CallbackOK(c) ==
    /\ at[c] \in {"publish", "save"} => held[c].status = "callback"
    /\ at[c] = "save" /\ held[c].server # "chained" => claims # None

\* The identity in a token, as TokenNamesItsLogin has it.
Names(t) ==
    token[t].identity \in Pushes \/
    token[t].identity = IF token[t].via \in Callbacks THEN token[t].via
                        ELSE token[token[t].via].identity

Answering(t) == at[t] \in {"read", "save"}
ExchangeOK(t) ==
    /\ Answering(t) \/ Granted(t) =>
          /\ token[t].via \in Callbacks \cup Exchanges
          /\ token[t].via \in Exchanges => Granted(token[t].via)
    /\ Answering(t) =>
          /\ token[t].via \in Callbacks => held[t].code = token[t].via
          /\ token[t].via \in Exchanges => held[t].refresh = token[t].via
          /\ held[t].server # "chained" => claims # None
    /\ at[t] = "read" => held[t].server # "chained"
    /\ at[t] = "save" \/ Granted(t) => Names(t)
    /\ at[t] = "save" /\ held[t].server = "chained" => token[t].identity = held[t].login

AllBusyOK == \A h \in Handlers : BusyOK(h)
AllAuthorizeOK == \A a \in Authorizations : AuthorizeOK(a)
AllCallbackOK == \A c \in Callbacks : CallbackOK(c)
AllExchangeOK == \A t \in Exchanges : ExchangeOK(t)
HandlersOK == AllBusyOK /\ AllAuthorizeOK /\ AllCallbackOK /\ AllExchangeOK

IInv == TypeOK /\ RowsOK /\ HeldOK /\ HandlersOK

\* Responses that were given stay, and so does a presentation.
Grown ==
    /\ \A s \in Exchanges : Granted(s) =>
          at'[s] = "done" /\ token'[s] = token[s] /\ of'[s] = of[s]
    /\ claims # None => claims' # None
-----------------------------------------------------------------------------
LEMMA LifeTimes ==
    /\ SessionLife \in Nat /\ CodeLife \in Nat /\ AccessLife \in Nat /\ RefreshLife \in Nat
    /\ LastRequest \in Nat /\ Horizon \in Nat
BY TimesGiven

LEMMA NoRowIsRow == NoRow \in Row
BY LifeTimes DEF NoRow, Row, Times, Larger, Status

LEMMA NoRowOK ==
    ASSUME NEW p, NEW A, NEW O, NEW T, NEW C
    PROVE  RowOK(p, NoRow, A, O, T, C)
BY DEF RowOK, NoRow

LEMMA InitIInv == Init => IInv
<1> SUFFICES ASSUME Init PROVE IInv
  OBVIOUS
<1>1. TypeOK
  BY NoRowIsRow, LifeTimes DEF Init, TypeOK, NoToken, Identities
<1>2. RowsOK /\ HeldOK
  BY NoRowOK DEF Init, RowsOK, HeldOK
<1>3. HandlersOK
  BY DEF Init, HandlersOK, AllBusyOK, AllAuthorizeOK, AllCallbackOK, AllExchangeOK, BusyOK,
         Busy, AuthorizeOK, CallbackOK, ExchangeOK, Answering, Granted, Handlers
<1> QED
  BY <1>1, <1>2, <1>3 DEF IInv

\* What holds of a row is not undone by what the other handlers do.
LEMMA RowKept ==
    ASSUME TypeOK, Grown, NEW p, NEW row, row.refresh \in Exchanges \cup {None},
           RowOK(p, row, at, of, token, claims)
    PROVE  RowOK(p, row, at', of', token', claims')
<1>1. ASSUME row.refresh # None PROVE Refreshable(p, row, at', of', token')
  <2>1. Refreshable(p, row, at, of, token) /\ row.refresh \in Exchanges
    BY <1>1 DEF RowOK
  <2>2. CodeRedeemed(p, row, at', of', token')
    BY <2>1 DEF Refreshable, CodeRedeemed, Grown, Granted
  <2> QED
    BY <2>1, <2>2 DEF Refreshable, Grown, Granted
<1> QED
  BY <1>1 DEF RowOK, Grown

LEMMA LoadKeeps ==
    ASSUME IInv, Grown, NEW h \in Handlers, NEW p \in Pushes, NEW place,
           Load(h, p, place)
    PROVE  RowsOK' /\ HeldOK'
<1>1. ASSUME NEW q \in Pushes PROVE RowOK(q, rows[q], at', of', token', claims')
  BY RowKept, rows[q] \in Row DEF IInv, RowsOK, TypeOK, Row
<1>2. RowsOK'
  BY <1>1 DEF Load, RowsOK
<1>3. ASSUME NEW g \in Handlers PROVE RowOK(of'[g], held'[g], at', of', token', claims')
  <2>1. CASE g = h
    BY <1>1, <2>1 DEF Load, IInv, TypeOK
  <2>2. CASE g # h
    <3>1. held'[g] = held[g] /\ of'[g] = of[g]
      BY <2>2 DEF Load, IInv, TypeOK
    <3>2. held[g] \in Row /\ RowOK(of[g], held[g], at, of, token, claims) /\ TypeOK
      BY DEF IInv, HeldOK, TypeOK
    <3> QED
      BY <3>1, <3>2, RowKept DEF Row
  <2> QED
    BY <2>1, <2>2
<1>4. HeldOK'
  BY <1>3 DEF HeldOK
<1> QED
  BY <1>2, <1>4

LEMMA SaveKeeps ==
    ASSUME IInv, Grown, NEW h \in Handlers, NEW row, Save(h, row), of[h] \in Pushes,
           RowOK(of[h], row, at', of', token', claims')
    PROVE  RowsOK' /\ HeldOK'
<1>1. ASSUME NEW q \in Pushes PROVE RowOK(q, rows'[q], at', of', token', claims')
  <2>1. CASE q = of[h]
    BY <2>1 DEF Save, IInv, TypeOK
  <2>2. CASE q # of[h]
    <3>1. rows'[q] = rows[q] /\ rows[q] \in Row /\ TypeOK
      BY <2>2 DEF Save, IInv, TypeOK
    <3> QED
      BY <3>1, RowKept DEF IInv, RowsOK, Row
  <2> QED
    BY <2>1, <2>2
<1>2. ASSUME NEW g \in Handlers PROVE RowOK(of'[g], held'[g], at', of', token', claims')
  <2>1. CASE g = h
    BY <2>1, NoRowOK DEF Save, IInv, TypeOK
  <2>2. CASE g # h
    <3>1. held'[g] = held[g] /\ of'[g] = of[g] /\ held[g] \in Row /\ TypeOK
      BY <2>2 DEF Save, IInv, TypeOK
    <3> QED
      BY <3>1, RowKept DEF IInv, HeldOK, Row
  <2> QED
    BY <2>1, <2>2
<1> QED
  BY <1>1, <1>2 DEF RowsOK, HeldOK

\* A step of handler h leaves what holds of the others.
OthersKept(h) ==
    /\ \A g \in Handlers \ {h} :
          at'[g] = at[g] /\ of'[g] = of[g] /\ held'[g] = held[g]
    /\ \A t \in Exchanges \ {h} : token'[t] = token[t]

\* What holds of h itself.
HandlerOK(h) ==
    /\ BusyOK(h)
    /\ h \in Authorizations => AuthorizeOK(h)
    /\ h \in Callbacks => CallbackOK(h)
    /\ h \in Exchanges => ExchangeOK(h)

LEMMA OthersOK ==
    ASSUME IInv, Grown, NEW h \in Handlers, OthersKept(h), HandlerOK(h)'
    PROVE  HandlersOK'
<1> USE DEF IInv, HandlersOK
<1>1. AllBusyOK'
  BY DEF AllBusyOK, BusyOK, Busy, OthersKept, HandlerOK
<1>2. AllAuthorizeOK'
  BY DEF AllAuthorizeOK, AuthorizeOK, OthersKept, HandlerOK, Handlers
<1>3. AllCallbackOK'
  BY DEF AllCallbackOK, CallbackOK, OthersKept, HandlerOK, Handlers, Grown
<1>4. ASSUME NEW t \in Exchanges, t # h PROVE ExchangeOK(t)'
  <2>1. /\ at'[t] = at[t] /\ held'[t] = held[t] /\ token'[t] = token[t]
        /\ t \in Handlers
    BY <1>4 DEF OthersKept, Handlers
  <2>2. ExchangeOK(t)
    BY DEF AllExchangeOK
  <2>3. ASSUME NEW v \in Exchanges, Granted(v) PROVE Granted(v)' /\ token'[v] = token[v]
    BY <2>3 DEF Grown, Granted
  <2>4. ASSUME Names(t), at[t] = "save" \/ Granted(t) PROVE Names(t)'
    <3>1. token[t].via \in Callbacks \cup Exchanges
      BY <2>2, <2>4 DEF ExchangeOK, Answering, Granted
    <3>2. token[t].via \in Exchanges => token'[token[t].via] = token[token[t].via]
      BY <2>2, <2>3, <2>4 DEF ExchangeOK, Answering, Granted
    <3> QED
      BY <2>1, <2>4, <3>1, <3>2 DEF Names
  <2> QED
    BY <2>1, <2>2, <2>3, <2>4 DEF ExchangeOK, Answering, Granted, Grown
<1>5. AllExchangeOK'
  BY <1>4 DEF AllExchangeOK, HandlerOK
<1> QED
  BY <1>1, <1>2, <1>3, <1>5

\* Only a handler that is not done moves.
LEMMA MovesGrow ==
    ASSUME TypeOK, NEW h \in Handlers, at[h] # "done", OthersKept(h),
           claims # None => claims' # None
    PROVE  Grown
BY DEF Grown, Granted, OthersKept, Handlers

LEMMA DistinctHandlers ==
    /\ Authorizations \subseteq Handlers /\ Callbacks \subseteq Handlers
    /\ Exchanges \subseteq Handlers
    /\ \A a \in Authorizations : a \notin Callbacks /\ a \notin Exchanges
    /\ \A c \in Callbacks : c \notin Exchanges /\ c \notin Authorizations
    /\ \A t \in Exchanges : t \notin Callbacks /\ t \notin Authorizations
    /\ None \notin Handlers /\ None \notin Pushes
BY NamesDiffer DEF Handlers

LEMMA LoadTypes ==
    ASSUME TypeOK, NEW h \in Handlers, NEW p \in Pushes,
           NEW place \in {"idle", "read", "publish", "save", "expire", "done", "refused"},
           Load(h, p, place),
           token' \in [Exchanges -> [via : Callbacks \cup Exchanges \cup {None},
                                     identity : Identities, time : Nat]]
    PROVE  TypeOK'
BY DEF TypeOK, Load

LEMMA SaveTypes ==
    ASSUME TypeOK, NEW h \in Handlers, NEW row \in Row, of[h] \in Pushes, Save(h, row),
           NEW place \in {"idle", "read", "publish", "save", "expire", "done", "refused"},
           Go(h, place),
           token' \in [Exchanges -> [via : Callbacks \cup Exchanges \cup {None},
                                     identity : Identities, time : Nat]]
    PROVE  TypeOK'
BY NoRowIsRow DEF TypeOK, Save, Go

LEMMA LoadLeavesOthers ==
    ASSUME TypeOK, NEW h \in Handlers, NEW p, NEW place, Load(h, p, place),
           \A t \in Exchanges \ {h} : token'[t] = token[t]
    PROVE  OthersKept(h)
BY DEF TypeOK, Load, OthersKept

LEMMA SaveLeavesOthers ==
    ASSUME TypeOK, NEW h \in Handlers, NEW row, NEW place, Save(h, row), Go(h, place),
           \A t \in Exchanges \ {h} : token'[t] = token[t]
    PROVE  OthersKept(h)
BY DEF TypeOK, Save, Go, OthersKept
-----------------------------------------------------------------------------
LEMMA ParStep ==
    ASSUME IInv, NEW p \in Pushes, Par(p)
    PROVE  IInv'
<1>1. PICK s \in {"chained", "oid4vp"} :
         rows' = [rows EXCEPT ![p] = [NoRow EXCEPT !.stored = TRUE, !.server = s,
                     !.status = "authorize", !.expires = clock + SessionLife]]
  BY DEF Par
<1> DEFINE new == [NoRow EXCEPT !.stored = TRUE, !.server = s,
                      !.status = "authorize", !.expires = clock + SessionLife]
<1>2. new \in Row /\ RowOK(p, new, at, of, token, claims)
  <2>1. clock + SessionLife \in Times
    BY LifeTimes DEF Par, IInv, TypeOK, Times, Larger
  <2>2. ASSUME NEW r \in Row
        PROVE  [r EXCEPT !.stored = TRUE, !.server = s, !.status = "authorize",
                         !.expires = clock + SessionLife] \in Row
    BY <2>1 DEF Row, Status
  <2>3. new \in Row
    BY <2>2, NoRowIsRow
  <2>4. /\ NoRow \in Row /\ NoRow.code = None /\ NoRow.refresh = None
    BY NoRowIsRow DEF NoRow
  <2>5. ASSUME NEW r \in Row, r.code = None, r.refresh = None
        PROVE  RowOK(p, [r EXCEPT !.stored = TRUE, !.server = s, !.status = "authorize",
                         !.expires = clock + SessionLife], at, of, token, claims)
    BY <2>5, NamesDiffer DEF RowOK, Row
  <2> QED
    BY <2>3, <2>4, <2>5
<1>3. TypeOK'
  BY <1>1, <1>2 DEF Par, IInv, TypeOK
<1>4. RowsOK'
  BY <1>1, <1>2 DEF Par, IInv, RowsOK, TypeOK
<1>5. HeldOK' /\ HandlersOK'
  BY DEF Par, IInv, HeldOK, HandlersOK, AllBusyOK, AllAuthorizeOK, AllCallbackOK,
         AllExchangeOK, BusyOK, Busy, AuthorizeOK, CallbackOK, ExchangeOK, Answering,
         Granted, Names
<1> QED
  BY <1>3, <1>4, <1>5 DEF IInv

LEMMA ExpireStep ==
    ASSUME IInv, NEW h \in Handlers, Expire(h)
    PROVE  IInv'
<1> DEFINE new == [held[h] EXCEPT !.status = "expired"]
<1>1. /\ at[h] = "expire" /\ held[h] \in Row /\ of[h] \in Pushes /\ TypeOK
      /\ RowOK(of[h], held[h], at, of, token, claims)
  BY DEF Expire, IInv, HandlersOK, AllBusyOK, BusyOK, Busy, TypeOK, HeldOK
<1>2. new \in Row /\ RowOK(of[h], new, at, of, token, claims)
  BY <1>1 DEF Row, Status, RowOK, Refreshable, CodeRedeemed
<1>3. Save(h, new) /\ Go(h, "refused") /\ UNCHANGED token
  BY DEF Expire
<1>4. TypeOK'
  BY <1>1, <1>2, <1>3, SaveTypes DEF TypeOK
<1>5. OthersKept(h)
  BY <1>1, <1>3, SaveLeavesOthers
<1>6. Grown
  BY <1>1, <1>3, <1>5, MovesGrow DEF Save
<1>7. RowsOK' /\ HeldOK'
  <2>1. RowOK(of[h], new, at', of', token', claims')
    BY <1>1, <1>2, <1>6, RowKept DEF Row
  <2> QED
    BY <1>1, <1>3, <1>6, <2>1, SaveKeeps
<1>8. HandlerOK(h)'
  BY <1>1, <1>3 DEF Go, HandlerOK, BusyOK, Busy, AuthorizeOK, CallbackOK, ExchangeOK,
                    Answering, Granted, TypeOK
<1> QED
  BY <1>4, <1>5, <1>6, <1>7, <1>8, OthersOK DEF IInv

\* A load that leaves the tokens: what remains is to know the handler.
LEMMA LoadStep ==
    ASSUME IInv, NEW h \in Handlers, NEW p \in pushed,
           NEW place \in {"read", "publish", "save", "expire"}, Load(h, p, place),
           token' \in [Exchanges -> [via : Callbacks \cup Exchanges \cup {None},
                                     identity : Identities, time : Nat]],
           \A t \in Exchanges \ {h} : token'[t] = token[t]
    PROVE  /\ Grown
           /\ p \in Pushes /\ rows[p] \in Row /\ RowOK(p, rows[p], at, of, token, claims)
           /\ at'[h] = place /\ of'[h] = p /\ held'[h] = rows[p] /\ claims' = claims
           /\ HandlerOK(h)' => IInv'
<1>1. TypeOK /\ p \in Pushes
  BY DEF IInv, TypeOK
<1>2. OthersKept(h)
  BY <1>1, LoadLeavesOthers
<1>3. Grown
  BY <1>1, <1>2, MovesGrow DEF Load
<1>4. RowsOK' /\ HeldOK'
  BY <1>1, <1>3, LoadKeeps
<1>5. TypeOK'
  BY <1>1, LoadTypes
<1>6. at'[h] = place /\ of'[h] = p /\ held'[h] = rows[p] /\ claims' = claims
  BY <1>1 DEF Load, TypeOK
<1>7. rows[p] \in Row /\ RowOK(p, rows[p], at, of, token, claims)
  BY <1>1 DEF IInv, RowsOK, TypeOK
<1>8. HandlerOK(h)' => IInv'
  BY <1>2, <1>3, <1>4, <1>5, OthersOK DEF IInv
<1> QED
  BY <1>1, <1>3, <1>6, <1>7, <1>8

\* A save of a row that is right in the new state.
LEMMA SaveStep ==
    ASSUME IInv, NEW h \in Handlers, Busy(h), NEW row \in Row,
           NEW place \in {"done", "refused"}, Save(h, row), Go(h, place),
           token' \in [Exchanges -> [via : Callbacks \cup Exchanges \cup {None},
                                     identity : Identities, time : Nat]],
           \A t \in Exchanges \ {h} : token'[t] = token[t]
    PROVE  /\ Grown /\ TypeOK
           /\ of[h] \in Pushes /\ held[h] \in Row /\ held[h].stored
           /\ RowOK(of[h], held[h], at, of, token, claims)
           /\ RowOK(of[h], held[h], at', of', token', claims')
           /\ at'[h] = place /\ of' = of /\ claims' = claims
           /\ HandlerOK(h)' /\ RowOK(of[h], row, at', of', token', claims') => IInv'
<1>1. TypeOK /\ of[h] \in Pushes /\ held[h] \in Row /\ held[h].stored
  BY DEF IInv, TypeOK, HandlersOK, AllBusyOK, BusyOK
<1>2. OthersKept(h)
  BY <1>1, SaveLeavesOthers
<1>3. Grown
  BY <1>1, <1>2, MovesGrow DEF Save, Busy
<1>4. RowOK(of[h], held[h], at, of, token, claims)
  BY DEF IInv, HeldOK
<1>5. RowOK(of[h], held[h], at', of', token', claims')
  BY <1>1, <1>3, <1>4, RowKept DEF Row
<1>6. at'[h] = place /\ of' = of /\ claims' = claims
  BY <1>1 DEF Save, Go, TypeOK
<1>7. TypeOK'
  BY <1>1, SaveTypes
<1>8. ASSUME HandlerOK(h)', RowOK(of[h], row, at', of', token', claims') PROVE IInv'
  BY <1>1, <1>2, <1>3, <1>7, <1>8, SaveKeeps, OthersOK DEF IInv
<1> QED
  BY <1>1, <1>3, <1>4, <1>5, <1>6, <1>8

LEMMA AuthorizeStep ==
    ASSUME IInv, NEW a \in Authorizations, Authorize(a)
    PROVE  IInv'
<1>1. a \in Handlers /\ a \notin Callbacks /\ a \notin Exchanges
  BY DistinctHandlers
<1>2. CASE AuthorizeLoad(a)
  <2>1. PICK p \in pushed :
           /\ rows[p].status = "authorize"
           /\ Load(a, p, IF rows[p].expires < clock THEN "expire" ELSE "save")
    BY <1>2 DEF AuthorizeLoad
  <2> DEFINE place == IF rows[p].expires < clock THEN "expire" ELSE "save"
  <2>2. place \in {"read", "publish", "save", "expire"} /\ Load(a, p, place)
    BY <2>1
  <2>3. token' = token
    BY <1>2 DEF AuthorizeLoad
  <2>4. rows[p].stored
    BY <2>1 DEF Load
  <2> HIDE DEF place
  <2>5. /\ p \in Pushes /\ at'[a] = place /\ of'[a] = p /\ held'[a] = rows[p]
        /\ HandlerOK(a)' => IInv'
    BY <1>1, <2>2, <2>3, LoadStep DEF IInv, TypeOK
  <2>6. HandlerOK(a)'
    BY <1>1, <2>1, <2>4, <2>5 DEF HandlerOK, BusyOK, AuthorizeOK
  <2> QED
    BY <2>5, <2>6
<1>3. CASE AuthorizeSave(a)
  <2> DEFINE new == [held[a] EXCEPT !.status = "callback",
                        !.state = IF held[a].server = "chained" THEN a ELSE None]
  <2>1. /\ Save(a, new) /\ Go(a, "done") /\ token' = token /\ at[a] = "save" /\ Busy(a)
    BY <1>3 DEF AuthorizeSave, Busy
  <2>2. held[a] \in Row /\ held[a].status = "authorize"
    BY <1>1, <2>1 DEF IInv, TypeOK, HandlersOK, AllAuthorizeOK, AuthorizeOK
  <2>3. new \in Row
    BY <2>2 DEF Row, Status
  <2> HIDE DEF new
  <2>4. /\ RowOK(of[a], held[a], at', of', token', claims') /\ at'[a] = "done"
        /\ HandlerOK(a)' /\ RowOK(of[a], new, at', of', token', claims') => IInv'
    BY <1>1, <2>1, <2>3, SaveStep DEF IInv, TypeOK
  <2>5. RowOK(of[a], new, at', of', token', claims')
    BY <2>2, <2>4 DEF RowOK, Row, new
  <2>6. HandlerOK(a)'
    BY <1>1, <2>4 DEF HandlerOK, BusyOK, Busy, AuthorizeOK
  <2> QED
    BY <2>4, <2>5, <2>6
<1> QED
  BY <1>2, <1>3 DEF Authorize

LEMMA CallbackStep ==
    ASSUME IInv, NEW c \in Callbacks, Callback(c)
    PROVE  IInv'
<1>1. c \in Handlers /\ c \notin Authorizations /\ c \notin Exchanges /\ c # None
  BY DistinctHandlers
<1>2. CASE CallbackLoad(c)
  <2>1. PICK p \in pushed, place \in {"publish", "save", "expire"} :
           /\ Load(c, p, place)
           /\ place # "expire" => rows[p].status = "callback"
           /\ place = "save" => rows[p].server # "oid4vp"
    BY <1>2 DEF CallbackLoad
  <2>2. token' = token /\ rows[p].stored
    BY <1>2, <2>1 DEF CallbackLoad, Load
  <2>3. /\ p \in Pushes /\ at'[c] = place /\ of'[c] = p /\ held'[c] = rows[p]
        /\ rows[p] \in Row /\ RowOK(p, rows[p], at, of, token, claims)
        /\ HandlerOK(c)' => IInv'
    BY <1>1, <2>1, <2>2, LoadStep DEF IInv, TypeOK
  <2>4. rows[p].server # "oid4vp" => rows[p].server = "chained"
    BY <2>2, <2>3 DEF RowOK, Row
  <2>5. HandlerOK(c)'
    BY <1>1, <2>1, <2>2, <2>3, <2>4 DEF HandlerOK, BusyOK, CallbackOK
  <2> QED
    BY <2>3, <2>5
<1>3. CASE CallbackPublish(c)
  <2>1. /\ at[c] = "publish" /\ claims' = of[c] /\ at' = [at EXCEPT ![c] = "save"]
        /\ UNCHANGED <<rows, pushed, clock, of, held, token, served>>
    BY <1>3 DEF CallbackPublish, Go
  <2>2. TypeOK /\ of[c] \in Pushes /\ held[c].stored /\ held[c].status = "callback"
    BY <1>1, <2>1 DEF IInv, HandlersOK, AllBusyOK, BusyOK, Busy, AllCallbackOK, CallbackOK
  <2>3. claims' \in Pushes /\ claims' # None
    BY <2>1, <2>2, NamesDiffer
  <2>4. TypeOK'
    BY <2>1, <2>2, <2>3 DEF TypeOK
  <2>5. OthersKept(c)
    BY <2>1, <2>2 DEF OthersKept, TypeOK
  <2>6. Grown
    BY <1>1, <2>1, <2>2, <2>3, <2>5, MovesGrow
  <2>7. RowsOK' /\ HeldOK'
    BY <2>1, <2>2, <2>6, RowKept DEF IInv, RowsOK, HeldOK, TypeOK, Row
  <2>8. HandlerOK(c)'
    BY <1>1, <2>1, <2>2, <2>3 DEF HandlerOK, BusyOK, CallbackOK, TypeOK
  <2> QED
    BY <1>1, <2>4, <2>5, <2>6, <2>7, <2>8, OthersOK DEF IInv
<1>4. CASE CallbackSave(c)
  <2> DEFINE new == [held[c] EXCEPT !.status = "authorized", !.code = c,
                        !.codeExpires = clock + CodeLife,
                        !.login = IF held[c].server = "chained" THEN c ELSE None]
  <2>1. /\ Save(c, new) /\ Go(c, "done") /\ token' = token /\ at[c] = "save" /\ Busy(c)
    BY <1>4 DEF CallbackSave, Busy
  <2>2. /\ held[c] \in Row /\ held[c].status = "callback"
        /\ held[c].server # "chained" => claims # None
    BY <1>1, <2>1 DEF IInv, TypeOK, HandlersOK, AllCallbackOK, CallbackOK
  <2>3. new \in Row
    <3>1. clock + CodeLife \in Nat
      BY LifeTimes DEF IInv, TypeOK
    <3> QED
      BY <2>2, <3>1 DEF Row, Status
  <2> HIDE DEF new
  <2>4. /\ RowOK(of[c], held[c], at', of', token', claims') /\ at'[c] = "done"
        /\ claims' = claims
        /\ HandlerOK(c)' /\ RowOK(of[c], new, at', of', token', claims') => IInv'
    BY <1>1, <2>1, <2>3, SaveStep DEF IInv, TypeOK
  <2>5. RowOK(of[c], new, at', of', token', claims')
    BY <2>2, <2>4 DEF RowOK, Row, new
  <2>6. HandlerOK(c)'
    BY <1>1, <2>4 DEF HandlerOK, BusyOK, Busy, CallbackOK
  <2> QED
    BY <2>4, <2>5, <2>6
<1> QED
  BY <1>2, <1>3, <1>4 DEF Callback

LEMMA ExchangeStep ==
    ASSUME IInv, NEW t \in Exchanges, Exchange(t)
    PROVE  IInv'
<1> DEFINE Tokens == [via : Callbacks \cup Exchanges \cup {None},
                      identity : Identities, time : Nat]
<1>1. t \in Handlers /\ t \notin Authorizations /\ t \notin Callbacks /\ None \notin Exchanges
      /\ None \notin Callbacks
  BY DistinctHandlers DEF Handlers
<1>2. token \in [Exchanges -> Tokens] /\ TypeOK
  BY DEF IInv, TypeOK
<1>3. ASSUME NEW p \in pushed, Load(t, p, "expire"), UNCHANGED token
      PROVE  IInv'
  <2>1. /\ p \in Pushes /\ at'[t] = "expire" /\ of'[t] = p /\ held'[t] = rows[p]
        /\ HandlerOK(t)' => IInv'
    BY <1>1, <1>2, <1>3, LoadStep
  <2>2. rows[p].stored
    BY <1>3 DEF Load
  <2>3. HandlerOK(t)'
    BY <1>1, <2>1, <2>2 DEF HandlerOK, BusyOK, ExchangeOK, Answering, Granted
  <2> QED
    BY <2>1, <2>3
\* The grant: what was presented, and what it says of the row.
<1>4. ASSUME NEW p \in pushed, NEW v \in Callbacks \cup Exchanges,
             Load(t, p, IF rows[p].server = "oid4vp" THEN "read" ELSE "save"),
             token' = [token EXCEPT ![t] = [@ EXCEPT !.via = v, !.identity = Identity(rows[p])]],
             \/ v \in Callbacks /\ rows[p].code = v
             \/ v \in Exchanges /\ rows[p].refresh = v
      PROVE  IInv'
  <2> DEFINE place == IF rows[p].server = "oid4vp" THEN "read" ELSE "save"
  <2>1. place \in {"read", "publish", "save", "expire"} /\ Load(t, p, place)
    BY <1>4
  <2>2. rows[p].stored /\ rows[p] \in Row /\ p \in Pushes /\ at[t] = "idle"
    BY <1>2, <1>4 DEF Load, TypeOK
  <2>3. token' \in [Exchanges -> Tokens]
    BY <1>2, <1>4, <2>2 DEF Row, Identities, Identity
  <2>4. /\ token'[t].via = v /\ token'[t].identity = rows[p].login
        /\ \A u \in Exchanges \ {t} : token'[u] = token[u]
    BY <1>2, <1>4 DEF Identity
  <2> HIDE DEF place
  <2>5. /\ Grown /\ RowOK(p, rows[p], at, of, token, claims)
        /\ at'[t] = place /\ of'[t] = p /\ held'[t] = rows[p] /\ claims' = claims
        /\ HandlerOK(t)' => IInv'
    BY <1>1, <2>1, <2>3, <2>4, LoadStep
  <2>6. rows[p].code # None /\ (v \in Exchanges =>
           Granted(v) /\ (rows[p].server = "chained" => token[v].identity = rows[p].login))
    <3>1. CASE v \in Callbacks /\ rows[p].code = v
      BY <1>1, <3>1, DistinctHandlers
    <3>2. CASE v \in Exchanges /\ rows[p].refresh = v
      BY <1>1, <2>5, <3>2 DEF RowOK, Refreshable, Granted
    <3> QED
      BY <1>4, <3>1, <3>2
  <2>7. v \in Callbacks => rows[p].code = v
    BY <1>4, DistinctHandlers
  <2>8. v \in Exchanges => rows[p].refresh = v /\ v # t
    BY <1>4, <2>2, <2>6, DistinctHandlers DEF Granted
  <2>9. v \in Exchanges => Granted(v)' /\ token'[v] = token[v]
    BY <2>4, <2>5, <2>6, <2>8 DEF Grown, Granted
  <2>10. IF rows[p].server = "chained"
         THEN place = "save" /\ rows[p].login = rows[p].code
         ELSE place = "read" /\ claims # None
    BY <2>2, <2>5, <2>6 DEF RowOK, Row, place
  <2>11. rows[p].server = "chained" => Names(t)'
    BY <2>4, <2>6, <2>7, <2>8, <2>9, <2>10, DistinctHandlers DEF Names
  <2>12. ExchangeOK(t)'
    BY <2>4, <2>5, <2>7, <2>8, <2>9, <2>10, <2>11 DEF ExchangeOK, Answering, Granted
  <2>13. HandlerOK(t)'
    BY <1>1, <2>2, <2>5, <2>12 DEF HandlerOK, BusyOK
  <2> QED
    BY <2>5, <2>13
<1>5. CASE ExchangeLoad(t)
  <2>1. PICK p \in pushed :
          \/ \E c \in Callbacks :
                /\ CodeUnused(rows[p], c)
                /\ \/ /\ Load(t, p, IF rows[p].server = "oid4vp" THEN "read" ELSE "save")
                      /\ token' = [token EXCEPT ![t] =
                                     [@ EXCEPT !.via = c, !.identity = Identity(rows[p])]]
                   \/ Load(t, p, "expire") /\ UNCHANGED token
          \/ \E r \in Exchanges :
                /\ rows[p].refresh = r
                /\ Load(t, p, IF rows[p].server = "oid4vp" THEN "read" ELSE "save")
                /\ token' = [token EXCEPT ![t] =
                               [@ EXCEPT !.via = r, !.identity = Identity(rows[p])]]
    BY <1>5 DEF ExchangeLoad
  <2> QED
    BY <1>3, <1>4, <2>1 DEF CodeUnused
<1>6. CASE ExchangeRead(t)
  <2>1. /\ at[t] = "read" /\ at' = [at EXCEPT ![t] = "save"]
        /\ token' = [token EXCEPT ![t].identity = claims]
        /\ UNCHANGED <<rows, pushed, claims, clock, of, held, served>>
    BY <1>6 DEF ExchangeRead, Go
  <2>2. ExchangeOK(t) /\ BusyOK(t)
    BY <1>1 DEF IInv, HandlersOK, AllExchangeOK, AllBusyOK
  <2>3. claims \in Pushes
    BY <1>2, <2>1, <2>2 DEF ExchangeOK, Answering, TypeOK
  <2>4. token' \in [Exchanges -> Tokens]
    BY <1>2, <2>1, <2>3 DEF Identities
  <2>5. TypeOK'
    BY <1>2, <2>1, <2>4 DEF TypeOK
  <2>6. OthersKept(t)
    BY <1>2, <2>1 DEF OthersKept, TypeOK
  <2>7. Grown
    BY <1>1, <1>2, <2>1, <2>6, MovesGrow
  <2>8. RowsOK' /\ HeldOK'
    BY <1>2, <2>1, <2>7, RowKept DEF IInv, RowsOK, HeldOK, TypeOK, Row
  <2>9. /\ at'[t] = "save" /\ token'[t].via = token[t].via /\ token'[t].identity = claims
    BY <1>1, <1>2, <2>1 DEF TypeOK
  <2>10. token[t].via \in Exchanges => Granted(token[t].via)'
    BY <2>1, <2>2, <2>7 DEF ExchangeOK, Answering, Grown, Granted
  <2>11. ExchangeOK(t)'
    BY <2>1, <2>2, <2>3, <2>9, <2>10 DEF ExchangeOK, Answering, Granted, Names
  <2>12. HandlerOK(t)'
    BY <1>1, <2>1, <2>2, <2>9, <2>11 DEF HandlerOK, BusyOK, Busy
  <2> QED
    BY <1>1, <2>5, <2>6, <2>7, <2>8, <2>12, OthersOK DEF IInv
<1>7. CASE ExchangeSave(t)
  <2> DEFINE new == [held[t] EXCEPT !.status = "issued", !.refresh = t,
                        !.refreshExpires = RefreshUntil(t), !.expires = RetainUntil(t)]
  <2>1. /\ Save(t, new) /\ Go(t, "done") /\ at[t] = "save" /\ Busy(t)
        /\ token' = [token EXCEPT ![t].time = clock] /\ clock <= LastRequest
    BY <1>7 DEF ExchangeSave, Busy, Save
  <2>2. ExchangeOK(t) /\ held[t] \in Row /\ clock \in Nat
    BY <1>1, <1>2 DEF IInv, HandlersOK, AllExchangeOK, TypeOK
  <2>3. /\ token' \in [Exchanges -> Tokens]
        /\ \A u \in Exchanges \ {t} : token'[u] = token[u]
        /\ token'[t] = [token[t] EXCEPT !.time = clock] /\ token[t] \in Tokens
    BY <1>2, <2>1, <2>2
  <2>4. /\ RefreshUntil(t) \in Times /\ RetainUntil(t) \in Times
        /\ RetainUntil(t) >= RefreshUntil(t) /\ RetainUntil(t) >= clock + AccessLife
    <3>1. RefreshUntil(t) \in Times
      BY <2>1, <2>2, LifeTimes DEF RefreshUntil, Times, Larger, Row
    <3>2. clock + AccessLife \in Times
      BY <2>1, <2>2, LifeTimes DEF Times, Larger
    <3>3. held[t].expires \in Times
      BY <2>2 DEF Row
    <3>4. \A n \in Times : n \in Nat
      BY LifeTimes DEF Times, Larger
    <3> QED
      BY <3>1, <3>2, <3>3, <3>4 DEF RetainUntil, Larger
  <2>5. new \in Row
    BY <2>2, <2>4 DEF Row, Status
  <2>6. /\ new.refresh = t /\ new.refreshExpires = RefreshUntil(t)
        /\ new.expires = RetainUntil(t) /\ new.code = held[t].code
        /\ new.server = held[t].server /\ new.login = held[t].login
        /\ new.status = "issued" /\ new.stored = held[t].stored
    BY <2>2 DEF Row
  <2> HIDE DEF new
  <2>7. /\ Grown /\ RowOK(of[t], held[t], at', of', token', claims')
        /\ RowOK(of[t], held[t], at, of, token, claims)
        /\ at'[t] = "done" /\ of' = of /\ claims' = claims
        /\ HandlerOK(t)' /\ RowOK(of[t], new, at', of', token', claims') => IInv'
    BY <1>1, <2>1, <2>3, <2>5, SaveStep
  <2>8. /\ token'[t].via = token[t].via /\ token'[t].identity = token[t].identity
        /\ token'[t].time = clock
    BY <2>3
  <2>9. CodeRedeemed(of[t], new, at', of', token')
    <3>1. CASE token[t].via \in Exchanges
      <4>1. held[t].refresh # None
        BY <1>1, <2>1, <2>2, <3>1 DEF ExchangeOK, Answering
      <4>2. CodeRedeemed(of[t], held[t], at', of', token')
        BY <2>7, <4>1 DEF RowOK, Refreshable
      <4>3. new.refreshExpires = held[t].refreshExpires
        BY <2>6, <3>1 DEF RefreshUntil
      <4> QED
        BY <4>2, <4>3 DEF CodeRedeemed
    <3>2. CASE token[t].via \notin Exchanges
      <4>1. token[t].via \in Callbacks /\ new.refreshExpires = clock + RefreshLife
        BY <2>1, <2>2, <2>6, <3>2 DEF ExchangeOK, Answering, RefreshUntil
      <4> QED
        BY <2>7, <2>8, <4>1 DEF CodeRedeemed
    <3> QED
      BY <3>1, <3>2
  <2>10. held[t].code # None
    BY <1>1, <2>1, <2>2, <2>7 DEF ExchangeOK, Answering, RowOK, Refreshable
  <2>11. Refreshable(of[t], new, at', of', token')
    BY <2>1, <2>2, <2>4, <2>6, <2>7, <2>8, <2>9, <2>10 DEF Refreshable, ExchangeOK
  <2>12. RowOK(of[t], new, at', of', token', claims')
    BY <2>6, <2>7, <2>11 DEF RowOK
  <2>13. token[t].via \in Exchanges =>
            /\ Granted(token[t].via)' /\ token'[token[t].via] = token[token[t].via]
    BY <2>1, <2>2, <2>7 DEF ExchangeOK, Answering, Grown, Granted
  <2>14. Names(t)'
    BY <2>1, <2>2, <2>8, <2>13 DEF Names, ExchangeOK, Answering
  <2>15. ExchangeOK(t)'
    BY <2>1, <2>2, <2>7, <2>8, <2>13, <2>14 DEF ExchangeOK, Answering, Granted
  <2>16. HandlerOK(t)'
    BY <1>1, <2>7, <2>15 DEF HandlerOK, BusyOK, Busy
  <2> QED
    BY <2>7, <2>12, <2>16
<1> QED
  BY <1>5, <1>6, <1>7 DEF Exchange

LEMMA CredentialStep ==
    ASSUME IInv, NEW k \in Credentials, CredentialIdentity(k)
    PROVE  IInv'
<1>1. PICK t \in Exchanges, i \in Identities :
         served' = [served EXCEPT ![k] = <<t, IF i = None THEN token[t].identity ELSE i>>]
  <2>1. \A p \in pushed : rows[p].login \in Identities
    BY DEF IInv, TypeOK, Row, Identities
  <2>2. {rows[p].login : p \in {q \in pushed : rows[q].stored}} \subseteq Identities
    BY <2>1
  <2>3. (IF \A p \in pushed : ~rows[p].stored THEN {None} ELSE {}) \subseteq Identities
    BY DEF Identities
  <2> QED
    BY <2>2, <2>3 DEF CredentialIdentity
<1>2. served' \in [Credentials -> (Exchanges \cup {None}) \X Identities]
  BY <1>1 DEF IInv, TypeOK
<1>3. UNCHANGED <<rows, pushed, claims, clock, at, of, held, token>>
  BY DEF CredentialIdentity
<1>4. TypeOK'
  BY <1>2, <1>3 DEF IInv, TypeOK
<1> QED
  BY <1>3, <1>4 DEF IInv, RowsOK, HeldOK, HandlersOK, AllBusyOK, AllAuthorizeOK,
         AllCallbackOK, AllExchangeOK, BusyOK, Busy, AuthorizeOK, CallbackOK, ExchangeOK,
         Answering, Granted, Names

LEMMA CleanupStep == IInv /\ Cleanup => IInv'
<1> SUFFICES ASSUME IInv, Cleanup PROVE IInv'
  OBVIOUS
<1>1. /\ UNCHANGED <<pushed, claims, clock, at, of, held, token, served>>
      /\ \A p \in Pushes : rows'[p] = rows[p] \/ rows'[p] = NoRow
  BY DEF Cleanup
<1>2. TypeOK'
  BY NoRowIsRow DEF Cleanup, IInv, TypeOK
<1>3. RowsOK'
  BY <1>1, NoRowOK DEF IInv, RowsOK
<1> QED
  BY <1>1, <1>2, <1>3 DEF IInv, HeldOK, HandlersOK, AllBusyOK, AllAuthorizeOK,
         AllCallbackOK, AllExchangeOK, BusyOK, Busy, AuthorizeOK, CallbackOK, ExchangeOK,
         Answering, Granted, Names

LEMMA ClockStep == IInv /\ (Tick \/ UNCHANGED vars) => IInv'
<1> SUFFICES ASSUME IInv, Tick \/ UNCHANGED vars PROVE IInv'
  OBVIOUS
<1>1. UNCHANGED <<rows, pushed, claims, at, of, held, token, served>> /\ clock' \in Nat
  BY DEF Tick, vars, IInv, TypeOK
<1>2. TypeOK'
  BY <1>1 DEF IInv, TypeOK
<1> QED
  BY <1>1, <1>2 DEF IInv, RowsOK, HeldOK, HandlersOK, AllBusyOK, AllAuthorizeOK,
         AllCallbackOK, AllExchangeOK, BusyOK, Busy, AuthorizeOK, CallbackOK, ExchangeOK,
         Answering, Granted, Names

LEMMA NextIInv == IInv /\ [Next]_vars => IInv'
BY ParStep, ExpireStep, AuthorizeStep, CallbackStep, ExchangeStep, CredentialStep,
   CleanupStep, ClockStep DEF Next

\* What a handler may write back: every row, and every copy of one that a handler
\* holds, agrees with the responses that were given.
THEOREM Inductive == Spec => []IInv
<1>1. IInv /\ [Next]_vars => IInv'
  BY NextIInv
<1> QED
  BY <1>1, InitIInv, PTL DEF Spec
-----------------------------------------------------------------------------
\* Rows, copies, tokens and identities have their types, and no row is kept beyond
\* the longest lifetime counted from the last time that one is written.
THEOREM AuthorizationTypes == Spec => []TypeOK
<1>1. IInv => TypeOK
  BY DEF IInv
<1> QED
  BY <1>1, Inductive, PTL

\* However copies of a row are written back, the refresh token in it expires one
\* lifetime after the exchange of a code.
THEOREM OriginalExpiry == Spec => []RefreshNeverExtends
<1>1. ASSUME IInv PROVE RefreshNeverExtends
  BY <1>1 DEF IInv, RowsOK, RowOK, Refreshable, CodeRedeemed, RefreshNeverExtends, Granted
<1> QED
  BY <1>1, Inductive, PTL

\* A token of the chained server names the user of the login that gave its code.
THEOREM LoginOfTheToken == Spec => []TokenNamesItsLogin
<1>1. ASSUME IInv PROVE TokenNamesItsLogin
  BY <1>1 DEF IInv, HandlersOK, AllExchangeOK, ExchangeOK, Names, OfChained,
              TokenNamesItsLogin
<1> QED
  BY <1>1, Inductive, PTL

\* Only the cleanup removes rows.
LEMMA OnlyCleanupDeletes ==
    ASSUME IInv, [Next]_vars, NEW p \in Pushes, rows[p].stored, ~rows'[p].stored
    PROVE  Cleanup
<1> USE DEF IInv, TypeOK
<1>1. ASSUME NEW h \in Handlers, NEW row \in Row, Save(h, row), row.stored PROVE FALSE
  BY <1>1 DEF Save
<1>2. ASSUME NEW q \in Pushes, Par(q) PROVE FALSE
  <2>1. \A r \in Row, s \in {"chained", "oid4vp"}, n \in Nat :
           [r EXCEPT !.stored = TRUE, !.server = s, !.status = "authorize",
                     !.expires = n].stored = TRUE
    BY DEF Row
  <2> QED
    BY <1>2, <2>1, NoRowIsRow, LifeTimes DEF Par
<1>3. ASSUME NEW h \in Handlers, Expire(h) PROVE FALSE
  <2>1. held[h].stored /\ held[h] \in Row
    BY <1>3 DEF Expire, HandlersOK, AllBusyOK, BusyOK, Busy
  <2> QED
    BY <1>1, <1>3, <2>1 DEF Expire, Row, Status, Save
<1>4. ASSUME NEW h \in Handlers, AuthorizeSave(h) \/ CallbackSave(h) \/ ExchangeSave(h)
      PROVE  FALSE
  <2>1. held[h].stored /\ held[h] \in Row
    BY <1>4 DEF AuthorizeSave, CallbackSave, ExchangeSave, HandlersOK, AllBusyOK, BusyOK, Busy
  <2>2. CASE AuthorizeSave(h)
    BY <2>1, <2>2 DEF AuthorizeSave, Save, Row
  <2>3. CASE CallbackSave(h)
    BY <2>1, <2>3 DEF CallbackSave, Save, Row
  <2>4. CASE ExchangeSave(h)
    BY <2>1, <2>4 DEF ExchangeSave, Save, Row
  <2> QED
    BY <1>4, <2>2, <2>3, <2>4
<1>5. ASSUME UNCHANGED rows PROVE FALSE
  BY <1>5
<1> QED
  BY <1>2, <1>3, <1>4, <1>5
     DEF Next, Authorize, AuthorizeLoad, Callback, CallbackLoad, CallbackPublish, Exchange,
         ExchangeLoad, ExchangeRead, CredentialIdentity, Tick, Load, Handlers, vars

\* The cleanup waits for the tokens of the response that a row was last saved with.
THEOREM RowsOutliveTokens == Spec => KeptForItsTokens
<1>1. ASSUME IInv, [Next]_vars, NEW p \in Pushes, NEW t \in Exchanges,
             rows[p].stored, rows[p].refresh = t, ~rows'[p].stored
      PROVE  /\ clock > token[t].time + AccessLife
             /\ \E s \in Exchanges : /\ Granted(s) /\ of[s] = p
                                     /\ clock > token[s].time + RefreshLife
  <2>1. rows'[p] # rows[p] /\ Cleanup
    BY <1>1, OnlyCleanupDeletes
  <2>2. Forgettable(rows[p])
    BY <2>1 DEF Cleanup
  <2>3. rows[p].refresh # None /\ rows[p].expires < clock /\ rows[p].refreshExpires < clock
    BY <1>1, <2>2, DistinctHandlers DEF Forgettable, Handlers
  <2>4. Refreshable(p, rows[p], at, of, token)
    BY <1>1, <2>3 DEF IInv, RowsOK, RowOK
  <2>5. PICK s \in Exchanges : /\ Granted(s) /\ of[s] = p
                               /\ rows[p].refreshExpires = token[s].time + RefreshLife
    BY <2>4 DEF Refreshable, CodeRedeemed, Granted
  <2>6. /\ rows[p].expires \in Nat /\ clock \in Nat /\ token[t].time \in Nat
        /\ AccessLife \in Nat /\ rows[p].expires >= token[t].time + AccessLife
    <3>1. rows[p].expires \in Times
      BY <1>1 DEF IInv, TypeOK, Row
    <3> QED
      BY <1>1, <2>4, <3>1, LifeTimes DEF IInv, TypeOK, Refreshable, Times
  <2> QED
    BY <2>3, <2>5, <2>6
<1>2. IInv /\ [Next]_vars =>
        [\A p \in Pushes, t \in Exchanges :
           /\ rows[p].stored /\ rows[p].refresh = t /\ ~rows'[p].stored
           => /\ clock > token[t].time + AccessLife
              /\ \E s \in Exchanges : /\ Granted(s) /\ of[s] = p
                                      /\ clock > token[s].time + RefreshLife]_vars
  BY <1>1
<1> QED
  BY <1>2, Inductive, PTL DEF Spec, KeptForItsTokens
=============================================================================
