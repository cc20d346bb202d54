------------------------- MODULE KeyRotationProofs -------------------------
(***************************************************************************)
(* One key chain, for every number of instances, calls, imports,           *)
(* deletions, enrolments and signers.                                      *)
(*                                                                         *)
(* The argument: a certificate is stored together with the key it          *)
(* certifies, unless it is the registrar's (Certified), also in the copies *)
(* handlers save or send.  A key that a regeneration has generated is      *)
(* named by nobody else until it is saved (UnsavedApart), so the key it    *)
(* replaces never becomes active again (ReplacedApart), and what else is   *)
(* destroyed is the key of a deletion that goes on or was interrupted.     *)
(***************************************************************************)
EXTENDS KeyRotation, TLAPS

Keys == Nat \cup {NoKey}
Certs == [key : Keys, by : Keys \cup {Registrar}]
Rows == [present : BOOLEAN, active : Keys, cert : Certs, root : Keys, previous : Keys,
         enabled : BOOLEAN, due : BOOLEAN]

Places == {"idle", "listed", "read", "generated", "saved", "dropped", "deleting",
           "requested", "done"}

Types ==
    /\ chain \in Rows
    /\ keys \in Nat
    /\ at \in [Handlers -> Places]
    /\ held \in [Handlers -> Rows]
    /\ old \in [Regenerations -> Keys]
    /\ dues \in Nat /\ failures \in Nat

\* Places that one kind of handler reaches.
Roles ==
    \A h \in Handlers :
        /\ at[h] \in {"generated", "saved", "dropped"} => h \in Regenerations
        /\ at[h] = "deleting" => h \in Deletions
        /\ at[h] = "requested" => h \in Enrolments

\* A key that is named has been generated.
KeysKnown ==
    /\ chain.active \in 1..keys \cup {NoKey}
    /\ \A h \in Handlers : held[h].active \in 1..keys \cup {NoKey}
    /\ \A r \in Regenerations : old[r] \in 1..keys \cup {NoKey}
    /\ destroyed \subseteq 1..keys

\* The certificate is for the active key, or the registrar's.
Certifies(row) == row.cert.key = row.active \/ row.cert.by = Registrar

Certified ==
    /\ Certifies(chain)
    /\ \A h \in Handlers :
          (h \in Signers /\ at[h] = "read") \/ at[h] = "generated" => Certifies(held[h])

\* Nobody else names, and nobody destroyed, the key of a chain not yet saved.
UnsavedApart ==
    \A r \in Regenerations : at[r] = "generated" =>
        /\ held[r].active \in Nat \ destroyed
        /\ held[r].active # chain.active
        /\ \A h \in Handlers \ {r} : held[h].active # held[r].active
        /\ \A q \in Regenerations : old[q] # held[r].active

ReplacedApart ==
    \A r \in Regenerations :
        at[r] \in {"saved", "dropped"} => old[r] = NoKey \/ old[r] # chain.active

KeysInv == Types /\ Roles /\ KeysKnown /\ UnsavedApart /\ ReplacedApart /\ ActiveKeyExists
CertInv == Types /\ Roles /\ Certified
-----------------------------------------------------------------------------
(***************************************************************************)
(* Rows.                                                                   *)
(***************************************************************************)
LEMMA NoChainType ==
    /\ NoChain \in Rows /\ NoChain.active = NoKey /\ ~NoChain.present
    /\ Certifies(NoChain)
BY DEF NoChain, NoCert, Rows, Certs, Keys, Certifies

\* What a handler keeps of a row it has loaded.
LEMMA KeptType ==
    ASSUME NEW k \in Keys
    PROVE  /\ [NoChain EXCEPT !.active = k] \in Rows
           /\ [NoChain EXCEPT !.active = k].active = k
BY DEF NoChain, NoCert, Rows, Certs, Keys

LEMMA KeptRootType ==
    ASSUME NEW k \in Keys, NEW root \in Keys
    PROVE  /\ [NoChain EXCEPT !.active = k, !.root = root] \in Rows
           /\ [NoChain EXCEPT !.active = k, !.root = root].active = k
BY DEF NoChain, NoCert, Rows, Certs, Keys

LEMMA KeptCertType ==
    ASSUME NEW k \in Keys, NEW cert \in Certs
    PROVE  /\ [NoChain EXCEPT !.active = k, !.cert = cert] \in Rows
           /\ [NoChain EXCEPT !.active = k, !.cert = cert].active = k
           /\ [NoChain EXCEPT !.active = k, !.cert = cert].cert = cert
BY DEF NoChain, NoCert, Rows, Certs, Keys

LEMMA NewChainType ==
    ASSUME NEW k \in Keys, NEW root \in Keys
    PROVE  /\ NewChain(k, root) \in Rows /\ NewChain(k, root).active = k
           /\ Certifies(NewChain(k, root))
BY DEF NewChain, NoChain, NoCert, Certificate, Rows, Certs, Keys, Certifies

LEMMA RotatedType ==
    ASSUME NEW c \in Rows, NEW loaded \in Rows, NEW k \in Keys
    PROVE  /\ Rotated(c, loaded, k) \in Rows /\ Rotated(c, loaded, k).active = k
           /\ Certifies(Rotated(c, loaded, k))
BY DEF Rotated, Certificate, Rows, Certs, Keys, Certifies

LEMMA RootKeyType == ASSUME NEW k \in Nat PROVE RootKey(k) \in Keys
BY DEF RootKey, Keys

LEMMA ActiveType == ASSUME NEW row \in Rows PROVE row.active \in Keys
BY DEF Rows

\* What the registrar, the operator and the clock change of a row.
LEMMA CertifiedType ==
    ASSUME NEW c \in Rows, NEW k \in Keys
    PROVE  /\ [c EXCEPT !.cert = [key |-> k, by |-> Registrar]] \in Rows
           /\ [c EXCEPT !.cert = [key |-> k, by |-> Registrar]].active = c.active
           /\ Certifies([c EXCEPT !.cert = [key |-> k, by |-> Registrar]])
BY DEF Rows, Certs, Certifies

LEMMA PolicyType ==
    ASSUME NEW c \in Rows
    PROVE  /\ [c EXCEPT !.enabled = ~c.enabled] \in Rows
           /\ [c EXCEPT !.enabled = ~c.enabled].active = c.active
           /\ [c EXCEPT !.enabled = ~c.enabled].cert = c.cert
           /\ [c EXCEPT !.due = TRUE] \in Rows
           /\ [c EXCEPT !.due = TRUE].active = c.active
           /\ [c EXCEPT !.due = TRUE].cert = c.cert
BY DEF Rows
-----------------------------------------------------------------------------
(***************************************************************************)
(* Types.                                                                  *)
(***************************************************************************)
LEMMA InitTypes == Init => Types /\ Roles
<1> SUFFICES ASSUME Init PROVE Types /\ Roles
  OBVIOUS
<1>1. chain \in Rows
  BY NewChainType, RootKeyType DEF Init, Keys
<1>2. held \in [Handlers -> Rows]
  BY NoChainType DEF Init
<1> QED
  BY <1>1, <1>2 DEF Init, Types, Roles, Places, Keys

\* A handler that ends, and where it may be afterwards.
LEMMA EndsType ==
    ASSUME Types, NEW h \in Handlers, Ends(h)
    PROVE  /\ at' \in [Handlers -> Places] /\ held' \in [Handlers -> Rows]
           /\ at'[h] \in {"idle", "done"} /\ held'[h] = NoChain
           /\ \A g \in Handlers \ {h} : at'[g] = at[g] /\ held'[g] = held[g]
BY NoChainType DEF Types, Ends, Goes, Keeps, Places

LEMMA MovesType ==
    ASSUME Types, NEW h \in Handlers, NEW place \in Places, Goes(h, place)
    PROVE  /\ at' \in [Handlers -> Places] /\ at'[h] = place
           /\ \A g \in Handlers \ {h} : at'[g] = at[g]
BY DEF Types, Goes

LEMMA KeepsType ==
    ASSUME Types, NEW h \in Handlers, NEW row \in Rows, Keeps(h, row)
    PROVE  /\ held' \in [Handlers -> Rows] /\ held'[h] = row
           /\ \A g \in Handlers \ {h} : held'[g] = held[g]
BY DEF Types, Keeps

LEMMA TypesStep == Types /\ [Next]_vars => Types'
<1> SUFFICES ASSUME Types, [Next]_vars PROVE Types'
  OBVIOUS
<1> USE DEF Types, Handlers, Rotators
<1>1. ASSUME NEW i \in Instances, JobList(i) PROVE Types'
  BY <1>1, MovesType DEF JobList, Places
<1>2. ASSUME NEW p \in Rotators, RotateRead(p) PROVE Types'
  <2>1. CASE /\ Goes(p, "read")
             /\ Keeps(p, [NoChain EXCEPT !.active = chain.active, !.root = chain.root])
    <3>1. [NoChain EXCEPT !.active = chain.active, !.root = chain.root] \in Rows
      BY KeptRootType DEF Rows
    <3> QED
      BY <1>2, <2>1, <3>1, MovesType, KeepsType DEF RotateRead, Places
  <2>2. CASE Ends(p)
    BY <1>2, <2>2, EndsType DEF RotateRead
  <2> QED
    BY <1>2, <2>1, <2>2 DEF RotateRead
<1>3. ASSUME NEW p \in Rotators, RotateWrite(p) PROVE Types'
  <2>1. Rotated(chain, held[p], keys + 1) \in Rows
    BY RotatedType DEF Keys
  <2> QED
    BY <1>3, <2>1, EndsType DEF RotateWrite
<1>4. ASSUME NEW r \in Regenerations, RegenerateStart(r) PROVE Types'
  <2>1. NewChain(keys + 2, RootKey(keys + 1)) \in Rows
    <3>1. keys + 2 \in Keys /\ RootKey(keys + 1) \in Keys
      BY RootKeyType DEF Keys
    <3> QED
      BY <3>1, NewChainType
  <2>2. chain.active \in Keys
    BY ActiveType
  <2> QED
    BY <1>4, <2>1, <2>2, MovesType, KeepsType DEF RegenerateStart, Places
<1>5. ASSUME NEW r \in Regenerations, RegenerateSave(r) PROVE Types'
  <2>1. [NoChain EXCEPT !.active = held[r].active] \in Rows
    BY KeptType, ActiveType
  <2> QED
    BY <1>5, <2>1, MovesType, KeepsType DEF RegenerateSave, Places
<1>6. ASSUME NEW r \in Regenerations, RegenerateDropTemporary(r) PROVE Types'
  BY <1>6, MovesType DEF RegenerateDropTemporary, Places
<1>7. ASSUME NEW r \in Regenerations, RegenerateUndo(r) \/ RegenerateClean(r) PROVE Types'
  BY <1>7, EndsType DEF RegenerateUndo, RegenerateClean, Forgets, Keys
<1>8. ASSUME NEW d \in Deletions, DeleteRead(d) PROVE Types'
  <2>1. CASE Goes(d, "read") /\ Keeps(d, [NoChain EXCEPT !.active = chain.active])
    BY <1>8, <2>1, KeptType, ActiveType, MovesType, KeepsType DEF DeleteRead, Places
  <2>2. CASE Ends(d)
    BY <1>8, <2>2, EndsType DEF DeleteRead
  <2> QED
    BY <1>8, <2>1, <2>2 DEF DeleteRead
<1>9. ASSUME NEW d \in Deletions, DeleteMaterial(d) PROVE Types'
  BY <1>9, MovesType DEF DeleteMaterial, Places
<1>10. ASSUME NEW d \in Deletions, DeleteRow(d) PROVE Types'
  BY <1>10, EndsType, NoChainType DEF DeleteRow
<1>11. ASSUME NEW e \in Enrolments, EnrolRequest(e) PROVE Types'
  BY <1>11, KeptType, ActiveType, MovesType, KeepsType DEF EnrolRequest, Places
<1>12. ASSUME NEW e \in Enrolments, EnrolStore(e) PROVE Types'
  <2>1. [chain EXCEPT !.cert = [key |-> held[e].active, by |-> Registrar]] \in Rows
    BY CertifiedType, ActiveType
  <2> QED
    BY <1>12, <2>1, EndsType DEF EnrolStore
<1>13. ASSUME NEW s \in Signers, SignRead(s) PROVE Types'
  <2>1. [NoChain EXCEPT !.active = chain.active, !.cert = chain.cert] \in Rows
    BY KeptCertType DEF Rows
  <2> QED
    BY <1>13, <2>1, MovesType, KeepsType DEF SignRead, Places
<1>14. ASSUME NEW s \in Signers, Sign(s) PROVE Types'
  BY <1>14, EndsType DEF Sign
<1>15. CASE UpdatePolicy \/ BecomeDue
  <2>1. chain' \in Rows
    BY <1>15, PolicyType DEF UpdatePolicy, BecomeDue
  <2> QED
    BY <1>15, <2>1 DEF UpdatePolicy, BecomeDue
<1>16. ASSUME NEW h \in Handlers, Fail(h) PROVE Types'
  <2>1. old' \in [Regenerations -> Keys]
    BY <1>16 DEF Fail, Keys
  <2> QED
    BY <1>16, <2>1, EndsType DEF Fail
<1>17. CASE UNCHANGED vars
  BY <1>17 DEF vars
<1> QED
  BY <1>1, <1>2, <1>3, <1>4, <1>5, <1>6, <1>7, <1>8, <1>9, <1>10, <1>11, <1>12, <1>13,
     <1>14, <1>15, <1>16, <1>17 DEF Next

LEMMA RolesStep == Types /\ Roles /\ [Next]_vars => Roles'
<1> SUFFICES ASSUME Types, Roles, [Next]_vars PROVE Roles'
  OBVIOUS
<1>a. ASSUME NEW h \in Handlers, \A g \in Handlers \ {h} : at'[g] = at[g],
             /\ at'[h] \in {"generated", "saved", "dropped"} => h \in Regenerations
             /\ at'[h] = "deleting" => h \in Deletions
             /\ at'[h] = "requested" => h \in Enrolments
      PROVE  Roles'
  BY <1>a DEF Roles
<1> USE DEF Handlers, Rotators
<1>1. ASSUME NEW h \in Handlers, Ends(h) PROVE Roles'
  BY <1>1, <1>a, EndsType
<1>2. ASSUME NEW h \in Handlers, Goes(h, "listed") \/ Goes(h, "read") PROVE Roles'
  BY <1>2, <1>a, MovesType DEF Places
<1>3. ASSUME NEW r \in Regenerations,
             Goes(r, "generated") \/ Goes(r, "saved") \/ Goes(r, "dropped")
      PROVE  Roles'
  BY <1>3, <1>a, MovesType DEF Places
<1>4. ASSUME NEW d \in Deletions, Goes(d, "deleting") PROVE Roles'
  BY <1>4, <1>a, MovesType DEF Places
<1>5. ASSUME NEW e \in Enrolments, Goes(e, "requested") PROVE Roles'
  BY <1>5, <1>a, MovesType DEF Places
<1>6. CASE UpdatePolicy \/ BecomeDue \/ UNCHANGED vars
  BY <1>6 DEF UpdatePolicy, BecomeDue, vars, Roles
<1>7. ASSUME NEW p \in Rotators, JobList(p) \/ RotateRead(p) \/ RotateWrite(p)
      PROVE  Roles'
  BY <1>1, <1>2, <1>7 DEF JobList, RotateRead, RotateWrite
<1>8. ASSUME NEW r \in Regenerations,
             \/ RegenerateStart(r) \/ RegenerateSave(r) \/ RegenerateDropTemporary(r)
             \/ RegenerateUndo(r) \/ RegenerateClean(r)
      PROVE  Roles'
  BY <1>1, <1>3, <1>8 DEF RegenerateStart, RegenerateSave, RegenerateDropTemporary,
                          RegenerateUndo, RegenerateClean
<1>9. ASSUME NEW d \in Deletions, DeleteRead(d) \/ DeleteMaterial(d) \/ DeleteRow(d)
      PROVE  Roles'
  BY <1>1, <1>2, <1>4, <1>9 DEF DeleteRead, DeleteMaterial, DeleteRow
<1>10. ASSUME NEW e \in Enrolments, EnrolRequest(e) \/ EnrolStore(e) PROVE Roles'
  BY <1>1, <1>5, <1>10 DEF EnrolRequest, EnrolStore
<1>11. ASSUME NEW s \in Signers, SignRead(s) \/ Sign(s) PROVE Roles'
  BY <1>1, <1>2, <1>11 DEF SignRead, Sign
<1>12. ASSUME NEW h \in Handlers, Fail(h) PROVE Roles'
  BY <1>1, <1>12 DEF Fail
<1> QED
  BY <1>6, <1>7, <1>8, <1>9, <1>10, <1>11, <1>12 DEF Next
-----------------------------------------------------------------------------
(***************************************************************************)
(* Certificates.                                                           *)
(***************************************************************************)
LEMMA CertifiedStep == CertInv /\ [Next]_vars => Certified'
<1> SUFFICES ASSUME CertInv, [Next]_vars PROVE Certified'
  OBVIOUS
<1> USE DEF CertInv, Handlers, Rotators
<1>a. ASSUME NEW h \in Handlers, Certifies(chain)',
             \A g \in Handlers \ {h} : at'[g] = at[g] /\ held'[g] = held[g],
             (h \in Signers /\ at'[h] = "read") \/ at'[h] = "generated"
                => Certifies(held[h])'
      PROVE  Certified'
  BY <1>a DEF Certified, Certifies
<1>b. Certifies(chain)
  BY DEF Certified
<1>c. ASSUME NEW h \in Handlers, Ends(h), Certifies(chain)' PROVE Certified'
  BY <1>a, <1>c, EndsType
<1>d. ASSUME NEW h \in Handlers, NEW place \in Places \ {"read", "generated"},
             Goes(h, place), UNCHANGED <<chain, held>>
      PROVE  Certified'
  BY <1>a, <1>b, <1>d, MovesType DEF Certifies
<1>1. ASSUME NEW p \in Rotators, JobList(p) PROVE Certified'
  BY <1>1, <1>d DEF JobList, Places
<1>2. ASSUME NEW p \in Rotators, RotateRead(p) PROVE Certified'
  <2>1. p \notin Signers
    BY NamesDiffer
  <2>2. CASE /\ Goes(p, "read")
             /\ Keeps(p, [NoChain EXCEPT !.active = chain.active, !.root = chain.root])
    <3>1. at'[p] = "read" /\ \A g \in Handlers \ {p} : at'[g] = at[g]
      BY <2>2, MovesType DEF Places
    <3>2. \A g \in Handlers \ {p} : held'[g] = held[g]
      BY <2>2 DEF Keeps, Types
    <3> QED
      BY <1>2, <1>a, <1>b, <2>1, <3>1, <3>2 DEF RotateRead, Certifies
  <2>3. CASE Ends(p)
    BY <1>2, <1>b, <1>c, <2>3 DEF RotateRead, Certifies
  <2> QED
    BY <1>2, <2>2, <2>3 DEF RotateRead
<1>3. ASSUME NEW p \in Rotators, RotateWrite(p) PROVE Certified'
  <2>1. Certifies(Rotated(chain, held[p], keys + 1))
    BY RotatedType DEF Types, Keys
  <2>2. Certifies(chain)'
    BY <1>3, <1>b, <2>1 DEF RotateWrite, Certifies
  <2> QED
    BY <1>3, <1>c, <2>2 DEF RotateWrite
<1>4. ASSUME NEW r \in Regenerations, RegenerateStart(r) PROVE Certified'
  <2>1. keys + 2 \in Keys /\ RootKey(keys + 1) \in Keys
    BY RootKeyType DEF Keys, Types
  <2>2. /\ NewChain(keys + 2, RootKey(keys + 1)) \in Rows
        /\ Certifies(NewChain(keys + 2, RootKey(keys + 1)))
    BY <2>1, NewChainType
  <2>3. /\ Certifies(held[r])'
        /\ \A g \in Handlers \ {r} : held'[g] = held[g]
    BY <1>4, <2>2, KeepsType DEF RegenerateStart, Certifies
  <2>4. \A g \in Handlers \ {r} : at'[g] = at[g]
    BY <1>4, MovesType DEF RegenerateStart, Places
  <2> QED
    BY <1>4, <1>a, <1>b, <2>3, <2>4 DEF RegenerateStart, Certifies
<1>5. ASSUME NEW r \in Regenerations, RegenerateSave(r) PROVE Certified'
  <2>1. Certifies(chain)'
    BY <1>5 DEF RegenerateSave, Certified, Certifies
  <2>2. at'[r] = "saved" /\ \A g \in Handlers \ {r} : at'[g] = at[g]
    BY <1>5, MovesType DEF RegenerateSave, Places
  <2>3. \A g \in Handlers \ {r} : held'[g] = held[g]
    BY <1>5 DEF RegenerateSave, Keeps, Types
  <2> QED
    BY <1>a, <2>1, <2>2, <2>3
<1>6. ASSUME NEW r \in Regenerations, RegenerateDropTemporary(r) PROVE Certified'
  BY <1>6, <1>d DEF RegenerateDropTemporary, Places
<1>7. ASSUME NEW r \in Regenerations, RegenerateUndo(r) \/ RegenerateClean(r)
      PROVE  Certified'
  BY <1>7, <1>b, <1>c DEF RegenerateUndo, RegenerateClean, Certifies
<1>8. ASSUME NEW d \in Deletions, DeleteRead(d) PROVE Certified'
  <2>1. d \notin Signers
    BY NamesDiffer
  <2>2. CASE Goes(d, "read") /\ Keeps(d, [NoChain EXCEPT !.active = chain.active])
    <3>1. at'[d] = "read" /\ \A g \in Handlers \ {d} : at'[g] = at[g]
      BY <2>2, MovesType DEF Places
    <3>2. \A g \in Handlers \ {d} : held'[g] = held[g]
      BY <2>2 DEF Keeps, Types
    <3> QED
      BY <1>8, <1>a, <1>b, <2>1, <3>1, <3>2 DEF DeleteRead, Certifies
  <2>3. CASE Ends(d)
    BY <1>8, <1>b, <1>c, <2>3 DEF DeleteRead, Certifies
  <2> QED
    BY <1>8, <2>2, <2>3 DEF DeleteRead
<1>9. ASSUME NEW d \in Deletions, DeleteMaterial(d) PROVE Certified'
  BY <1>9, <1>d DEF DeleteMaterial, Places
<1>10. ASSUME NEW d \in Deletions, DeleteRow(d) PROVE Certified'
  BY <1>10, <1>c, NoChainType DEF DeleteRow, Certifies
<1>11. ASSUME NEW e \in Enrolments, EnrolRequest(e) PROVE Certified'
  <2>1. at'[e] = "requested" /\ \A g \in Handlers \ {e} : at'[g] = at[g]
    BY <1>11, MovesType DEF EnrolRequest, Places
  <2>2. \A g \in Handlers \ {e} : held'[g] = held[g]
    BY <1>11 DEF EnrolRequest, Keeps, Types
  <2> QED
    BY <1>11, <1>a, <1>b, <2>1, <2>2 DEF EnrolRequest, Certifies
<1>12. ASSUME NEW e \in Enrolments, EnrolStore(e) PROVE Certified'
  <2>1. Certifies([chain EXCEPT !.cert = [key |-> held[e].active, by |-> Registrar]])
    BY CertifiedType, ActiveType DEF Types
  <2>2. Certifies(chain)'
    BY <1>12, <1>b, <2>1 DEF EnrolStore, Certifies
  <2> QED
    BY <1>12, <1>c, <2>2 DEF EnrolStore
<1>13. ASSUME NEW s \in Signers, SignRead(s) PROVE Certified'
  <2>1. at'[s] = "read" /\ \A g \in Handlers \ {s} : at'[g] = at[g]
    BY <1>13, MovesType DEF SignRead, Places
  <2>2. chain.active \in Keys /\ chain.cert \in Certs
    BY DEF Types, Rows
  <2>3. /\ [NoChain EXCEPT !.active = chain.active, !.cert = chain.cert] \in Rows
        /\ Certifies([NoChain EXCEPT !.active = chain.active, !.cert = chain.cert])
    BY <1>b, <2>2, KeptCertType DEF Certifies
  <2>4. Certifies(held[s])' /\ \A g \in Handlers \ {s} : held'[g] = held[g]
    BY <1>13, <2>3, KeepsType DEF SignRead, Certifies
  <2> QED
    BY <1>13, <1>a, <1>b, <2>1, <2>4 DEF SignRead, Certifies
<1>14. ASSUME NEW s \in Signers, Sign(s) PROVE Certified'
  BY <1>14, <1>b, <1>c DEF Sign, Certifies
<1>15. CASE UpdatePolicy \/ BecomeDue
  <2>1. chain'.active = chain.active /\ chain'.cert = chain.cert
    BY <1>15, PolicyType DEF UpdatePolicy, BecomeDue, Types
  <2> QED
    BY <1>15, <2>1 DEF UpdatePolicy, BecomeDue, Certified, Certifies
<1>16. ASSUME NEW h \in Handlers, Fail(h) PROVE Certified'
  BY <1>16, <1>b, <1>c DEF Fail, Certifies
<1>17. CASE UNCHANGED vars
  BY <1>17 DEF vars, Certified, Certifies
<1> QED
  BY <1>1, <1>2, <1>3, <1>4, <1>5, <1>6, <1>7, <1>8, <1>9, <1>10, <1>11, <1>12, <1>13,
     <1>14, <1>15, <1>16, <1>17 DEF Next
-----------------------------------------------------------------------------
(***************************************************************************)
(* Keys.                                                                   *)
(***************************************************************************)
\* The active key changes to none, a new one, or that of a chain a regeneration saves.
ActiveBecomes(h) ==
    \/ chain'.active \in {chain.active, NoKey}
    \/ keys' = keys + 1 /\ chain'.active = keys + 1
    \/ at[h] = "generated" /\ chain'.active = held[h].active

\* A handler h moves, other than to generate a chain, and has destroyed at most its
\* own key and replaced ones.
Moves(h) ==
    /\ \A g \in Handlers \ {h} : at'[g] = at[g] /\ held'[g] = held[g]
    /\ at'[h] # "generated"
    /\ at'[h] \in {"saved", "dropped"} =>
          at[h] = "saved" \/ (at[h] = "generated" /\ chain'.active = held[h].active)
    /\ ActiveBecomes(h)
    /\ held'[h].active \in {NoKey, chain.active, held[h].active}
    /\ \A q \in Regenerations : old'[q] \in {old[q], NoKey}
    /\ keys' \in {keys, keys + 1}
    /\ \A k \in destroyed' : \/ k \in destroyed
                             \/ k # NoKey /\ k = held[h].active
                             \/ k # NoKey /\ \E q \in Regenerations : k = old[q]

LEMMA MovesKeeps ==
    ASSUME KeysInv, NEW h \in Handlers, Moves(h)
    PROVE  KeysKnown' /\ UnsavedApart' /\ ReplacedApart'
<1> USE DEF KeysInv
<1>1. NoKey \notin Nat /\ keys \in Nat
  BY NamesDiffer DEF Types
<1>2. KeysKnown'
  <2>1. 1..keys \subseteq 1..keys'
    BY <1>1 DEF Moves
  <2>2. chain'.active \in 1..keys' \cup {NoKey}
    BY <1>1, <2>1 DEF Moves, ActiveBecomes, KeysKnown
  <2>3. \A g \in Handlers : held'[g].active \in 1..keys' \cup {NoKey}
    BY <2>1 DEF Moves, KeysKnown
  <2>4. \A r \in Regenerations : old'[r] \in 1..keys' \cup {NoKey}
    BY <2>1 DEF Moves, KeysKnown
  <2>5. destroyed' \subseteq 1..keys'
    BY <2>1 DEF Moves, KeysKnown
  <2> QED
    BY <2>2, <2>3, <2>4, <2>5 DEF KeysKnown
<1>3. UnsavedApart'
  <2> SUFFICES ASSUME NEW r \in Regenerations, at'[r] = "generated"
               PROVE  /\ held'[r].active \in Nat \ destroyed'
                      /\ held'[r].active # chain'.active
                      /\ \A g \in Handlers \ {r} : held'[g].active # held'[r].active
                      /\ \A q \in Regenerations : old'[q] # held'[r].active
    BY DEF UnsavedApart
  <2>1. r \in Handlers /\ r # h
    BY DEF Moves, Handlers
  <2>2. at[r] = "generated" /\ held'[r] = held[r]
    BY <2>1 DEF Moves
  <2>3. /\ held[r].active \in Nat \ destroyed /\ held[r].active # chain.active
        /\ held[r].active # NoKey /\ held[r].active # keys + 1
        /\ \A g \in Handlers \ {r} : held[g].active # held[r].active
        /\ \A q \in Regenerations : old[q] # held[r].active
    BY <1>1, <2>1, <2>2 DEF UnsavedApart, KeysKnown
  <2> QED
    BY <2>1, <2>2, <2>3 DEF Moves, ActiveBecomes
<1>4. ReplacedApart'
  <2> SUFFICES ASSUME NEW r \in Regenerations, at'[r] \in {"saved", "dropped"},
                      old'[r] # NoKey
               PROVE  old'[r] # chain'.active
    BY DEF ReplacedApart
  <2>1. old'[r] = old[r] /\ r \in Handlers /\ old[r] # keys + 1
    BY <1>1 DEF Moves, Handlers, KeysKnown
  <2>2. at[h] = "generated" => /\ h \in Regenerations /\ old[r] # held[h].active
    BY DEF UnsavedApart, Roles
  <2>3. CASE chain'.active = held[h].active /\ at[h] = "generated"
    BY <2>1, <2>2, <2>3
  <2>4. CASE ~(chain'.active = held[h].active /\ at[h] = "generated")
    <3>1. at[r] \in {"saved", "dropped"}
      BY <2>1, <2>4 DEF Moves
    <3>2. old[r] # chain.active
      BY <2>1, <3>1 DEF ReplacedApart
    <3> QED
      BY <2>1, <2>4, <3>2 DEF Moves, ActiveBecomes
  <2> QED
    BY <2>3, <2>4
<1> QED
  BY <1>2, <1>3, <1>4

\* A deletion that goes on stays where it is, or leaves its key to O.
LEMMA ActiveKept ==
    ASSUME KeysInv, NEW D, NEW O, Material(D, O), chain'.active = chain.active,
           chain.active \in D => chain.active \in O \/
               \E d \in Deletions : at'[d] = "deleting" /\ held'[d].active = chain.active,
           \A d \in Deletions : at[d] = "deleting" =>
               \/ at'[d] = "deleting" /\ held'[d].active = held[d].active
               \/ held[d].active \in O
    PROVE  ActiveKeyExists'
<1> SUFFICES ASSUME chain.active \in destroyed', chain.active \notin orphaned'
             PROVE  \E d \in Deletions : at'[d] = "deleting" /\ held'[d].active = chain.active
  BY DEF ActiveKeyExists
<1>1. chain.active \notin orphaned \cup O
  BY DEF Material
<1>2. CASE chain.active \in D
  BY <1>1, <1>2
<1>3. CASE chain.active \in destroyed
  BY <1>1, <1>3 DEF KeysInv, ActiveKeyExists
<1> QED
  BY <1>2, <1>3 DEF Material

LEMMA ActiveNew ==
    ASSUME Material({}, {}), chain'.active \notin destroyed PROVE ActiveKeyExists'
BY DEF Material, ActiveKeyExists

\* Nothing is destroyed, and no deletion moves.
LEMMA ActiveUntouched ==
    ASSUME KeysInv, chain'.active = chain.active, UNCHANGED <<destroyed, orphaned>>,
           \A d \in Deletions : at[d] = "deleting" =>
               at'[d] = "deleting" /\ held'[d].active = held[d].active
    PROVE  ActiveKeyExists'
BY DEF KeysInv, ActiveKeyExists

LEMMA StartKeeps ==
    ASSUME KeysInv, NEW r \in Regenerations, RegenerateStart(r)
    PROVE  KeysKnown' /\ UnsavedApart' /\ ReplacedApart' /\ ActiveKeyExists'
<1> USE DEF KeysInv
<1>1. NoKey \notin Nat /\ keys \in Nat /\ r \in Handlers
  BY NamesDiffer DEF Types, Handlers
<1>2. keys + 2 \in Keys /\ RootKey(keys + 1) \in Keys
  BY <1>1, RootKeyType DEF Keys
<1>3. /\ NewChain(keys + 2, RootKey(keys + 1)) \in Rows
      /\ NewChain(keys + 2, RootKey(keys + 1)).active = keys + 2
  BY <1>2, NewChainType
<1>4. /\ held'[r].active = keys + 2
      /\ \A g \in Handlers \ {r} : held'[g] = held[g]
  BY <1>1, <1>3, KeepsType DEF RegenerateStart
<1>5. at'[r] = "generated" /\ \A g \in Handlers \ {r} : at'[g] = at[g]
  BY <1>1, MovesType DEF RegenerateStart, Places
<1>6. /\ keys' = keys + 2 /\ UNCHANGED <<chain, destroyed, orphaned>>
      /\ old'[r] = chain.active /\ \A q \in Regenerations \ {r} : old'[q] = old[q]
  BY DEF RegenerateStart, Types
<1>7. KeysKnown'
  <2>1. 1..keys \subseteq 1..keys' /\ keys + 2 \in 1..keys'
    BY <1>1, <1>6
  <2> QED
    BY <1>4, <1>6, <2>1 DEF KeysKnown
<1>8. UnsavedApart'
  <2> SUFFICES ASSUME NEW s \in Regenerations, at'[s] = "generated"
               PROVE  /\ held'[s].active \in Nat \ destroyed'
                      /\ held'[s].active # chain'.active
                      /\ \A g \in Handlers \ {s} : held'[g].active # held'[s].active
                      /\ \A q \in Regenerations : old'[q] # held'[s].active
    BY DEF UnsavedApart
  <2>1. keys + 2 \in Nat /\ keys + 2 \notin 1..keys \cup {NoKey}
    BY <1>1
  <2>2. CASE s = r
    BY <1>4, <1>6, <2>1, <2>2 DEF KeysKnown
  <2>3. CASE s # r
    <3>1. s \in Handlers /\ at[s] = "generated" /\ held'[s] = held[s]
      BY <1>4, <1>5, <2>3 DEF Handlers
    <3>2. held[s].active # keys + 2
      BY <2>1, <3>1 DEF KeysKnown
    <3> QED
      BY <1>4, <1>6, <3>1, <3>2 DEF UnsavedApart
  <2> QED
    BY <2>2, <2>3
<1>9. ReplacedApart'
  BY <1>5, <1>6 DEF ReplacedApart, Handlers
<1>10. ActiveKeyExists'
  BY <1>4, <1>5, <1>6, ActiveUntouched, NamesDiffer DEF Handlers, Rotators
<1> QED
  BY <1>7, <1>8, <1>9, <1>10

\* A handler that ends, with nothing new destroyed but D, whose keys are its own.
LEMMA EndsMoves ==
    ASSUME KeysInv, NEW h \in Handlers, Ends(h), ActiveBecomes(h), NEW D, NEW O,
           Material(D, O), keys' \in {keys, keys + 1},
           \A q \in Regenerations : old'[q] \in {old[q], NoKey},
           \A k \in D : k = held[h].active \/ \E q \in Regenerations : k = old[q]
    PROVE  KeysKnown' /\ UnsavedApart' /\ ReplacedApart'
<1>1. /\ at'[h] \in {"idle", "done"} /\ held'[h].active = NoKey
      /\ \A g \in Handlers \ {h} : at'[g] = at[g] /\ held'[g] = held[g]
  BY EndsType, NoChainType DEF KeysInv
<1>2. \A k \in destroyed' : k \in destroyed \cup D /\ k # NoKey
  BY DEF Material, Named
<1>3. Moves(h)
  BY <1>1, <1>2 DEF Moves
<1> QED
  BY <1>3, MovesKeeps

KeysKept == KeysKnown' /\ UnsavedApart' /\ ReplacedApart' /\ ActiveKeyExists'

LEMMA RotationKeeps ==
    ASSUME KeysInv, NEW p \in Rotators, JobList(p) \/ RotateRead(p) \/ RotateWrite(p)
    PROVE  KeysKept
<1> USE DEF KeysInv, KeysKept
<1>1. p \in Handlers /\ p \notin Deletions
  BY NamesDiffer DEF Handlers
<1>2. NoKey \notin Nat /\ keys \in Nat
  BY NamesDiffer DEF Types
<1>3. CASE JobList(p)
  <2>1. at'[p] = "listed" /\ \A g \in Handlers \ {p} : at'[g] = at[g]
    BY <1>1, <1>3, MovesType DEF JobList, Places
  <2>2. Moves(p)
    BY <1>3, <2>1 DEF JobList, Moves, ActiveBecomes
  <2>3. ActiveKeyExists'
    BY <1>1, <1>3, <2>1, ActiveUntouched DEF JobList, Handlers
  <2> QED
    BY <1>1, <2>2, <2>3, MovesKeeps
<1>4. CASE RotateRead(p)
  <2>1. \/ at'[p] = "read" /\ held'[p].active = chain.active
        \/ at'[p] \in {"idle", "done"} /\ held'[p].active = NoKey
    <3>1. CASE /\ Goes(p, "read")
               /\ Keeps(p, [NoChain EXCEPT !.active = chain.active, !.root = chain.root])
      <4>1. chain.active \in Keys /\ chain.root \in Keys
        BY DEF Types, Rows
      <4>2. /\ [NoChain EXCEPT !.active = chain.active, !.root = chain.root] \in Rows
            /\ [NoChain EXCEPT !.active = chain.active, !.root = chain.root].active = chain.active
        BY <4>1, KeptRootType
      <4> QED
        BY <1>1, <3>1, <4>2, MovesType, KeepsType DEF Places
    <3>2. CASE Ends(p)
      BY <1>1, <3>2, EndsType, NoChainType
    <3> QED
      BY <1>4, <3>1, <3>2 DEF RotateRead
  <2>2. \A g \in Handlers \ {p} : at'[g] = at[g] /\ held'[g] = held[g]
    BY <1>4 DEF RotateRead, Goes, Keeps, Ends, Types
  <2>3. Moves(p)
    BY <1>4, <2>1, <2>2 DEF RotateRead, Moves, ActiveBecomes
  <2>4. ActiveKeyExists'
    BY <1>1, <1>4, <2>2, ActiveUntouched DEF RotateRead, Handlers
  <2> QED
    BY <1>1, <2>3, <2>4, MovesKeeps
<1>5. CASE RotateWrite(p)
  <2>1. Rotated(chain, held[p], keys + 1).active = keys + 1
    <3>1. chain \in Rows /\ held[p] \in Rows /\ keys + 1 \in Keys
      BY <1>1, <1>2 DEF Types, Keys
    <3> QED
      BY <3>1, RotatedType
  <2>2. chain'.active \in {chain.active, keys + 1} /\ keys' = keys + 1
    BY <1>5, <2>1 DEF RotateWrite
  <2>3. KeysKnown' /\ UnsavedApart' /\ ReplacedApart'
    BY <1>1, <1>5, <2>2, EndsMoves DEF RotateWrite, ActiveBecomes
  <2>4. ActiveKeyExists'
    <3>1. CASE chain'.active = keys + 1
      BY <1>2, <1>5, <3>1, ActiveNew DEF RotateWrite, KeysKnown
    <3>2. CASE chain'.active = chain.active
      <4>1. \A d \in Deletions : at'[d] = at[d] /\ held'[d] = held[d]
        BY <1>1, <1>5, EndsType DEF RotateWrite, Handlers
      <4> QED
        BY <1>5, <3>2, <4>1, ActiveKept DEF RotateWrite
    <3> QED
      BY <2>2, <3>1, <3>2
  <2> QED
    BY <2>3, <2>4
<1> QED
  BY <1>3, <1>4, <1>5

LEMMA RegenerationKeeps ==
    ASSUME KeysInv, NEW r \in Regenerations,
           RegenerateSave(r) \/ RegenerateDropTemporary(r) \/ RegenerateUndo(r)
               \/ RegenerateClean(r)
    PROVE  KeysKept
<1> USE DEF KeysInv, KeysKept
<1>1. r \in Handlers /\ r \notin Deletions
  BY NamesDiffer DEF Handlers, Rotators
<1>2. NoKey \notin Nat /\ keys \in Nat
  BY NamesDiffer DEF Types
<1>3. CASE RegenerateSave(r)
  <2>1. held'[r].active = held[r].active /\ at'[r] = "saved"
    <3>1. held[r].active \in Keys
      BY <1>1, ActiveType DEF Types
    <3>2. /\ [NoChain EXCEPT !.active = held[r].active] \in Rows
          /\ [NoChain EXCEPT !.active = held[r].active].active = held[r].active
      BY <3>1, KeptType
    <3> QED
      BY <1>1, <1>3, <3>2, MovesType, KeepsType DEF RegenerateSave, Places
  <2>2. \A g \in Handlers \ {r} : at'[g] = at[g] /\ held'[g] = held[g]
    BY <1>3 DEF RegenerateSave, Goes, Keeps, Types
  <2>3. \A k \in destroyed' : k \in destroyed
    BY <1>3 DEF RegenerateSave, Material
  <2>4. Moves(r)
    BY <1>3, <2>1, <2>2, <2>3 DEF RegenerateSave, Moves, ActiveBecomes
  <2>5. ActiveKeyExists'
    BY <1>3, ActiveNew DEF RegenerateSave, UnsavedApart
  <2> QED
    BY <1>1, <2>4, <2>5, MovesKeeps
<1>4. CASE RegenerateDropTemporary(r)
  <2>1. at'[r] = "dropped" /\ \A g \in Handlers \ {r} : at'[g] = at[g]
    BY <1>1, <1>4, MovesType DEF RegenerateDropTemporary, Places
  <2>2. Moves(r)
    BY <1>4, <2>1 DEF RegenerateDropTemporary, Moves, ActiveBecomes
  <2>3. ActiveKeyExists'
    BY <1>1, <1>4, <2>1, ActiveUntouched DEF RegenerateDropTemporary, Handlers
  <2> QED
    BY <1>1, <2>2, <2>3, MovesKeeps
<1>5. ASSUME RegenerateUndo(r) \/ RegenerateClean(r)
      PROVE  /\ Ends(r) /\ ActiveBecomes(r) /\ chain' = chain /\ keys' = keys
             /\ \A q \in Regenerations : old'[q] \in {old[q], NoKey}
             /\ \A d \in Deletions : at'[d] = at[d] /\ held'[d] = held[d]
  <2>1. Ends(r) /\ UNCHANGED <<chain, keys>> /\ Forgets(r)
    BY <1>5 DEF RegenerateUndo, RegenerateClean
  <2> QED
    BY <1>1, <2>1, EndsType DEF ActiveBecomes, Forgets, Types, Handlers
<1>6. CASE RegenerateUndo(r)
  <2>1. Material({held[r].active}, {held[r].active})
    BY <1>6 DEF RegenerateUndo
  <2>2. KeysKnown' /\ UnsavedApart' /\ ReplacedApart'
    BY <1>1, <1>5, <1>6, <2>1, EndsMoves
  <2>3. ActiveKeyExists'
    BY <1>5, <1>6, <2>1, ActiveKept
  <2> QED
    BY <2>2, <2>3
<1>7. CASE RegenerateClean(r)
  <2>1. Material({}, {}) \/ Material({old[r]}, {})
    BY <1>7 DEF RegenerateClean, Replaced
  <2>2. PICK D : Material(D, {}) /\ \A k \in D : k = old[r]
    BY <2>1
  <2>3. KeysKnown' /\ UnsavedApart' /\ ReplacedApart'
    BY <1>1, <1>5, <1>7, <2>2, EndsMoves
  <2>4. ActiveKeyExists'
    <3>1. CASE chain.active = NoKey
      <4>1. NoKey \notin destroyed'
        BY <2>2 DEF Material, Named
      <4> QED
        BY <1>5, <1>7, <3>1, <4>1 DEF ActiveKeyExists
    <3>2. CASE chain.active # NoKey
      <4>1. chain.active # old[r]
        BY <1>7, <3>2 DEF RegenerateClean, ReplacedApart
      <4> QED
        BY <1>5, <1>7, <2>2, <4>1, ActiveKept
    <3> QED
      BY <3>1, <3>2
  <2> QED
    BY <2>3, <2>4
<1> QED
  BY <1>3, <1>4, <1>6, <1>7

LEMMA DeletionKeeps ==
    ASSUME KeysInv, NEW d \in Deletions, DeleteRead(d) \/ DeleteMaterial(d) \/ DeleteRow(d)
    PROVE  KeysKept
<1> USE DEF KeysInv, KeysKept
<1>1. d \in Handlers
  BY DEF Handlers
<1>2. CASE DeleteRead(d)
  <2>1. \/ at'[d] = "read" /\ held'[d].active = chain.active
        \/ at'[d] \in {"idle", "done"} /\ held'[d].active = NoKey
    <3>1. CASE Goes(d, "read") /\ Keeps(d, [NoChain EXCEPT !.active = chain.active])
      <4>1. chain.active \in Keys
        BY ActiveType DEF Types
      <4>2. /\ [NoChain EXCEPT !.active = chain.active] \in Rows
            /\ [NoChain EXCEPT !.active = chain.active].active = chain.active
        BY <4>1, KeptType
      <4> QED
        BY <1>1, <3>1, <4>2, MovesType, KeepsType DEF Places
    <3>2. CASE Ends(d)
      BY <1>1, <3>2, EndsType, NoChainType
    <3> QED
      BY <1>2, <3>1, <3>2 DEF DeleteRead
  <2>2. \A g \in Handlers \ {d} : at'[g] = at[g] /\ held'[g] = held[g]
    BY <1>2 DEF DeleteRead, Goes, Keeps, Ends, Types
  <2>3. Moves(d)
    BY <1>2, <2>1, <2>2 DEF DeleteRead, Moves, ActiveBecomes
  <2>4. ActiveKeyExists'
    BY <1>1, <1>2, <2>2, ActiveUntouched DEF DeleteRead, Handlers
  <2> QED
    BY <1>1, <2>3, <2>4, MovesKeeps
<1>3. CASE DeleteMaterial(d)
  <2>1. at'[d] = "deleting" /\ \A g \in Handlers \ {d} : at'[g] = at[g]
    BY <1>1, <1>3, MovesType DEF DeleteMaterial, Places
  <2>2. Material({}, {}) \/ Material({held[d].active}, {})
    BY <1>3 DEF DeleteMaterial
  <2>3. PICK D : Material(D, {}) /\ \A k \in D : k = held[d].active
    BY <2>2
  <2>4. \A k \in destroyed' : k \in destroyed \cup D /\ k # NoKey
    BY <2>3 DEF Material, Named
  <2>5. Moves(d)
    BY <1>3, <2>1, <2>3, <2>4 DEF DeleteMaterial, Moves, ActiveBecomes
  <2>6. ActiveKeyExists'
    <3>1. chain' = chain /\ held' = held
      BY <1>3 DEF DeleteMaterial
    <3>2. \A e \in Deletions : at[e] = "deleting" => at'[e] = "deleting"
      BY <2>1 DEF Handlers
    <3> QED
      BY <2>1, <2>3, <3>1, <3>2, ActiveKept
  <2> QED
    BY <1>1, <2>5, <2>6, MovesKeeps
<1>4. CASE DeleteRow(d)
  <2>1. chain'.active = NoKey
    BY <1>4, NoChainType DEF DeleteRow
  <2>2. KeysKnown' /\ UnsavedApart' /\ ReplacedApart'
    BY <1>1, <1>4, <2>1, EndsMoves DEF DeleteRow, ActiveBecomes
  <2>3. ActiveKeyExists'
    BY <1>4, <2>1, NamesDiffer DEF DeleteRow, Material, Named, ActiveKeyExists
  <2> QED
    BY <2>2, <2>3
<1> QED
  BY <1>2, <1>3, <1>4

LEMMA EnrolmentKeeps ==
    ASSUME KeysInv, NEW e \in Enrolments, EnrolRequest(e) \/ EnrolStore(e)
    PROVE  KeysKept
<1> USE DEF KeysInv, KeysKept
<1>1. e \in Handlers /\ e \notin Deletions
  BY NamesDiffer DEF Handlers
<1>2. CASE EnrolRequest(e)
  <2>1. /\ [NoChain EXCEPT !.active = chain.active] \in Rows
        /\ [NoChain EXCEPT !.active = chain.active].active = chain.active
    <3>1. chain.active \in Keys
      BY ActiveType DEF Types
    <3> QED
      BY <3>1, KeptType
  <2>2. /\ at'[e] = "requested" /\ held'[e].active = chain.active
        /\ \A g \in Handlers \ {e} : at'[g] = at[g] /\ held'[g] = held[g]
    BY <1>1, <1>2, <2>1, MovesType, KeepsType DEF EnrolRequest, Places
  <2>3. Moves(e)
    BY <1>2, <2>2 DEF EnrolRequest, Moves, ActiveBecomes
  <2>4. ActiveKeyExists'
    BY <1>1, <1>2, <2>2, ActiveUntouched DEF EnrolRequest, Handlers
  <2> QED
    BY <1>1, <2>3, <2>4, MovesKeeps
<1>3. CASE EnrolStore(e)
  <2>1. chain'.active = chain.active
    <3>1. chain \in Rows /\ held[e].active \in Keys
      BY <1>1, ActiveType DEF Types
    <3>2. [chain EXCEPT !.cert = [key |-> held[e].active, by |-> Registrar]].active
             = chain.active
      BY <3>1, CertifiedType
    <3> QED
      BY <1>3, <3>2 DEF EnrolStore
  <2>2. KeysKnown' /\ UnsavedApart' /\ ReplacedApart'
    BY <1>1, <1>3, <2>1, EndsMoves DEF EnrolStore, ActiveBecomes
  <2>3. \A d \in Deletions : at'[d] = at[d] /\ held'[d] = held[d]
    BY <1>1, <1>3, EndsType DEF EnrolStore, Handlers
  <2>4. ActiveKeyExists'
    BY <1>3, <2>1, <2>3, ActiveKept DEF EnrolStore
  <2> QED
    BY <2>2, <2>4
<1> QED
  BY <1>2, <1>3

LEMMA SignerKeeps ==
    ASSUME KeysInv, NEW s \in Signers, SignRead(s) \/ Sign(s) PROVE KeysKept
<1> USE DEF KeysInv, KeysKept
<1>1. s \in Handlers /\ s \notin Deletions
  BY NamesDiffer DEF Handlers
<1>2. CASE SignRead(s)
  <2>1. /\ [NoChain EXCEPT !.active = chain.active, !.cert = chain.cert] \in Rows
        /\ [NoChain EXCEPT !.active = chain.active, !.cert = chain.cert].active = chain.active
    <3>1. chain.active \in Keys /\ chain.cert \in Certs
      BY DEF Types, Rows
    <3> QED
      BY <3>1, KeptCertType
  <2>2. /\ at'[s] = "read" /\ held'[s].active = chain.active
        /\ \A g \in Handlers \ {s} : at'[g] = at[g] /\ held'[g] = held[g]
    BY <1>1, <1>2, <2>1, MovesType, KeepsType DEF SignRead, Places
  <2>3. Moves(s)
    BY <1>2, <2>2 DEF SignRead, Moves, ActiveBecomes
  <2>4. ActiveKeyExists'
    BY <1>1, <1>2, <2>2, ActiveUntouched DEF SignRead, Handlers
  <2> QED
    BY <1>1, <2>3, <2>4, MovesKeeps
<1>3. CASE Sign(s)
  <2>1. KeysKnown' /\ UnsavedApart' /\ ReplacedApart'
    BY <1>1, <1>3, EndsMoves DEF Sign, ActiveBecomes
  <2>2. \A d \in Deletions : at'[d] = at[d] /\ held'[d] = held[d]
    BY <1>1, <1>3, EndsType DEF Sign, Handlers
  <2>3. ActiveKeyExists'
    BY <1>3, <2>2, ActiveKept DEF Sign
  <2> QED
    BY <2>1, <2>3
<1> QED
  BY <1>2, <1>3

LEMMA FailKeeps == ASSUME KeysInv, NEW h \in Handlers, Fail(h) PROVE KeysKept
<1> USE DEF KeysInv, KeysKept
<1>1. PICK O : /\ Material({}, O)
               /\ at[h] = "deleting" => held[h].active \in O
  BY DEF Fail
<1>2. /\ Ends(h) /\ chain' = chain /\ keys' = keys
      /\ \A q \in Regenerations : old'[q] \in {old[q], NoKey}
  BY DEF Fail
<1>3. KeysKnown' /\ UnsavedApart' /\ ReplacedApart'
  BY <1>1, <1>2, EndsMoves DEF ActiveBecomes
<1>4. \A d \in Deletions : d # h => at'[d] = at[d] /\ held'[d] = held[d]
  BY <1>2, EndsType DEF Handlers
<1>5. ActiveKeyExists'
  BY <1>1, <1>2, <1>4, ActiveKept
<1> QED
  BY <1>3, <1>5

LEMMA KeysStep == KeysInv /\ [Next]_vars => KeysInv'
<1> SUFFICES ASSUME KeysInv, [Next]_vars PROVE KeysKept
  BY TypesStep, RolesStep DEF KeysInv, KeysKept
<1>1. CASE UpdatePolicy \/ BecomeDue \/ UNCHANGED vars
  <2>1. /\ chain'.active = chain.active
        /\ UNCHANGED <<keys, destroyed, orphaned, at, held, old>>
    BY <1>1, PolicyType DEF UpdatePolicy, BecomeDue, vars, KeysInv, Types
  <2> QED
    BY <2>1 DEF KeysInv, KeysKept, KeysKnown, UnsavedApart, ReplacedApart, ActiveKeyExists
<1>2. ASSUME NEW i \in Instances, JobList(i) PROVE KeysKept
  BY <1>2, RotationKeeps DEF Rotators
<1> QED
  BY <1>1, <1>2, RotationKeeps, StartKeeps, RegenerationKeeps, DeletionKeeps, EnrolmentKeeps,
     SignerKeeps, FailKeeps DEF Next, KeysKept
-----------------------------------------------------------------------------
(***************************************************************************)
(* The theorems.                                                           *)
(***************************************************************************)
LEMMA InitInvs == Init => KeysInv /\ CertInv
<1> SUFFICES ASSUME Init PROVE KeysInv /\ CertInv
  OBVIOUS
<1>1. chain.active = 2 /\ Certifies(chain)
  BY NewChainType, RootKeyType DEF Init, Keys
<1>2. KeysKnown
  BY <1>1, NoChainType DEF Init, KeysKnown
<1>3. UnsavedApart /\ ReplacedApart /\ ActiveKeyExists
  BY DEF Init, UnsavedApart, ReplacedApart, ActiveKeyExists, Handlers
<1>4. Certified
  BY <1>1 DEF Init, Certified
<1> QED
  BY <1>2, <1>3, <1>4, InitTypes DEF KeysInv, CertInv

\* KeysInv and CertInv are invariants of the key chain.
THEOREM KeyChainInductive == Spec => [](KeysInv /\ CertInv)
<1>1. KeysInv /\ CertInv /\ [Next]_vars => KeysInv' /\ CertInv'
  BY KeysStep, TypesStep, RolesStep, CertifiedStep DEF CertInv
<1> QED
  BY InitInvs, <1>1, PTL DEF Spec

\* What is signed verifies under the certificate that is sent with it, unless the key
\* was replaced between the two loads of the signer or the registrar certified it.
THEOREM SignedVerifies == Spec => []SignaturesVerify
<1>1. CertInv => SignaturesVerify
  <2> SUFFICES ASSUME CertInv, NEW s \in Signers, Signs(s),
                      held[s].cert.by # Registrar, held[s].active = chain.active
               PROVE  held[s].cert.key = chain.active
    BY DEF SignaturesVerify
  <2>1. Certifies(held[s])
    BY DEF CertInv, Certified, Signs, Handlers
  <2> QED
    BY <2>1 DEF Certifies
<1> QED
  BY KeyChainInductive, <1>1, PTL

\* The material of the active key exists, but for deletions that go on or broke off.
THEOREM MaterialExists == Spec => []ActiveKeyExists
<1>1. KeysInv => ActiveKeyExists
  BY DEF KeysInv
<1> QED
  BY KeyChainInductive, <1>1, PTL
=============================================================================
