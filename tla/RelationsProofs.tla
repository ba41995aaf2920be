--------------------------- MODULE RelationsProofs ---------------------------
(***************************************************************************)
(* What Relations.tla checks of GetUserInfo on a small list, for every list *)
(* of contacts and every page size.                                         *)
(***************************************************************************)
EXTENDS Relations, FiniteSetTheorems, TLAPS

\* Nobody who has been in the list since the call began is behind the cursor
\* without having been seen: the reason why no change can hide him.
Cursor ==
    call = "paging" =>
        \A c \in stayed : c \in found \/ updatedAt[c] >= since

StillListed == stayed \subseteq Listed

Inv == TypeOK /\ Cursor /\ StillListed /\ FindsEveryone

\* A call starts with an empty result and no cursor.
LEMMA RelationsInit == Init => Inv
  BY PageSizeAssumption, TimeAssumption, ChangesAssumption
  DEF Init, Inv, TypeOK, Cursor, StillListed, FindsEveryone, Listed

\* The list may change under a call without breaking what it relies on.
LEMMA ChangeKeepsInv == ASSUME Inv, Change PROVE Inv'
<1> USE DEF Inv, listVars, callVars
<1>1. CASE Tick
  <2>1. TypeOK'
    BY <1>1, TimeAssumption DEF Tick, TypeOK
  <2>2. Cursor' /\ StillListed' /\ FindsEveryone'
    BY <1>1 DEF Tick, Cursor, StillListed, Listed, FindsEveryone
  <2> QED BY <2>1, <2>2
<1>2. ASSUME NEW c \in Contact, Update(c) PROVE Inv'
  <2>1. /\ changes' = changes + 1 /\ changes' \in 0..MaxChanges
        /\ updatedAt' = [updatedAt EXCEPT ![c] = clock]
        /\ UNCHANGED <<clock, call, since, found, stayed>>
    BY <1>2, ChangesAssumption DEF Update, TypeOK
  <2>2. TypeOK'
    BY <2>1, TimeAssumption, ChangesAssumption DEF TypeOK
  <2>3. Cursor'
    BY <2>1, TimeAssumption DEF Cursor, TypeOK
  <2>4. StillListed'
    BY <2>1, TimeAssumption DEF StillListed, Listed, TypeOK
  <2>5. FindsEveryone'
    BY <2>1 DEF FindsEveryone
  <2> QED BY <2>2, <2>3, <2>4, <2>5
<1>3. ASSUME NEW c \in Contact, Remove(c) PROVE Inv'
  <2>1. TypeOK'
    BY <1>3, TimeAssumption DEF Remove, TypeOK
  <2>2. Cursor' /\ StillListed'
    BY <1>3 DEF Remove, Cursor, StillListed, Listed, TypeOK
  <2>3. FindsEveryone'
    BY <1>3 DEF Remove, FindsEveryone
  <2> QED BY <2>1, <2>2, <2>3
<1> QED BY <1>1, <1>2, <1>3 DEF Change

\* A page adds its entries; past it the cursor leaves nobody behind, because a page
\* that is not the last one is full and holds the oldest entries.
LEMMA PageKeepsInv == ASSUME Inv, IndexRelations PROVE Inv'
<1> USE DEF Inv
<1>1. PICK page \in Pages : Append(page) /\ (NextPage(page) \/ LastPage(page))
  BY DEF IndexRelations
<1> DEFINE newer == {c \in Listed : updatedAt[c] >= since}
<1>2. /\ page \subseteq newer
      /\ page # newer => Cardinality(page) = PageSize
      /\ \A c \in page, d \in newer \ page : updatedAt[c] <= updatedAt[d]
  BY DEF Pages
<1>3. /\ call = "paging"
      /\ UNCHANGED <<clock, updatedAt, changes, stayed>>
  BY DEF IndexRelations, listVars
<1>4. found' = found \cup page
  BY <1>1 DEF Append
<1>5. page \subseteq Contact
  BY <1>2 DEF Listed
<1>6. StillListed'
  BY <1>3 DEF StillListed, Listed
<1>7. CASE NextPage(page)
  <2>1. PICK t \in 1..clock : LastUpdate(page, t) /\ since' = t
    BY <1>7 DEF NextPage
  <2>2. call' = "paging"
    BY <1>3, <1>7 DEF NextPage
  <2>3. TypeOK'
    BY <1>3, <1>4, <1>5, <2>1, <2>2, TimeAssumption DEF TypeOK
  <2>4. ASSUME NEW c \in stayed, c \notin found'
        PROVE  updatedAt[c] >= t
    <3>1. c \in newer \ page
      BY <1>3, <1>4, <2>4 DEF Cursor, StillListed
    <3>2. PICK d \in page : updatedAt[d] = t
      BY <2>1 DEF LastUpdate
    <3>3. updatedAt[d] <= updatedAt[c] /\ updatedAt[c] \in Nat /\ t \in Nat
      BY <1>2, <1>5, <3>1, TimeAssumption DEF TypeOK, Listed
    <3> QED BY <3>2, <3>3
  <2>5. Cursor'
    BY <1>3, <2>1, <2>4 DEF Cursor
  <2>6. FindsEveryone'
    BY <2>2 DEF FindsEveryone
  <2> QED BY <1>6, <2>3, <2>5, <2>6
<1>8. CASE LastPage(page)
  <2>1. call' = "done" /\ since' = since /\ ~More(page)
    BY <1>8 DEF LastPage
  <2>2. page = newer
    BY <1>2, <2>1, PageSizeAssumption DEF More
  <2>3. TypeOK'
    BY <1>3, <1>4, <1>5, <2>1 DEF TypeOK
  <2>4. FindsEveryone' /\ Cursor'
    BY <1>3, <1>4, <2>1, <2>2 DEF FindsEveryone, Cursor, StillListed
  <2> QED BY <1>6, <2>3, <2>4
<1> QED BY <1>1, <1>7, <1>8

\* So does every step.
LEMMA RelationsStep == Inv /\ [Next]_vars => Inv'
<1> SUFFICES ASSUME Inv, [Next]_vars PROVE Inv'
  OBVIOUS
<1> USE DEF Inv
<1>1. CASE Change
  BY <1>1, ChangeKeepsInv
<1>2. CASE GetUserInfo
  <2>1. TypeOK'
    BY <1>2 DEF GetUserInfo, TypeOK, Listed, listVars
  <2>2. Cursor' /\ StillListed' /\ FindsEveryone'
    BY <1>2, TimeAssumption
    DEF GetUserInfo, Cursor, StillListed, FindsEveryone, Listed, TypeOK, listVars
  <2> QED BY <2>1, <2>2
<1>3. CASE IndexRelations
  BY <1>3, PageKeepsInv
<1>4. CASE RequestFails
  BY <1>4 DEF RequestFails, TypeOK, Cursor, StillListed, Listed,
              FindsEveryone, listVars
<1>5. CASE UNCHANGED vars
  BY <1>5 DEF vars, listVars, callVars, TypeOK, Cursor, StillListed, Listed,
              FindsEveryone
<1> QED BY <1>1, <1>2, <1>3, <1>4, <1>5 DEF Next

\* The inductive invariant holds throughout, whoever edits the list meanwhile.
THEOREM RelationsInvariant == Safety => []Inv
  BY RelationsInit, RelationsStep, PTL DEF Safety

\* Every variable stays in its range, the cursor behind GroupMe's clock.
THEOREM RelationsTyped == Safety => []TypeOK
<1>1. Inv => TypeOK
  BY DEF Inv
<1> QED BY <1>1, RelationsInvariant, PTL

\* Whoever is in the list throughout a call is found by it.
THEOREM EveryoneFound == Safety => []FindsEveryone
<1>1. Inv => FindsEveryone
  BY DEF Inv
<1> QED BY <1>1, RelationsInvariant, PTL

\* Why the loop of IndexAllRelations ends: if no page can be filled by one second,
\* a request that is followed by another moves the cursor forward.
THEOREM CursorAdvances ==
    ASSUME Inv, Spread, IndexRelations, call' = "paging"
    PROVE  since' > since
<1>1. PICK page \in Pages : Append(page) /\ (NextPage(page) \/ LastPage(page))
  BY DEF IndexRelations
<1>2. NextPage(page)
  BY <1>1 DEF LastPage
<1>3. PICK t \in 1..clock : LastUpdate(page, t) /\ since' = t
  BY <1>2 DEF NextPage
<1>4. /\ page \subseteq Contact
      /\ \A c \in page : updatedAt[c] >= since /\ updatedAt[c] <= t
  BY <1>3 DEF Pages, Listed, LastUpdate
<1> DEFINE same == {c \in Contact : updatedAt[c] = t}
<1>5. /\ IsFiniteSet(same) /\ Cardinality(same) \in Nat
      /\ Cardinality(same) < PageSize
  <2>1. same \in SUBSET Contact
    OBVIOUS
  <2>2. IsFiniteSet(same)
    BY <2>1, ContactAssumption, FS_Subset
  <2> QED BY <2>2, FS_CardinalityType DEF Spread
<1>6. page \notin SUBSET same
  <2> SUFFICES ASSUME page \in SUBSET same PROVE FALSE
    OBVIOUS
  <2> HIDE DEF same
  <2>1. Cardinality(page) <= Cardinality(same) /\ IsFiniteSet(page)
    BY <1>5, FS_Subset
  <2>2. Cardinality(page) \in Nat
    BY <2>1, FS_CardinalityType
  <2>3. Cardinality(page) >= PageSize
    BY <1>2 DEF NextPage, More
  <2> QED BY <1>5, <2>1, <2>2, <2>3, PageSizeAssumption
<1>7. PICK c \in page : updatedAt[c] # t
  BY <1>4, <1>6
<1>8. updatedAt[c] \in Nat /\ since \in Nat /\ t \in Nat
  BY <1>4, <1>7, TimeAssumption DEF Inv, TypeOK
<1> QED BY <1>3, <1>4, <1>7, <1>8
=============================================================================
