------------------------------ MODULE Relations ------------------------------
(***************************************************************************)
(* GetUserInfo of pkg/connector/client.go looks a contact up in the list    *)
(* that IndexAllRelations of pkg/groupmeclient/relations_api.go puts        *)
(* together page by page. GroupMe keeps the list sorted by updated_at, in   *)
(* whole seconds, and it changes while it is being read. A page holds the   *)
(* first entries updated at "since" or later; the next page starts at the   *)
(* updated_at of this one's last entry.                                     *)
(* One call at a time: all that a call keeps is local to it. Of an entry    *)
(* only its place in the list is kept; name and avatar are left out.        *)
(***************************************************************************)
EXTENDS Naturals, FiniteSets

CONSTANTS
    Contact,    \* the users that may be in the list
    PageSize,   \* the entries GroupMe puts on a page: 200
    MaxTime,    \* bound: GroupMe's clock
    MaxChanges  \* bound: entries added or changed

ASSUME ContactAssumption == IsFiniteSet(Contact)
ASSUME PageSizeAssumption == PageSize \in Nat \ {0}
ASSUME TimeAssumption == MaxTime \in Nat \ {0}
ASSUME ChangesAssumption == MaxChanges \in Nat

VARIABLES
    clock,      \* GroupMe's time, in seconds
    updatedAt,  \* updated_at of each entry, 0: not in the list
    changes,    \* entries added or changed so far
    call,       \* where the call is
    since,      \* relationsQuery.Since, 0: not given
    found,      \* the contacts in resp, each of whom GetUserInfo would find
    stayed      \* contacts in the list ever since the call began, history

listVars == <<clock, updatedAt, changes>>
callVars == <<call, since, found>>
vars == <<listVars, callVars, stayed>>

\* Every variable stays in its range; the cursor is never ahead of GroupMe's clock.
TypeOK ==
    /\ clock \in 1..MaxTime
    /\ updatedAt \in [Contact -> 0..clock]
    /\ changes \in 0..MaxChanges
    /\ call \in {"idle", "paging", "done", "failed"}
    /\ since \in 0..clock
    /\ found \subseteq Contact /\ stayed \subseteq Contact

Listed == {c \in Contact : updatedAt[c] # 0}

Init ==
    /\ clock \in 1..MaxTime /\ updatedAt \in [Contact -> 0..clock]
    /\ changes = 0
    /\ call = "idle" /\ since = 0 /\ found = {} /\ stayed = {}

-----------------------------------------------------------------------------
(* GroupMe's list                                                             *)

Tick ==
    /\ clock < MaxTime /\ clock' = clock + 1
    /\ UNCHANGED <<updatedAt, changes, callVars, stayed>>

\* A contact is added, or changes its name or avatar.
Update(c) ==
    /\ changes < MaxChanges /\ changes' = changes + 1
    /\ updatedAt' = [updatedAt EXCEPT ![c] = clock]
    /\ UNCHANGED <<clock, callVars, stayed>>

Remove(c) ==
    /\ c \in Listed
    /\ updatedAt' = [updatedAt EXCEPT ![c] = 0]
    /\ stayed' = stayed \ {c}
    /\ UNCHANGED <<clock, changes, callVars>>

\* What GroupMe may answer: entries of one second come in any order, so which of
\* them are on a page and which on the next is open.
Pages ==
    LET newer == {c \in Listed : updatedAt[c] >= since}
    IN {page \in SUBSET newer :
          /\ Cardinality(page) <= PageSize
          /\ page # newer => Cardinality(page) = PageSize
          /\ \A c \in page, d \in newer \ page : updatedAt[c] <= updatedAt[d]}

-----------------------------------------------------------------------------
(* GetUserInfo and IndexAllRelations                                          *)

GetUserInfo ==
    /\ call # "paging"
    /\ call' = "paging" /\ since' = 0 /\ found' = {}
    /\ stayed' = Listed
    /\ UNCHANGED listVars

\* resp = append(resp, page...): who changes during the call may be in it twice.
Append(page) == found' = found \cup page

LastUpdate(page, t) ==
    (\E c \in page : updatedAt[c] = t) /\ \A c \in page : updatedAt[c] <= t

\* Mutant: the list is taken to go on until a page comes back empty.
MoreUnlessEmpty(page) == page # {}

\* if len(currentPageRelations) < 200 { break }
More(page) == Cardinality(page) >= PageSize

\* Mutant: the next page starts a second after the last entry.
NextPageAfter(page) ==
    /\ More(page)
    /\ \E t \in 1..clock : LastUpdate(page, t) /\ since' = t + 1
    /\ UNCHANGED call

NextPage(page) ==
    /\ More(page)
    /\ \E t \in 1..clock : LastUpdate(page, t) /\ since' = t
    /\ UNCHANGED call

LastPage(page) ==
    /\ ~More(page)
    /\ call' = "done" /\ UNCHANGED since

IndexRelations ==
    /\ call = "paging"
    /\ \E page \in Pages :
         Append(page) /\ (NextPage(page) \/ LastPage(page))
    /\ UNCHANGED <<listVars, stayed>>

\* The request fails, or its answer is an error or does not decode: IndexAllRelations
\* returns what it has with the error, GetUserInfo the error alone.
RequestFails ==
    /\ call = "paging"
    /\ call' = "failed"
    /\ UNCHANGED <<listVars, since, found, stayed>>

-----------------------------------------------------------------------------
Change == Tick \/ \E c \in Contact : Update(c) \/ Remove(c)

Next == Change \/ GetUserInfo \/ IndexRelations \/ RequestFails

\* A request that does not fail is answered in the end.
Fairness == WF_vars(IndexRelations)

Safety == Init /\ [][Next]_vars

Spec == Safety /\ Fairness

-----------------------------------------------------------------------------
\* IndexAllRelations (line 51) lives up to its name although the list changes under
\* it: whoever is in the list from the call's beginning to its end is in the result,
\* so GetUserInfo's "unable to find user" (client.go:173) is never wrong about him.
FindsEveryone == call = "done" => stayed \subseteq found

\* The loop at line 54 has no counter. It ends as long as no page can be filled by
\* the entries of a single second, however the list changes.
Spread ==
    \A t \in 1..clock : Cardinality({c \in Contact : updatedAt[c] = t}) < PageSize

Ends == []Spread => (call = "paging" ~> call # "paging")
=============================================================================
