----------------------------- MODULE Pagination -----------------------------
(***************************************************************************)
(* Paged lists: the operations of tac-operation-lifecycle (database.rs)    *)
(* and the lists of user-ops-indexer (repository/*.rs).  A client follows  *)
(* the token of each page to the end while the indexer goes on writing.    *)
(* Each page is a query of its own: rows are inserted, re-orged away, and  *)
(* move in the order (a count grows, a row is overwritten) between pages.  *)
(***************************************************************************)
EXTENDS Integers, FiniteSets

CONSTANTS
    Rows,        \* rows that may be in the table; as hashes or addresses they are ordered numbers
    Keys,        \* timestamps, block numbers or counts
    Lists,       \* the lists to consider
    PageSize,    \* PAGE_SIZE, or the page size asked for (1 at least: normalize_page_size)
    MaxChanges   \* bound: writes by the indexer

AllLists ==
    {"operations",   \* get_operations and the searches: by timestamp, continues below the last one
     "keyed",        \* list_user_ops, list_bundles, list_factories, list_paymasters: by (key, row)
     "accounts",     \* list_accounts: by address, upwards
     "bundlers"}     \* list_bundlers: sorted by one count, continued by another

ASSUME ConstantsAssumption ==
    /\ Rows \subseteq Nat /\ Keys \subseteq Nat
    /\ Lists \subseteq AllLists
    /\ PageSize \in Nat \ {0} /\ MaxChanges \in Nat

VARIABLES
    list,      \* the list the client reads
    table,     \* rows that are in the table, in a block of consensus
    sort,      \* sort[r]: what the list is sorted by first
    count,     \* count[r]: the count a bundler's page token holds (total_ops)
    token,     \* page_token of the next request
    walk,      \* "new", "reading" or "done"
    seen,      \* rows the client was shown
    twice,     \* rows it was shown more than once
    stayed,    \* history: rows that were there from the first request on and did not change
    tied,      \* history: rows that shared their timestamp with another one
    crossed,   \* history: the two orders of bundlers disagreed
    changes    \* writes so far

vars == <<list, table, sort, count, token, walk, seen, twice, stayed, tied, crossed, changes>>

Token   == [key : Keys, row : Rows]
NoToken == [key |-> -1, row |-> -1]

TypeOK ==
    /\ list \in Lists
    /\ table \subseteq Rows /\ sort \in [Rows -> Keys] /\ count \in [Rows -> Keys]
    /\ token \in Token \cup {NoToken} /\ walk \in {"new", "reading", "done"}
    /\ seen \subseteq Rows /\ twice \subseteq seen
    /\ stayed \subseteq table /\ tied \subseteq Rows /\ crossed \in BOOLEAN
    /\ changes \in 0..MaxChanges

-----------------------------------------------------------------------------
(* The order of (key, row) pairs in the database. *)
Less(k, r, l, s) == k < l \/ (k = l /\ r < s)

(* r comes before s in the list: ORDER BY. *)
Before(r, s) ==
    CASE list = "operations" -> sort[s] < sort[r]
      [] list = "accounts"   -> r < s
      [] OTHER               -> Less(sort[s], s, sort[r], r)

(* The WHERE or HAVING of each query: r is not before the token. *)
OperationsFrom(r) == sort[r] < token.key
AccountsFrom(r)   == r >= token.row
BundlersFrom(r)   == ~Less(token.key, token.row, count[r], r)
KeyedFrom(r)      == ~Less(token.key, token.row, sort[r], r)

Defect_KeyOnly(r)   == sort[r] < token.key
Defect_Inclusive(r) == sort[r] <= token.key

FromToken(r) ==
    CASE list = "operations" -> OperationsFrom(r)
      [] list = "accounts"   -> AccountsFrom(r)
      [] list = "bundlers"   -> BundlersFrom(r)
      [] OTHER               -> KeyedFrom(r)

Candidates == {r \in table : token = NoToken \/ FromToken(r)}

(* S is a beginning of the sorted candidates (ties in any order). *)
Leads(S) == \A r \in S : \A s \in Candidates \ S : ~Before(s, r)

(* The page, and the row after it: LIMIT page_size + 1.  The query for the  *)
(* accounts joins the limited rows again and does not sort the result, so   *)
(* any of them may be the last one.                                         *)
Answer(page, next) ==
    /\ page \subseteq Candidates /\ Cardinality(page) = PageSize
    /\ next \in Candidates \ page
    /\ Leads(page \cup {next})
    /\ list # "accounts" => Leads(page)

(* calculate_pagination takes the last row of the page, the other lists the *)
(* row after it.                                                            *)
NextToken(page, next) ==
    CASE list = "operations" ->
             LET last == CHOOSE r \in page : \A s \in page : sort[r] <= sort[s]
             IN  [key |-> sort[last], row |-> last]
      [] list = "bundlers"   -> [key |-> count[next], row |-> next]
      [] OTHER               -> [key |-> sort[next], row |-> next]

-----------------------------------------------------------------------------
Tied(t, k)       == {r \in t : \E s \in t \ {r} : k[r] = k[s]}
Crossed(t, k, n) == \E r, s \in t : Less(k[r], r, k[s], s) /\ Less(n[s], s, n[r], r)

Init ==
    /\ list \in Lists
    /\ table \in SUBSET Rows
    /\ sort \in [Rows -> Keys] /\ count \in [Rows -> Keys] /\ (list # "bundlers" => count = sort)
    /\ token = NoToken /\ walk = "new"
    /\ seen = {} /\ twice = {}
    /\ stayed = table /\ tied = Tied(table, sort) /\ crossed = Crossed(table, sort, count)
    /\ changes = 0

Show(S) ==
    /\ seen' = seen \cup S
    /\ twice' = twice \cup (seen \cap S)

NextPage ==
    /\ walk # "done" /\ Cardinality(Candidates) > PageSize
    /\ \E page \in SUBSET Candidates : \E next \in Candidates \ page :
         /\ Answer(page, next)
         /\ Show(page)
         /\ token' = NextToken(page, next)
    /\ walk' = "reading"
    /\ UNCHANGED <<list, table, sort, count, stayed, tied, crossed, changes>>

LastPage ==
    /\ walk # "done" /\ Cardinality(Candidates) <= PageSize
    /\ Show(Candidates)
    /\ walk' = "done"
    /\ UNCHANGED <<list, table, sort, count, token, stayed, tied, crossed, changes>>

(* The indexer inserts, overwrites or recounts a row, or a re-org takes it  *)
(* out.                                                                     *)
Change(r) ==
    /\ walk # "done" /\ changes < MaxChanges
    /\ changes' = changes + 1
    /\ \/ \E k, n \in Keys :
            /\ list # "bundlers" => n = k
            /\ table' = table \cup {r}
            /\ sort' = [sort EXCEPT ![r] = k]
            /\ count' = [count EXCEPT ![r] = n]
       \/ table' = table \ {r} /\ UNCHANGED <<sort, count>>
    /\ stayed' = IF walk = "new" THEN table' ELSE stayed \ {r}
    /\ tied' = Tied(table', sort') \cup IF walk = "new" THEN {} ELSE tied
    /\ crossed' = (Crossed(table', sort', count') \/ (walk # "new" /\ crossed))
    /\ UNCHANGED <<list, token, walk, seen, twice>>

Next == NextPage \/ LastPage \/ \E r \in Rows : Change(r)

Spec     == Init /\ [][Next]_vars
FairSpec == Spec /\ WF_vars(NextPage \/ LastPage)

-----------------------------------------------------------------------------
(* Rows the list can be relied on for: that stayed as they were; in the     *)
(* list of operations, whose timestamps were their own; in the list of      *)
(* bundlers, as long as the number of bundles and of operations order them  *)
(* the same way.                                                            *)
Reliable == {r \in stayed : list = "operations" => r \notin tied}
Orderly  == list = "bundlers" => ~crossed

(* A client who follows the tokens to the end is shown every reliable row,  *)
(* and never one twice (accounts may be: their pages come unsorted),        *)
(* whatever is written between the pages.                                   *)
EachRowOnce ==
    Orderly =>
        /\ walk = "done" => Reliable \subseteq seen
        /\ list # "accounts" => Reliable \cap twice = {}

-----------------------------------------------------------------------------
(* The client gets to the end: tokens do not lead in a circle.              *)
WalkEnds ==
    <>(walk = "done" \/ list = "accounts" \/ ~Orderly)
=============================================================================
