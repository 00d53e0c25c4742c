-------------------------- MODULE PaginationProofs --------------------------
(***************************************************************************)
(* A client who follows the page tokens is shown every row that can be     *)
(* relied on, and none twice, for any table, page size and writes.         *)
(***************************************************************************)
EXTENDS Pagination, FiniteSetTheorems, WellFoundedInduction, TLAPS

(* What the token promises while the client reads: it stands between the    *)
(* reliable rows that were shown and those that were not.                   *)
Between ==
    walk = "reading" =>
        \A r \in Reliable :
            /\ r \notin seen => FromToken(r)
            /\ list # "accounts" => (r \in seen => ~FromToken(r))

(* The history variables say what they are meant to. *)
Histories ==
    /\ Tied(table, sort) \subseteq tied
    /\ Crossed(table, sort, count) => crossed
    /\ walk = "new" => token = NoToken /\ seen = {} /\ twice = {}
    /\ walk = "reading" => token \in Token

IInv == TypeOK /\ Histories /\ (Orderly => Between) /\ EachRowOnce

USE ConstantsAssumption DEF AllLists

-----------------------------------------------------------------------------
(* Among the rows of a page there is one of the least key. *)
LEMMA LeastExists ==
    ASSUME NEW S \in SUBSET Rows, S # {}, NEW k \in [Rows -> Keys]
    PROVE  \E r \in S : \A s \in S : k[r] <= k[s]
<1> DEFINE T == {k[r] : r \in S}
<1>1. T \in SUBSET Nat /\ T # {}
  OBVIOUS
<1>2. IsWellFoundedOn(OpToRel(<, Nat), Nat)
  BY NatLessThanWellFounded
<1>3. PICK x \in T : \A y \in T : ~(<<y, x>> \in OpToRel(<, Nat))
  <2> HIDE DEF T
  <2> QED BY <1>1, <1>2, WFMin
<1>4. \A y \in T : ~(y < x)
  BY <1>1, <1>3 DEF OpToRel
<1>5. PICK r \in S : x = k[r]
  BY <1>3
<1>6. \A s \in S : k[r] <= k[s]
  <2> TAKE s \in S
  <2>1. k[s] \in T /\ k[s] \in Nat /\ k[r] \in Nat
    OBVIOUS
  <2> QED BY <1>4, <1>5, <2>1
<1> QED BY <1>6

LEMMA PageNotEmpty ==
    ASSUME NEW page, Cardinality(page) = PageSize
    PROVE  page # {}
BY FS_EmptySet

(* The last row of a page of operations. *)
LEMMA LastOfPage ==
    ASSUME TypeOK, list = "operations", NEW page \in SUBSET Rows, page # {}, NEW next
    PROVE  \E last \in page :
              /\ NextToken(page, next) = [key |-> sort[last], row |-> last]
              /\ \A s \in page : sort[last] <= sort[s]
<1> DEFINE last == CHOOSE r \in page : \A s \in page : sort[r] <= sort[s]
<1>1. \E r \in page : \A s \in page : sort[r] <= sort[s]
  BY LeastExists DEF TypeOK
<1>2. last \in page /\ \A s \in page : sort[last] <= sort[s]
  BY <1>1
<1>3. NextToken(page, next) = [key |-> sort[last], row |-> last]
  BY DEF NextToken
<1> HIDE DEF last
<1> QED BY <1>2, <1>3

(* As long as the two orders of the bundlers do not disagree they agree. *)
LEMMA OrdersAgree ==
    ASSUME TypeOK, ~Crossed(table, sort, count), NEW r \in table, NEW s \in table, r # s
    PROVE  Less(sort[r], r, sort[s], s) <=> Less(count[r], r, count[s], s)
<1>1. ~(Less(sort[r], r, sort[s], s) /\ Less(count[s], s, count[r], r))
  BY DEF Crossed
<1>2. ~(Less(sort[s], s, sort[r], r) /\ Less(count[r], r, count[s], s))
  BY DEF Crossed
<1>3. /\ r \in Nat /\ s \in Nat /\ sort[r] \in Nat /\ sort[s] \in Nat
      /\ count[r] \in Nat /\ count[s] \in Nat
  BY DEF TypeOK
<1> QED BY <1>1, <1>2, <1>3 DEF Less

-----------------------------------------------------------------------------
LEMMA InitIInv == Init => IInv
<1> SUFFICES ASSUME Init PROVE IInv
  OBVIOUS
<1>1. TypeOK
  <2>1. crossed \in BOOLEAN
    BY Zenon DEF Init, Crossed
  <2>2. tied \subseteq Rows
    BY DEF Init, Tied
  <2> QED BY <2>1, <2>2 DEF Init, TypeOK
<1>2. Histories
  BY DEF Init, Histories
<1>3. Between /\ EachRowOnce
  BY DEF Init, Between, EachRowOnce, Reliable
<1> QED BY <1>1, <1>2, <1>3 DEF IInv

(* A page leaves the token between what is shown and what is not. *)
LEMMA NextPageIInv == IInv /\ NextPage => IInv'
<1> SUFFICES ASSUME IInv, NextPage PROVE IInv'
  OBVIOUS
<1> USE DEF IInv
<1>1. PICK page \in SUBSET Candidates : \E next \in Candidates \ page :
          /\ Answer(page, next)
          /\ Show(page)
          /\ token' = NextToken(page, next)
  BY DEF NextPage
<1>2. PICK next \in Candidates \ page :
          /\ Answer(page, next)
          /\ Show(page)
          /\ token' = NextToken(page, next)
  BY <1>1
<1>3. /\ walk' = "reading" /\ walk # "done"
      /\ UNCHANGED <<list, table, sort, count, stayed, tied, crossed, changes>>
  BY DEF NextPage
<1>4. Candidates \subseteq table /\ Candidates \subseteq Rows
  BY DEF Candidates, TypeOK
<1>5. page # {}
  BY <1>2, PageNotEmpty DEF Answer
<1>6. token' \in Token
  <2>1. CASE list = "operations"
    <3>1. PICK last \in page : NextToken(page, next) = [key |-> sort[last], row |-> last]
      BY <1>4, <1>5, <2>1, LastOfPage
    <3> QED BY <1>2, <1>4, <3>1 DEF TypeOK, Token
  <2>2. CASE list # "operations"
    BY <1>2, <1>4, <2>2 DEF TypeOK, Token, NextToken
  <2> QED BY <2>1, <2>2
<1>7. seen' = seen \cup page /\ twice' = twice \cup (seen \cap page)
  BY <1>2 DEF Show
<1>8. TypeOK'
  BY <1>3, <1>4, <1>6, <1>7 DEF TypeOK
<1>9. Histories'
  BY <1>3, <1>6 DEF Histories, Tied, Crossed
<1>10. Orderly' = Orderly /\ Reliable' = Reliable
  BY <1>3 DEF Orderly, Reliable
<1>11. ASSUME Orderly, NEW r \in Reliable
       PROVE  /\ r \notin seen => r \in Candidates
              /\ list # "accounts" => (r \in seen => r \notin Candidates)
  BY <1>3, <1>11 DEF Between, Histories, Candidates, Reliable, TypeOK, Token, NoToken
<1>12. ASSUME Orderly, NEW r \in Reliable, r \in Candidates \ page
       PROVE  FromToken(r)'
  <2>1. r \in table /\ r \in Rows /\ next \in table /\ next \in Rows
    BY <1>2, <1>4, <1>12
  <2>2. \A s \in page \cup {next} : r = next \/ ~Before(r, s)
    BY <1>2, <1>12 DEF Answer, Leads
  <2>3. CASE list = "operations"
    <3>1. PICK last \in page : NextToken(page, next) = [key |-> sort[last], row |-> last]
      BY <1>4, <1>5, <2>3, LastOfPage
    <3>2. ~Before(r, last)
      BY <1>2, <1>12, <2>3 DEF Answer, Leads
    <3>3. sort[r] # sort[last]
      BY <1>4, <1>12, <2>1, <2>3 DEF Reliable, Histories, Tied
    <3> QED BY <1>2, <1>3, <1>4, <2>1, <2>3, <3>1, <3>2, <3>3
       DEF Before, FromToken, OperationsFrom, AccountsFrom, BundlersFrom, KeyedFrom, TypeOK
  <2>4. CASE list = "accounts"
    BY <1>2, <1>3, <2>1, <2>2, <2>4
       DEF Before, FromToken, OperationsFrom, AccountsFrom, BundlersFrom, KeyedFrom, NextToken, TypeOK
  <2>5. CASE list = "keyed"
    BY <1>2, <1>3, <2>1, <2>2, <2>5
       DEF Before, FromToken, OperationsFrom, AccountsFrom, BundlersFrom, KeyedFrom, NextToken, Less, TypeOK
  <2>6. CASE list = "bundlers"
    <3>1. ~Crossed(table, sort, count)
      BY <1>12, <2>6 DEF Orderly, Histories
    <3>2. r = next \/ ~Less(sort[next], next, sort[r], r)
      BY <2>2, <2>6 DEF Before
    <3>3. r = next \/ ~Less(count[next], next, count[r], r)
      BY <2>1, <3>1, <3>2, OrdersAgree
    <3> QED BY <1>2, <1>3, <2>1, <2>6, <3>3
       DEF FromToken, OperationsFrom, AccountsFrom, BundlersFrom, KeyedFrom, NextToken, Less, TypeOK
  <2> QED BY <2>3, <2>4, <2>5, <2>6 DEF TypeOK
<1>13. ASSUME Orderly, list # "accounts", NEW r \in Reliable, r \in page
       PROVE  ~FromToken(r)'
  <2>1. r \in table /\ r \in Rows /\ next \in table /\ next \in Rows /\ r # next
    BY <1>2, <1>4, <1>13
  <2>2. ~Before(next, r)
    BY <1>2, <1>13 DEF Answer, Leads
  <2>3. CASE list = "operations"
    <3>1. PICK last \in page : /\ NextToken(page, next) = [key |-> sort[last], row |-> last]
                               /\ \A s \in page : sort[last] <= sort[s]
      BY <1>4, <1>5, <2>3, LastOfPage
    <3> QED BY <1>2, <1>3, <1>4, <1>13, <2>1, <2>3, <3>1
       DEF FromToken, OperationsFrom, AccountsFrom, BundlersFrom, KeyedFrom, TypeOK
  <2>5. CASE list = "keyed"
    BY <1>2, <1>3, <2>1, <2>2, <2>5
       DEF Before, FromToken, OperationsFrom, AccountsFrom, BundlersFrom, KeyedFrom, NextToken, Less, TypeOK
  <2>6. CASE list = "bundlers"
    <3>1. ~Crossed(table, sort, count)
      BY <1>13, <2>6 DEF Orderly, Histories
    <3>2. Less(sort[next], next, sort[r], r)
      BY <2>1, <2>2, <2>6 DEF Before, Less, TypeOK
    <3>3. Less(count[next], next, count[r], r)
      BY <2>1, <3>1, <3>2, OrdersAgree
    <3> QED BY <1>2, <1>3, <2>1, <2>6, <3>3
       DEF FromToken, OperationsFrom, AccountsFrom, BundlersFrom, KeyedFrom, NextToken
  <2> QED BY <1>13, <2>3, <2>5, <2>6 DEF TypeOK
<1>14. ASSUME Orderly, list # "accounts", NEW r \in Reliable, r \in seen
       PROVE  ~FromToken(r)'
  <2>1. walk = "reading" /\ token \in Token /\ token # NoToken
    BY <1>3, <1>14 DEF Histories, TypeOK, Token, NoToken
  <2>2. ~FromToken(r)
    BY <1>14, <2>1 DEF Between
  <2>3. r \in Rows /\ next \in Rows /\ next \in table /\ FromToken(next)
    BY <1>2, <1>4, <2>1 DEF Reliable, TypeOK, Candidates
  <2>4. CASE list = "operations"
    <3>1. PICK last \in page : NextToken(page, next) = [key |-> sort[last], row |-> last]
      BY <1>4, <1>5, <2>4, LastOfPage
    <3>2. FromToken(last) /\ last \in Rows
      BY <1>4, <2>1 DEF Candidates
    <3> QED BY <1>2, <1>3, <2>1, <2>2, <2>3, <2>4, <3>1, <3>2
       DEF FromToken, OperationsFrom, AccountsFrom, BundlersFrom, KeyedFrom, TypeOK, Token
  <2>5. CASE list = "keyed"
    BY <1>2, <1>3, <2>1, <2>2, <2>3, <2>5
       DEF FromToken, OperationsFrom, AccountsFrom, BundlersFrom, KeyedFrom, NextToken, Less, TypeOK, Token
  <2>6. CASE list = "bundlers"
    BY <1>2, <1>3, <2>1, <2>2, <2>3, <2>6
       DEF FromToken, OperationsFrom, AccountsFrom, BundlersFrom, KeyedFrom, NextToken, Less, TypeOK, Token
  <2> QED BY <1>14, <2>4, <2>5, <2>6 DEF TypeOK
<1>15. Orderly' => Between'
  BY <1>3, <1>7, <1>10, <1>11, <1>12, <1>13, <1>14 DEF Between
<1>16. EachRowOnce'
  BY <1>3, <1>7, <1>10, <1>11 DEF EachRowOnce
<1> QED BY <1>8, <1>9, <1>15, <1>16

LEMMA LastPageIInv == IInv /\ LastPage => IInv'
<1> SUFFICES ASSUME IInv, LastPage PROVE IInv'
  OBVIOUS
<1> USE DEF IInv
<1>1. /\ walk' = "done" /\ walk # "done"
      /\ UNCHANGED <<list, table, sort, count, token, stayed, tied, crossed, changes>>
      /\ seen' = seen \cup Candidates /\ twice' = twice \cup (seen \cap Candidates)
  BY DEF LastPage, Show
<1>2. Candidates \subseteq Rows
  BY DEF Candidates, TypeOK
<1>3. TypeOK'
  BY <1>1, <1>2 DEF TypeOK
<1>4. Histories' /\ Between'
  BY <1>1 DEF Histories, Tied, Crossed, Between
<1>5. Orderly' = Orderly /\ Reliable' = Reliable
  BY <1>1 DEF Orderly, Reliable
<1>6. ASSUME Orderly, NEW r \in Reliable
      PROVE  /\ r \notin seen => r \in Candidates
             /\ list # "accounts" => (r \in seen => r \notin Candidates)
  BY <1>1, <1>6 DEF Between, Histories, Candidates, Reliable, TypeOK, Token, NoToken
<1>7. EachRowOnce'
  BY <1>1, <1>5, <1>6 DEF EachRowOnce
<1> QED BY <1>3, <1>4, <1>7

(* A write only takes rows from those that can be relied on. *)
LEMMA ChangeIInv == ASSUME NEW c \in Rows PROVE IInv /\ Change(c) => IInv'
<1> SUFFICES ASSUME IInv, Change(c) PROVE IInv'
  OBVIOUS
<1> USE DEF IInv
<1>1. /\ walk # "done" /\ UNCHANGED <<list, token, walk, seen, twice>>
      /\ stayed' = IF walk = "new" THEN table' ELSE stayed \ {c}
      /\ tied' = Tied(table', sort') \cup IF walk = "new" THEN {} ELSE tied
      /\ crossed' = (Crossed(table', sort', count') \/ (walk # "new" /\ crossed))
      /\ changes' \in 0..MaxChanges
  BY DEF Change, TypeOK
<1>2. /\ table' \subseteq Rows /\ table \ {c} \subseteq table'
      /\ sort' \in [Rows -> Keys] /\ count' \in [Rows -> Keys]
      /\ \A r \in Rows \ {c} : sort'[r] = sort[r] /\ count'[r] = count[r]
  BY DEF Change, TypeOK
<1>3. TypeOK'
  BY <1>1, <1>2 DEF TypeOK, Tied, Crossed
<1>4. Histories'
  BY <1>1 DEF Histories
<1>5. CASE walk = "new"
  BY <1>1, <1>3, <1>4, <1>5 DEF Between, EachRowOnce, Histories
<1>6. CASE walk = "reading"
  <2>1. Orderly' => Orderly
    BY <1>1, <1>6 DEF Orderly
  <2>2. Reliable' \subseteq Reliable \ {c}
    BY <1>1, <1>6 DEF Reliable
  <2>3. \A r \in Reliable' : FromToken(r)' = FromToken(r)
    BY <1>1, <1>2, <2>2
       DEF FromToken, OperationsFrom, AccountsFrom, BundlersFrom, KeyedFrom, Reliable, TypeOK
  <2>4. Orderly' => Between'
    BY <1>1, <1>6, <2>1, <2>2, <2>3 DEF Between
  <2>5. EachRowOnce'
    BY <1>1, <1>6, <2>1, <2>2 DEF EachRowOnce
  <2> QED BY <1>3, <1>4, <2>4, <2>5
<1> QED BY <1>1, <1>5, <1>6 DEF TypeOK

LEMMA NextIInv == IInv /\ [Next]_vars => IInv'
<1> SUFFICES ASSUME IInv, [Next]_vars PROVE IInv'
  OBVIOUS
<1>1. CASE NextPage
  BY <1>1, NextPageIInv
<1>2. CASE LastPage
  BY <1>2, LastPageIInv
<1>3. CASE \E r \in Rows : Change(r)
  BY <1>3, ChangeIInv
<1>4. CASE UNCHANGED vars
  BY <1>4 DEF vars, IInv, TypeOK, Histories, Tied, Crossed, Orderly, Between, EachRowOnce,
              Reliable, FromToken, OperationsFrom, AccountsFrom, BundlersFrom, KeyedFrom
<1> QED BY <1>1, <1>2, <1>3, <1>4 DEF Next

-----------------------------------------------------------------------------
(* Whatever the indexer writes between the pages, a client who follows the  *)
(* tokens of get_operations, list_user_ops, list_bundles, list_factories,   *)
(* list_paymasters, list_accounts or list_bundlers sees each reliable row,  *)
(* and (but for accounts) sees it once.                                     *)
THEOREM EachRowOnceHolds == Spec => []EachRowOnce
<1>1. Init => IInv
  BY InitIInv
<1>2. IInv /\ [Next]_vars => IInv'
  BY NextIInv
<1>3. IInv => EachRowOnce
  BY DEF IInv
<1> QED BY <1>1, <1>2, <1>3, PTL DEF Spec
=============================================================================
