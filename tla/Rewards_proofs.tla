--------------------------- MODULE Rewards_proofs ---------------------------
(***************************************************************************)
(* Proofs about Wallet and Rewards, for any accounts, keys, amounts, rides,*)
(* callers and strays.  What a statement does to the database does not     *)
(* depend on which call it belongs to: the first part describes the        *)
(* database by itself (Statement) and shows that no account is overdrawn   *)
(* and no key is posted twice, wherever a statement strays to.  The second *)
(* part follows a call that stays on its connection and shows that its     *)
(* post is atomic.  The third is about the rewards around a ride, clients  *)
(* of the ledger service: every step of Rewards is a step of Wallet or     *)
(* leaves the ledgers alone, so that what was shown of Wallet holds of     *)
(* them.  It takes an invariant: a handler whose post is under way waits   *)
(* for it, and the amounts it posts are amounts of the ride.  The rest is  *)
(* about the rides: what a handler at work knows of its ride (LocalInv),   *)
(* which statements the rows of the ledger come from (TracedInv), and from *)
(* these two the money a ride takes, the refund of a cancellation, the     *)
(* payment recorded on the ride's row, and the referrer's bonus.           *)
(***************************************************************************)
EXTENDS Rewards, Sums, TLAPS

db == <<balance, entries, tx>>

DbType ==
  /\ balance \in [Accounts -> Int]
  /\ entries \subseteq Entry
  /\ tx \in [Procs -> TxType]

Zero == [a \in Accounts |-> 0]

\* What the steps of a post do to the database.
OpenTx(c) == tx' = [tx EXCEPT ![c].open = TRUE] /\ UNCHANGED <<balance, entries>>

Insert(c, e) == KeyFree(c, e.key) /\ ~ Known(c, e.key) /\ InsertRow(c, e)

Update(c, e) == RowFree(c, e.account) /\ Seen(c, e.account) + e.amount >= 0 /\ AddToAccount(c, e)

Direct(e) ==
  /\ \A c \in Procs: (\A r \in tx[c].rows: r.key # e.key) /\ e.account \notin tx[c].locked
  /\ \A r \in entries: r.key # e.key
  /\ balance[e.account] + e.amount >= 0
  /\ balance' = [balance EXCEPT ![e.account] = @ + e.amount]
  /\ entries' = entries \cup {e}
  /\ UNCHANGED tx

Restart == tx' = [c \in Procs |-> Closed] /\ UNCHANGED <<balance, entries>>

Statement ==
  \/ \E c \in Procs: OpenTx(c) \/ Commit(c) \/ Rollback(c)
  \/ \E c \in Procs, e \in Entry: Insert(c, e) \/ Update(c, e)
  \/ \E e \in Entry: Direct(e)
  \/ Restart
  \/ UNCHANGED db

-----------------------------------------------------------------------------
(* A statement, one connection at a time. *)

LEMMA ClosedType == Closed \in TxType
  BY DEF Closed, TxType

LEMMA OpenTxEffect ==
  ASSUME DbType, NEW c \in Procs, OpenTx(c)
  PROVE  /\ UNCHANGED <<balance, entries>>
         /\ tx' \in [Procs -> TxType]
         /\ \A d \in Procs \ {c}: tx'[d] = tx[d]
         /\ tx'[c].open /\ tx'[c].rows = tx[c].rows /\ tx'[c].delta = tx[c].delta
         /\ tx'[c].locked = tx[c].locked
  BY DEF DbType, OpenTx, TxType

\* Inside a transaction the row is pending, outside of one it is committed.
LEMMA InsertEffect ==
  ASSUME DbType, NEW c \in Procs, NEW e \in Entry, InsertRow(c, e)
  PROVE  \/ /\ tx[c].open
            /\ UNCHANGED <<balance, entries>>
            /\ tx' \in [Procs -> TxType]
            /\ \A d \in Procs \ {c}: tx'[d] = tx[d]
            /\ tx'[c].open = tx[c].open /\ tx'[c].rows = tx[c].rows \cup {e}
            /\ tx'[c].delta = tx[c].delta /\ tx'[c].locked = tx[c].locked
         \/ ~ tx[c].open /\ entries' = entries \cup {e} /\ UNCHANGED <<balance, tx>>
<1>1. CASE tx[c].open
  <2>1. tx' = [tx EXCEPT ![c].rows = @ \cup {e}] /\ UNCHANGED <<balance, entries>>
    BY <1>1 DEF InsertRow
  <2>2. tx[c] \in TxType
    BY DEF DbType
  <2>3. tx' \in [Procs -> TxType]
    BY <2>1, <2>2 DEF DbType, TxType
  <2> QED
    BY <1>1, <2>1, <2>2, <2>3 DEF DbType, TxType
<1>2. CASE ~ tx[c].open
  BY <1>2 DEF InsertRow
<1> QED
  BY <1>1, <1>2

\* Inside a transaction the movement is pending and the row is locked, outside
\* of one it is committed.
LEMMA UpdateEffect ==
  ASSUME DbType, NEW c \in Procs, NEW e \in Entry, AddToAccount(c, e)
  PROVE  \/ /\ tx[c].open
            /\ UNCHANGED <<balance, entries>>
            /\ tx' \in [Procs -> TxType]
            /\ \A d \in Procs \ {c}: tx'[d] = tx[d]
            /\ tx'[c].open = tx[c].open /\ tx'[c].rows = tx[c].rows
            /\ tx'[c].delta = [tx[c].delta EXCEPT ![e.account] = @ + e.amount]
            /\ tx'[c].locked = tx[c].locked \cup {e.account}
         \/ /\ ~ tx[c].open
            /\ balance' = [balance EXCEPT ![e.account] = @ + e.amount]
            /\ UNCHANGED <<entries, tx>>
<1> DEFINE t == Added(tx[c], e)
<1>1. CASE tx[c].open
  <2>1. tx[c] \in TxType /\ e.account \in Accounts /\ e.amount \in Int
    BY WalletAssumption DEF DbType, Entry
  <2>2. [tx[c].delta EXCEPT ![e.account] = @ + e.amount] \in [Accounts -> Int]
    BY <2>1 DEF TxType
  <2>3. t \in TxType
    BY <2>1, <2>2 DEF Added, TxType
  <2>4. tx' = [tx EXCEPT ![c] = t] /\ UNCHANGED <<balance, entries>>
    BY <1>1 DEF AddToAccount
  <2>5. /\ tx' \in [Procs -> TxType]
        /\ tx'[c] = t /\ \A d \in Procs \ {c}: tx'[d] = tx[d]
    BY <2>3, <2>4 DEF DbType
  <2> QED
    BY <1>1, <2>4, <2>5 DEF Added
<1>2. CASE ~ tx[c].open
  BY <1>2 DEF AddToAccount
<1> QED
  BY <1>1, <1>2

LEMMA CommitEffect ==
  ASSUME DbType, NEW c \in Procs, Commit(c)
  PROVE  /\ balance' \in [Accounts -> Int]
         /\ \A a \in Accounts: balance'[a] = balance[a] + tx[c].delta[a]
         /\ entries' = entries \cup tx[c].rows /\ entries' \subseteq Entry
         /\ tx' \in [Procs -> TxType]
         /\ tx'[c] = Closed /\ \A d \in Procs \ {c}: tx'[d] = tx[d]
  BY ClosedType DEF DbType, Commit, TxType

LEMMA RollbackEffect ==
  ASSUME DbType, NEW c \in Procs, Rollback(c)
  PROVE  /\ UNCHANGED <<balance, entries>>
         /\ tx' \in [Procs -> TxType]
         /\ tx'[c] = Closed /\ \A d \in Procs \ {c}: tx'[d] = tx[d]
  BY ClosedType DEF DbType, Rollback

LEMMA DbTypeStep == DbType /\ Statement => DbType'
<1> SUFFICES ASSUME DbType, Statement PROVE DbType'
  OBVIOUS
<1>1. ASSUME NEW c \in Procs, OpenTx(c) PROVE DbType'
  BY <1>1, OpenTxEffect DEF DbType
<1>2. ASSUME NEW c \in Procs, Commit(c) PROVE DbType'
  BY <1>2, CommitEffect DEF DbType
<1>3. ASSUME NEW c \in Procs, Rollback(c) PROVE DbType'
  BY <1>3, RollbackEffect DEF DbType
<1>4. ASSUME NEW c \in Procs, NEW e \in Entry, Insert(c, e) PROVE DbType'
  BY <1>4, InsertEffect DEF DbType, Insert
<1>5. ASSUME NEW c \in Procs, NEW e \in Entry, Update(c, e) PROVE DbType'
  <2>1. e.account \in Accounts /\ e.amount \in Int
    BY WalletAssumption DEF Entry
  <2>2. AddToAccount(c, e)
    BY <1>5 DEF Update
  <2>3. tx' \in [Procs -> TxType] /\ entries' = entries
    BY <2>2, UpdateEffect DEF DbType
  <2>4. balance' = balance \/ balance' = [balance EXCEPT ![e.account] = @ + e.amount]
    BY <2>2, UpdateEffect
  <2>5. balance' \in [Accounts -> Int]
    BY <2>1, <2>4 DEF DbType
  <2> QED
    BY <2>3, <2>5 DEF DbType
<1>6. ASSUME NEW e \in Entry, Direct(e) PROVE DbType'
  <2>1. e.account \in Accounts /\ e.amount \in Int
    BY WalletAssumption DEF Entry
  <2>2. balance' = [balance EXCEPT ![e.account] = @ + e.amount] /\ entries' = entries \cup {e} /\ tx' = tx
    BY <1>6 DEF Direct
  <2>3. balance' \in [Accounts -> Int]
    BY <2>1, <2>2 DEF DbType
  <2> QED
    BY <2>2, <2>3 DEF DbType
<1>7. CASE Restart
  BY <1>7, ClosedType DEF Restart, DbType
<1>8. CASE UNCHANGED db
  BY <1>8 DEF db, DbType
<1> QED
  BY <1>1, <1>2, <1>3, <1>4, <1>5, <1>6, <1>7, <1>8 DEF Statement

-----------------------------------------------------------------------------
(* No account is overdrawn: what a transaction took is in its delta, and   *)
(* only the transaction that locked an account has a delta for it.         *)

Covered(a) ==
  /\ balance[a] >= 0
  /\ \A c \in Procs: balance[a] + tx[c].delta[a] >= 0

LockedOnly == \A c \in Procs, a \in Accounts: a \notin tx[c].locked => tx[c].delta[a] = 0

LockedOnce == \A c, d \in Procs: c # d => tx[c].locked \cap tx[d].locked = {}

ClosedEmpty == \A c \in Procs: ~ tx[c].open => tx[c].rows = {} /\ tx[c].locked = {}

Solvent == (\A a \in Accounts: Covered(a)) /\ LockedOnly /\ LockedOnce /\ ClosedEmpty

LEMMA SolventCommit ==
  ASSUME DbType, Solvent, NEW c \in Procs, Commit(c) PROVE Solvent'
<1> USE DEF DbType, TxType, Closed
<1>1. /\ \A a \in Accounts: balance'[a] = balance[a] + tx[c].delta[a]
      /\ tx'[c] = Closed /\ \A d \in Procs \ {c}: tx'[d] = tx[d]
  BY CommitEffect
<1>2. \A a \in Accounts: Covered(a)'
  <2> SUFFICES ASSUME NEW a \in Accounts PROVE Covered(a)'
    OBVIOUS
  <2>1. balance'[a] >= 0
    BY <1>1 DEF Solvent, Covered
  <2>2. ASSUME NEW d \in Procs PROVE balance'[a] + tx'[d].delta[a] >= 0
    <3>1. CASE d = c
      BY <1>1, <2>1, <3>1
    <3>2. CASE d # c /\ a \in tx[c].locked
      <4>1. a \notin tx[d].locked
        BY <3>2 DEF Solvent, LockedOnce
      <4>2. tx'[d].delta[a] = 0
        BY <1>1, <3>2, <4>1 DEF Solvent, LockedOnly
      <4> QED
        BY <2>1, <4>2, <1>1
    <3>3. CASE d # c /\ a \notin tx[c].locked
      <4>1. balance'[a] = balance[a]
        BY <1>1, <3>3 DEF Solvent, LockedOnly
      <4> QED
        BY <4>1, <1>1, <3>3 DEF Solvent, Covered
    <3> QED
      BY <3>1, <3>2, <3>3
  <2> QED
    BY <2>1, <2>2 DEF Covered
<1>3. LockedOnly' /\ LockedOnce' /\ ClosedEmpty'
  BY <1>1 DEF Solvent, LockedOnly, LockedOnce, ClosedEmpty
<1> QED
  BY <1>2, <1>3 DEF Solvent

LEMMA SolventUpdate ==
  ASSUME DbType, Solvent, NEW c \in Procs, NEW e \in Entry, Update(c, e) PROVE Solvent'
<1>1. e.account \in Accounts /\ e.amount \in Int
  BY WalletAssumption DEF Entry
<1>2. /\ RowFree(c, e.account) /\ balance[e.account] + tx[c].delta[e.account] + e.amount >= 0
      /\ AddToAccount(c, e)
  BY DEF Update, Seen
<1>3. CASE tx[c].open
  <2>1. /\ balance' = balance
        /\ \A d \in Procs \ {c}: tx'[d] = tx[d]
        /\ tx'[c].open = tx[c].open /\ tx'[c].rows = tx[c].rows
        /\ tx'[c].delta = [tx[c].delta EXCEPT ![e.account] = @ + e.amount]
        /\ tx'[c].locked = tx[c].locked \cup {e.account}
    BY <1>2, <1>3, UpdateEffect
  <2>2. tx[c].delta \in [Accounts -> Int]
    BY DEF DbType, TxType
  <2>3. \A a \in Accounts: tx'[c].delta[a] = IF a = e.account THEN tx[c].delta[a] + e.amount
                                              ELSE tx[c].delta[a]
    BY <1>1, <2>1, <2>2
  <2>4. \A a \in Accounts: Covered(a)'
    <3> SUFFICES ASSUME NEW a \in Accounts PROVE Covered(a)'
      OBVIOUS
    <3>1. ASSUME NEW d \in Procs PROVE balance'[a] + tx'[d].delta[a] >= 0
      <4>1. balance[a] \in Int /\ tx[c].delta[a] \in Int /\ balance[a] + tx[d].delta[a] >= 0
        BY <2>2 DEF DbType, Solvent, Covered
      <4>2. CASE d = c /\ a = e.account
        <5>1. balance'[a] = balance[a] /\ tx'[d].delta[a] = tx[c].delta[a] + e.amount
          BY <2>1, <2>3, <4>2
        <5>2. balance[a] + tx[c].delta[a] + e.amount >= 0
          BY <1>2, <4>2
        <5> QED
          BY <1>1, <4>1, <5>1, <5>2
      <4>3. CASE d = c /\ a # e.account
        BY <2>1, <2>3, <4>1, <4>3
      <4>4. CASE d # c
        BY <2>1, <4>1, <4>4
      <4> QED
        BY <4>2, <4>3, <4>4
    <3> QED
      BY <2>1, <3>1 DEF Covered, Solvent
  <2>5. LockedOnly'
    <3> SUFFICES ASSUME NEW d \in Procs, NEW a \in Accounts, a \notin tx'[d].locked
                 PROVE  tx'[d].delta[a] = 0
      BY DEF LockedOnly
    <3>1. CASE d = c
      BY <2>1, <2>3, <3>1 DEF Solvent, LockedOnly
    <3>2. CASE d # c
      BY <2>1, <3>2 DEF Solvent, LockedOnly
    <3> QED
      BY <3>1, <3>2
  <2>6. LockedOnce'
    BY <1>2, <2>1 DEF Solvent, LockedOnce, RowFree
  <2>7. ClosedEmpty'
    BY <1>3, <2>1 DEF Solvent, ClosedEmpty
  <2> QED
    BY <2>4, <2>5, <2>6, <2>7 DEF Solvent
<1>4. CASE ~ tx[c].open
  <2>1. balance' = [balance EXCEPT ![e.account] = @ + e.amount] /\ tx' = tx
    BY <1>2, <1>4, UpdateEffect
  <2>2. balance[e.account] + e.amount >= 0
    BY <1>1, <1>2, <1>4 DEF Solvent, ClosedEmpty, LockedOnly, DbType, TxType
  <2>3. \A d \in Procs: tx[d].delta[e.account] = 0
    BY <1>1, <1>2, <1>4 DEF Solvent, ClosedEmpty, LockedOnly, RowFree
  <2>4. \A a \in Accounts: balance'[a] = IF a = e.account THEN balance[a] + e.amount ELSE balance[a]
    BY <2>1 DEF DbType
  <2>5. \A a \in Accounts: Covered(a)'
    BY <1>1, <2>1, <2>2, <2>3, <2>4 DEF Solvent, Covered, DbType
  <2> QED
    BY <2>1, <2>5 DEF Solvent, LockedOnly, LockedOnce, ClosedEmpty
<1> QED
  BY <1>3, <1>4

LEMMA SolventDirect ==
  ASSUME DbType, Solvent, NEW e \in Entry, Direct(e) PROVE Solvent'
<1>1. e.account \in Accounts /\ e.amount \in Int
  BY WalletAssumption DEF Entry
<1>2. /\ \A c \in Procs: e.account \notin tx[c].locked
      /\ balance[e.account] + e.amount >= 0
      /\ balance' = [balance EXCEPT ![e.account] = @ + e.amount] /\ tx' = tx
  BY DEF Direct
<1>3. \A d \in Procs: tx[d].delta[e.account] = 0
  BY <1>1, <1>2 DEF Solvent, LockedOnly
<1>4. \A a \in Accounts: balance'[a] = IF a = e.account THEN balance[a] + e.amount ELSE balance[a]
  BY <1>2 DEF DbType
<1>5. \A a \in Accounts: Covered(a)'
  BY <1>1, <1>2, <1>3, <1>4 DEF Solvent, Covered, DbType
<1> QED
  BY <1>2, <1>5 DEF Solvent, LockedOnly, LockedOnce, ClosedEmpty

LEMMA SolventStep == DbType /\ Solvent /\ Statement => Solvent'
<1> SUFFICES ASSUME DbType, Solvent, Statement PROVE Solvent'
  OBVIOUS
<1> USE DEF Solvent, LockedOnly, LockedOnce, ClosedEmpty, Covered
<1>1. ASSUME NEW c \in Procs, OpenTx(c) PROVE Solvent'
  BY <1>1, OpenTxEffect
<1>2. ASSUME NEW c \in Procs, Commit(c) PROVE Solvent'
  BY <1>2, SolventCommit
<1>3. ASSUME NEW c \in Procs, Rollback(c) PROVE Solvent'
  BY <1>3, RollbackEffect DEF Closed, DbType
<1>4. ASSUME NEW c \in Procs, NEW e \in Entry, Insert(c, e) PROVE Solvent'
  BY <1>4, InsertEffect DEF Insert
<1>5. ASSUME NEW c \in Procs, NEW e \in Entry, Update(c, e) PROVE Solvent'
  BY <1>5, SolventUpdate
<1>6. ASSUME NEW e \in Entry, Direct(e) PROVE Solvent'
  BY <1>6, SolventDirect
<1>7. CASE Restart
  BY <1>7 DEF Restart, Closed, DbType
<1>8. CASE UNCHANGED db
  BY <1>8 DEF db
<1> QED
  BY <1>1, <1>2, <1>3, <1>4, <1>5, <1>6, <1>7, <1>8 DEF Statement

-----------------------------------------------------------------------------
(* A key is posted once: the rows of a transaction have keys that no       *)
(* committed row and no row of another transaction has.                    *)

Distinct(rows, more) == \A r \in rows, s \in more: r.key # s.key

Unique(rows) == \A r, s \in rows: r.key = s.key => r = s

Keyed ==
  /\ Unique(entries)
  /\ \A c \in Procs: Unique(tx[c].rows) /\ Distinct(tx[c].rows, entries)
  /\ \A c, d \in Procs: c # d => Distinct(tx[c].rows, tx[d].rows)
  /\ \A c \in Procs: ~ tx[c].open => tx[c].rows = {}

LEMMA KeyedInsert ==
  ASSUME DbType, Keyed, NEW c \in Procs, NEW e \in Entry, Insert(c, e) PROVE Keyed'
<1> USE DEF Unique, Distinct
<1>1. /\ Distinct({e}, entries) /\ Distinct({e}, tx[c].rows)
      /\ \A d \in Procs \ {c}: Distinct(tx[d].rows, {e})
      /\ InsertRow(c, e)
  BY DEF Insert, Known, Visible, KeyFree
<1>2. CASE tx[c].open
  <2>1. /\ entries' = entries
        /\ \A d \in Procs \ {c}: tx'[d] = tx[d]
        /\ tx'[c].open /\ tx'[c].rows = tx[c].rows \cup {e}
    BY <1>1, <1>2, InsertEffect
  <2> QED
    BY <1>1, <2>1 DEF Keyed
<1>3. CASE ~ tx[c].open
  <2>1. entries' = entries \cup {e} /\ tx' = tx
    BY <1>1, <1>3, InsertEffect
  <2>2. \A d \in Procs: Distinct(tx[d].rows, {e})
    BY <1>1, <1>3 DEF Keyed
  <2> QED
    BY <1>1, <2>1, <2>2 DEF Keyed
<1> QED
  BY <1>2, <1>3

LEMMA KeyedStep == DbType /\ Keyed /\ Statement => Keyed'
<1> SUFFICES ASSUME DbType, Keyed, Statement PROVE Keyed'
  OBVIOUS
<1> USE DEF Keyed, Unique, Distinct
<1>1. ASSUME NEW c \in Procs, OpenTx(c) PROVE Keyed'
  BY <1>1, OpenTxEffect
<1>2. ASSUME NEW c \in Procs, Commit(c) PROVE Keyed'
  <2>1. entries' = entries \cup tx[c].rows /\ tx'[c] = Closed /\ \A d \in Procs \ {c}: tx'[d] = tx[d]
    BY <1>2, CommitEffect
  <2> QED
    BY <2>1 DEF Closed
<1>3. ASSUME NEW c \in Procs, Rollback(c) PROVE Keyed'
  BY <1>3, RollbackEffect DEF Closed
<1>4. ASSUME NEW c \in Procs, NEW e \in Entry, Insert(c, e) PROVE Keyed'
  BY <1>4, KeyedInsert
<1>5. ASSUME NEW c \in Procs, NEW e \in Entry, Update(c, e) PROVE Keyed'
  <2>1. AddToAccount(c, e)
    BY <1>5 DEF Update
  <2>2. entries' = entries /\ \A d \in Procs: tx'[d].rows = tx[d].rows /\ tx'[d].open = tx[d].open
    BY <2>1, UpdateEffect
  <2> QED
    BY <2>2
<1>6. ASSUME NEW e \in Entry, Direct(e) PROVE Keyed'
  <2>1. /\ \A c \in Procs: Distinct(tx[c].rows, {e})
        /\ Distinct(entries, {e})
        /\ entries' = entries \cup {e} /\ tx' = tx
    BY <1>6 DEF Direct
  <2> QED
    BY <2>1
<1>7. CASE Restart
  BY <1>7 DEF Restart, Closed
<1>8. CASE UNCHANGED db
  BY <1>8 DEF db
<1> QED
  BY <1>1, <1>2, <1>3, <1>4, <1>5, <1>6, <1>7, <1>8 DEF Statement

-----------------------------------------------------------------------------
(* The calls: every step of the service is a statement.                    *)

PostType == [at: PostAt, conn: Procs \cup {None}, entry: Entry \cup {None}]

\* A call under way has a connection and an entry.
InFlight == \A p \in Procs: post[p].at # "idle" => post[p].conn \in Procs /\ post[p].entry \in Entry

Calls == post \in [Procs -> PostType] /\ InFlight /\ strays \in 0..MaxStrays

LEMMA GotoEffect ==
  ASSUME Calls, NEW p \in Procs, NEW at \in PostAt \ {"idle"}, Goto(p, at), post[p].at # "idle"
  PROVE  /\ post' \in [Procs -> PostType] /\ InFlight'
         /\ \A q \in Procs \ {p}: post'[q] = post[q]
         /\ post'[p].at = at /\ post'[p].conn = post[p].conn /\ post'[p].entry = post[p].entry
<1>1. post[p] \in PostType /\ post[p].conn \in Procs /\ post[p].entry \in Entry
  BY DEF Calls, InFlight
<1>2. post' = [post EXCEPT ![p].at = at]
  BY DEF Goto
<1>3. /\ post'[p].at = at /\ post'[p].conn = post[p].conn /\ post'[p].entry = post[p].entry
      /\ post'[p] \in PostType
  BY <1>1, <1>2 DEF Calls, PostType
<1>4. \A q \in Procs \ {p}: post'[q] = post[q]
  BY <1>2 DEF Calls
<1>5. post' \in [Procs -> PostType]
  BY <1>2, <1>3, <1>4 DEF Calls
<1> QED
  BY <1>1, <1>3, <1>4, <1>5 DEF Calls, InFlight

\* Where a step of a post leads and what it does to the database.
LEMMA PostStepEffect ==
  ASSUME Calls, NEW p \in Procs, PostStep(p)
  PROVE  LET c == post[p].conn
             e == post[p].entry IN
         /\ post[p].at # "idle" /\ c \in Procs /\ e \in Entry /\ strays' = strays
         /\ \/ post[p].at = "begin" /\ Goto(p, "applied") /\ UNCHANGED db
            \/ post[p].at = "begin" /\ Goto(p, "insert") /\ OpenTx(c)
            \/ post[p].at = "insert" /\ Goto(p, "duplicate") /\ UNCHANGED db
            \/ post[p].at = "insert" /\ Goto(p, "update") /\ Insert(c, e)
            \/ post[p].at = "update" /\ Goto(p, "refuse") /\ UNCHANGED db
            \/ post[p].at = "update" /\ Goto(p, "commit") /\ Update(c, e)
            \/ post[p].at = "commit" /\ Goto(p, "applied") /\ Commit(c)
            \/ post[p].at = "duplicate" /\ Goto(p, "applied") /\ Rollback(c)
            \/ post[p].at = "refuse" /\ Goto(p, "refused") /\ Rollback(c)
<1>1. post[p].at # "idle" => post[p].conn \in Procs /\ post[p].entry \in Entry
  BY DEF Calls, InFlight
<1>2. CASE PostBegin(p)
  BY <1>1, <1>2 DEF PostBegin, OpenTx, db
<1>3. CASE PostInsert(p)
  BY <1>1, <1>3 DEF PostInsert, Insert, db
<1>4. CASE PostUpdate(p)
  BY <1>1, <1>4 DEF PostUpdate, Update, db
<1>5. CASE PostCommit(p)
  BY <1>1, <1>5 DEF PostCommit
<1>6. CASE PostRollback(p)
  BY <1>1, <1>6 DEF PostRollback
<1> QED
  BY <1>2, <1>3, <1>4, <1>5, <1>6 DEF PostStep

LEMMA NextIsStatement == Calls /\ WalletNext => Statement
<1> SUFFICES ASSUME Calls, WalletNext PROVE Statement
  OBVIOUS
<1>1. ASSUME NEW p \in Procs, CallAny(p) \/ ReturnAny(p) \/ Stray(p) PROVE Statement
  BY <1>1 DEF CallAny, ReturnAny, Stray, Statement, db
<1>2. ASSUME NEW p \in Procs, PostStep(p) PROVE Statement
  BY <1>2, PostStepEffect DEF Statement
<1>3. ASSUME NEW e \in Entry, PostInCallersTx(e) PROVE Statement
  BY <1>3 DEF PostInCallersTx, Direct, Statement
<1>4. CASE WalletCrash
  BY <1>4 DEF WalletCrash, Restart, Statement
<1> QED
  BY <1>1, <1>2, <1>3, <1>4 DEF WalletNext

LEMMA CallEffect ==
  ASSUME Calls, NEW p \in Procs, NEW e \in Entry, Call(p, e)
  PROVE  /\ post' \in [Procs -> PostType] /\ InFlight'
         /\ \A q \in Procs \ {p}: post'[q] = post[q]
         /\ post'[p] = [at |-> "begin", conn |-> p, entry |-> e]
<1>1. [at |-> "begin", conn |-> p, entry |-> e] \in PostType
  BY DEF PostType, PostAt
<1> QED
  BY <1>1 DEF Call, Calls, InFlight

LEMMA ReturnEffect ==
  ASSUME Calls, NEW p \in Procs, Return(p)
  PROVE  /\ post' \in [Procs -> PostType] /\ InFlight'
         /\ \A q \in Procs \ {p}: post'[q] = post[q]
         /\ post'[p] = Idle
<1>1. Idle \in PostType
  BY DEF PostType, PostAt, Idle
<1> QED
  BY <1>1 DEF Return, Calls, InFlight, Idle

LEMMA StrayEffect ==
  ASSUME Calls, NEW p \in Procs, Stray(p)
  PROVE  /\ post' \in [Procs -> PostType] /\ InFlight'
         /\ strays' = strays + 1 /\ strays' \in 0..MaxStrays
<1>1. PICK c \in Procs: post' = [post EXCEPT ![p].conn = c]
  BY DEF Stray
<1>2. post[p] \in PostType /\ post[p].at # "idle"
  BY DEF Calls, Stray
<1>3. /\ post'[p].at = post[p].at /\ post'[p].conn = c /\ post'[p].entry = post[p].entry
      /\ post'[p] \in PostType
  BY <1>1, <1>2 DEF Calls, PostType
<1>4. \A q \in Procs \ {p}: post'[q] = post[q]
  BY <1>1 DEF Calls
<1>5. post' \in [Procs -> PostType]
  BY <1>1, <1>3, <1>4 DEF Calls
<1>6. strays' = strays + 1 /\ strays' \in 0..MaxStrays
  BY WalletAssumption DEF Stray, Calls
<1> QED
  BY <1>2, <1>3, <1>4, <1>5, <1>6 DEF Calls, InFlight

LEMMA CallsStep == Calls /\ [WalletNext]_walletVars => Calls'
<1> SUFFICES ASSUME Calls, [WalletNext]_walletVars PROVE Calls'
  OBVIOUS
<1>1. ASSUME NEW p \in Procs, CallAny(p) PROVE Calls'
  BY <1>1, CallEffect DEF CallAny, Calls
<1>2. ASSUME NEW p \in Procs, ReturnAny(p) PROVE Calls'
  BY <1>2, ReturnEffect DEF ReturnAny, Calls
<1>3. ASSUME NEW p \in Procs, PostStep(p) PROVE Calls'
  BY <1>3, PostStepEffect, GotoEffect DEF Calls, PostAt
<1>4. ASSUME NEW p \in Procs, Stray(p) PROVE Calls'
  BY <1>4, StrayEffect DEF Calls
<1>5. ASSUME NEW e \in Entry, PostInCallersTx(e) PROVE Calls'
  BY <1>5 DEF PostInCallersTx, Calls, InFlight
<1>6. CASE WalletCrash
  BY <1>6 DEF WalletCrash, Calls, InFlight, PostType, PostAt, Idle
<1>7. CASE UNCHANGED walletVars
  BY <1>7 DEF walletVars, Calls, InFlight
<1> QED
  BY <1>1, <1>2, <1>3, <1>4, <1>5, <1>6, <1>7 DEF WalletNext

-----------------------------------------------------------------------------
(* The transaction of a call whose statements all went to its connection.  *)

Blank(t) == t.rows = {} /\ t.delta = Zero /\ t.locked = {}

Shape(p) ==
  LET x == post[p]
      t == tx[p] IN
  /\ x.at # "idle" => x.conn = p
  /\ x.at \in {"idle", "begin", "applied", "refused"} => t = Closed
  /\ x.at \in {"insert", "duplicate"} => t.open /\ Blank(t)
  /\ x.at \in {"update", "refuse"} =>
       t.open /\ t.rows = {x.entry} /\ t.delta = Zero /\ t.locked = {}
  /\ x.at = "commit" =>
       /\ t.open /\ t.rows = {x.entry}
       /\ t.delta = [Zero EXCEPT ![x.entry.account] = @ + x.entry.amount]

Shaped == strays = 0 => \A p \in Procs: Shape(p)

WalletInv == DbType /\ Solvent /\ Keyed /\ Calls /\ Shaped

LEMMA ShapeKept ==
  ASSUME NEW q \in Procs, Shape(q), tx'[q] = tx[q], post'[q] = post[q] PROVE Shape(q)'
  BY DEF Shape, Blank, Zero

LEMMA ShapedPostStep ==
  ASSUME WalletInv, NEW p \in Procs, PostStep(p), strays' = 0 PROVE \A q \in Procs: Shape(q)'
<1> DEFINE e == post[p].entry
<1>1. /\ DbType /\ Calls /\ post[p].at # "idle" /\ e \in Entry /\ strays = 0
      /\ \A q \in Procs: Shape(q)
  BY PostStepEffect DEF WalletInv, Shaped
<1>2. post[p].conn = p
  BY <1>1 DEF Shape
<1>3. tx[p] \in TxType /\ e.account \in Accounts /\ e.amount \in Int
  BY <1>1, WalletAssumption DEF DbType, Entry
<1> DEFINE Other == /\ \A q \in Procs \ {p}: tx'[q] = tx[q] /\ post'[q] = post[q]
                    /\ post'[p].conn = p /\ post'[p].entry = e
<1>4. ASSUME NEW at \in PostAt \ {"idle"}, Goto(p, at) PROVE
        /\ \A q \in Procs \ {p}: post'[q] = post[q]
        /\ post'[p].conn = p /\ post'[p].entry = e /\ post'[p].at = at
  BY <1>1, <1>2, <1>4, GotoEffect
<1>5. ASSUME Other, Shape(p)' PROVE \A q \in Procs: Shape(q)'
  <2>1. ASSUME NEW q \in Procs \ {p} PROVE Shape(q)'
    BY <1>1, <1>5, <2>1, ShapeKept
  <2> QED
    BY <1>5, <2>1
<1>6. CASE post[p].at = "begin" /\ Goto(p, "applied") /\ UNCHANGED db
  <2>1. Other /\ post'[p].at = "applied" /\ tx'[p] = Closed
    BY <1>1, <1>4, <1>6 DEF db, Shape, PostAt
  <2> QED
    BY <1>5, <2>1 DEF Shape
<1>7. CASE post[p].at = "begin" /\ Goto(p, "insert") /\ OpenTx(p)
  <2>1. Other /\ post'[p].at = "insert"
    BY <1>1, <1>4, <1>7, OpenTxEffect DEF PostAt
  <2>2. tx[p] = Closed
    BY <1>1, <1>7 DEF Shape
  <2>3. tx'[p].open /\ Blank(tx[p])'
    BY <1>1, <1>7, <2>2, OpenTxEffect DEF Blank, Zero, Closed
  <2> QED
    BY <1>5, <2>1, <2>3 DEF Shape
<1>8. CASE post[p].at = "insert" /\ Goto(p, "duplicate") /\ UNCHANGED db
  <2>1. Other /\ post'[p].at = "duplicate" /\ tx'[p].open /\ Blank(tx[p])'
    BY <1>1, <1>4, <1>8 DEF db, Shape, PostAt, Blank
  <2> QED
    BY <1>5, <2>1 DEF Shape
<1>9. CASE post[p].at = "insert" /\ Goto(p, "update") /\ Insert(p, e)
  <2>1. tx[p].open /\ Blank(tx[p])
    BY <1>1, <1>9 DEF Shape
  <2>2. /\ \A d \in Procs \ {p}: tx'[d] = tx[d]
        /\ tx'[p].open /\ tx'[p].rows = {e} /\ tx'[p].delta = Zero /\ tx'[p].locked = {}
    BY <1>1, <1>9, <2>1, InsertEffect DEF Insert, Blank
  <2>3. Other /\ post'[p].at = "update"
    BY <1>4, <1>9, <2>2 DEF PostAt
  <2> QED
    BY <1>5, <2>2, <2>3 DEF Shape
<1>10. CASE post[p].at = "update" /\ Goto(p, "refuse") /\ UNCHANGED db
  <2>1. /\ Other /\ post'[p].at = "refuse"
        /\ tx'[p].open /\ tx'[p].rows = {e} /\ tx'[p].delta = Zero /\ tx'[p].locked = {}
    BY <1>1, <1>4, <1>10 DEF db, Shape, PostAt
  <2> QED
    BY <1>5, <2>1 DEF Shape
<1>11. CASE post[p].at = "update" /\ Goto(p, "commit") /\ Update(p, e)
  <2>1. tx[p].open /\ tx[p].rows = {e} /\ tx[p].delta = Zero
    BY <1>1, <1>11 DEF Shape
  <2>2. /\ \A d \in Procs \ {p}: tx'[d] = tx[d]
        /\ tx'[p].open /\ tx'[p].rows = {e}
        /\ tx'[p].delta = [Zero EXCEPT ![e.account] = @ + e.amount]
    BY <1>1, <1>11, <2>1, UpdateEffect DEF Update
  <2>3. Other /\ post'[p].at = "commit"
    BY <1>4, <1>11, <2>2 DEF PostAt
  <2> QED
    BY <1>5, <2>2, <2>3 DEF Shape
<1>12. CASE post[p].at = "commit" /\ Goto(p, "applied") /\ Commit(p)
  <2>1. Other /\ post'[p].at = "applied" /\ tx'[p] = Closed
    BY <1>1, <1>4, <1>12, CommitEffect DEF PostAt
  <2> QED
    BY <1>5, <2>1 DEF Shape
<1>13. CASE post[p].at = "duplicate" /\ Goto(p, "applied") /\ Rollback(p)
  <2>1. Other /\ post'[p].at = "applied" /\ tx'[p] = Closed
    BY <1>1, <1>4, <1>13, RollbackEffect DEF PostAt
  <2> QED
    BY <1>5, <2>1 DEF Shape
<1>14. CASE post[p].at = "refuse" /\ Goto(p, "refused") /\ Rollback(p)
  <2>1. Other /\ post'[p].at = "refused" /\ tx'[p] = Closed
    BY <1>1, <1>4, <1>14, RollbackEffect DEF PostAt
  <2> QED
    BY <1>5, <2>1 DEF Shape
<1> HIDE DEF e, Other
<1> QED
  BY <1>1, <1>2, <1>6, <1>7, <1>8, <1>9, <1>10, <1>11, <1>12, <1>13, <1>14, PostStepEffect DEF e

LEMMA ShapedStep == WalletInv /\ [WalletNext]_walletVars => Shaped'
<1> SUFFICES ASSUME WalletInv, [WalletNext]_walletVars, strays' = 0 PROVE \A q \in Procs: Shape(q)'
  BY DEF Shaped
<1>1. ASSUME NEW p \in Procs, CallAny(p) PROVE \A q \in Procs: Shape(q)'
  <2>1. PICK e \in Entry: Call(p, e)
    BY <1>1 DEF CallAny
  <2>2. /\ \A q \in Procs: Shape(q)
        /\ tx' = tx /\ post[p].at = "idle"
        /\ \A q \in Procs \ {p}: post'[q] = post[q]
        /\ post'[p] = [at |-> "begin", conn |-> p, entry |-> e]
    BY <1>1, <2>1, CallEffect DEF CallAny, WalletInv, Shaped
  <2>3. ASSUME NEW q \in Procs \ {p} PROVE Shape(q)'
    BY <2>2, ShapeKept
  <2>4. tx[p] = Closed
    <3>1. Shape(p) /\ post[p].at = "idle"
      BY <2>2
    <3> QED
      BY <3>1 DEF Shape
  <2>5. tx'[p] = Closed /\ post'[p].at = "begin" /\ post'[p].conn = p
    BY <2>2, <2>4
  <2>6. Shape(p)'
    BY <2>5 DEF Shape
  <2> QED
    BY <2>3, <2>6
<1>2. ASSUME NEW p \in Procs, ReturnAny(p) PROVE \A q \in Procs: Shape(q)'
  <2>1. /\ \A q \in Procs: Shape(q)
        /\ tx' = tx /\ post[p].at \in {"applied", "refused"}
        /\ \A q \in Procs \ {p}: post'[q] = post[q]
        /\ post'[p] = Idle
    BY <1>2, ReturnEffect DEF ReturnAny, WalletInv, Shaped
  <2>2. ASSUME NEW q \in Procs \ {p} PROVE Shape(q)'
    BY <2>1, ShapeKept
  <2>3. tx[p] = Closed
    <3>1. Shape(p) /\ post[p].at \in {"applied", "refused"}
      BY <2>1
    <3> QED
      BY <3>1 DEF Shape
  <2>4. tx'[p] = Closed /\ post'[p].at = "idle"
    BY <2>1, <2>3 DEF Idle
  <2>5. Shape(p)'
    BY <2>4 DEF Shape
  <2> QED
    BY <2>2, <2>5
<1>3. ASSUME NEW p \in Procs, PostStep(p) PROVE \A q \in Procs: Shape(q)'
  BY <1>3, ShapedPostStep
<1>4. ASSUME NEW p \in Procs, Stray(p) PROVE FALSE
  BY <1>4, StrayEffect DEF WalletInv, Calls
<1>5. ASSUME NEW e \in Entry, PostInCallersTx(e) PROVE \A q \in Procs: Shape(q)'
  BY <1>5 DEF PostInCallersTx, WalletInv, Shaped, Shape
<1>6. CASE WalletCrash
  BY <1>6 DEF WalletCrash, Shape, Idle
<1>7. CASE UNCHANGED walletVars
  BY <1>7 DEF walletVars, WalletInv, Shaped, Shape
<1> QED
  BY <1>1, <1>2, <1>3, <1>4, <1>5, <1>6, <1>7 DEF WalletNext

LEMMA WalletInvInit == WalletInit => WalletInv
<1> SUFFICES ASSUME WalletInit PROVE WalletInv
  OBVIOUS
<1>1. \A a \in Accounts: balance[a] \in Nat
  BY WalletAssumption DEF WalletInit
<1>2. balance \in [Accounts -> Int]
  BY <1>1 DEF WalletInit
<1>3. DbType
  BY <1>2, ClosedType DEF WalletInit, DbType
<1>4. Solvent
  BY <1>1 DEF WalletInit, Solvent, Covered, LockedOnly, LockedOnce, ClosedEmpty, Closed
<1>5. Keyed
  BY DEF WalletInit, Keyed, Unique, Distinct, Closed
<1>6. Calls
  BY WalletAssumption DEF WalletInit, Calls, InFlight, PostType, PostAt, Idle
<1>7. Shaped
  BY DEF WalletInit, Shaped, Shape, Idle
<1> QED
  BY <1>3, <1>4, <1>5, <1>6, <1>7 DEF WalletInv

LEMMA WalletInvStep == WalletInv /\ [WalletNext]_walletVars => WalletInv'
<1> SUFFICES ASSUME WalletInv, [WalletNext]_walletVars PROVE WalletInv'
  OBVIOUS
<1>1. Statement
  BY NextIsStatement DEF WalletInv, walletVars, Statement, db
<1> QED
  BY <1>1, DbTypeStep, SolventStep, KeyedStep, CallsStep, ShapedStep DEF WalletInv

LEMMA WalletInvAlways == WalletSpec => []WalletInv
  BY WalletInvInit, WalletInvStep, PTL DEF WalletSpec

-----------------------------------------------------------------------------
(* The theorems. *)

\* Every account, row, transaction and call has its type.
THEOREM WalletTypes == WalletSpec => []WalletTypeOK
<1>1. WalletInv => WalletTypeOK
  BY DEF WalletInv, DbType, Calls, PostType, WalletTypeOK
<1> QED
  BY <1>1, WalletInvAlways, PTL

\* No account of WalletService and CreditsService is overdrawn, for any number
\* of concurrent calls and any number of strayed statements and crashes.
THEOREM NeverOverdrawn == WalletSpec => []NoOverdraft
<1>1. WalletInv => NoOverdraft
  BY DEF WalletInv, Solvent, Covered, NoOverdraft
<1> QED
  BY <1>1, WalletInvAlways, PTL

\* An idempotency key is posted once, under the same conditions.
THEOREM KeysPostedOnce == WalletSpec => []KeyPostedOnce
<1>1. WalletInv => KeyPostedOnce
  BY DEF WalletInv, Keyed, Unique, KeyPostedOnce
<1> QED
  BY <1>1, WalletInvAlways, PTL

LEMMA CommitPosts ==
  ASSUME WalletInv, NEW p \in Procs, PostCommit(p), strays' = 0
  PROVE  \E e \in entries' \ entries: Book!Post(e)
<1> DEFINE e == post[p].entry
<1>1. /\ DbType /\ Calls /\ Shape(p) /\ post[p].at = "commit"
      /\ post[p].conn = p /\ e \in Entry /\ Commit(p)
  BY DEF WalletInv, Shaped, Shape, PostCommit, Calls, InFlight
<1>2. e.account \in Accounts /\ e.amount \in Int
  BY <1>1, WalletAssumption DEF Entry
<1>3. tx[p].rows = {e} /\ tx[p].delta = [Zero EXCEPT ![e.account] = @ + e.amount]
  BY <1>1 DEF Shape
<1>4. entries' = entries \cup {e}
  BY <1>1, <1>3, CommitEffect
<1>5. ~ Book!Posted(e.key) /\ e \notin entries
  BY <1>3 DEF WalletInv, Keyed, Distinct, Book!Posted
<1>6. \A a \in Accounts: tx[p].delta[a] = IF a = e.account THEN e.amount ELSE 0
  BY <1>2, <1>3 DEF Zero
<1>7. balance[e.account] + e.amount >= 0
  BY <1>2, <1>6 DEF WalletInv, Solvent, Covered
<1>8. balance' = [balance EXCEPT ![e.account] = @ + e.amount]
  <2>1. balance' = [a \in Accounts |-> balance[a] + tx[p].delta[a]] /\ balance \in [Accounts -> Int]
    BY <1>1 DEF Commit, DbType
  <2>2. \A a \in Accounts: balance[a] + tx[p].delta[a] =
          IF a = e.account THEN balance[e.account] + e.amount ELSE balance[a]
    BY <1>2, <1>6, <2>1
  <2> QED
    BY <1>2, <2>1, <2>2
<1>9. Book!Post(e)
  BY <1>4, <1>5, <1>7, <1>8 DEF Book!Post
<1> QED
  BY <1>4, <1>5, <1>9

LEMMA StepPosts ==
  ASSUME WalletInv, WalletNext, strays' = 0, <<balance, entries>>' # <<balance, entries>>
  PROVE  \E e \in entries' \ entries: Book!Post(e)
<1>1. ASSUME NEW p \in Procs, PostStep(p) PROVE \E e \in entries' \ entries: Book!Post(e)
  <2>1. DbType /\ Calls /\ strays = 0 /\ Shape(p) /\ post[p].conn = p
    BY <1>1, PostStepEffect DEF WalletInv, Shaped, Shape
  <2>2. CASE PostCommit(p)
    BY <2>2, CommitPosts
  <2>3. CASE PostInsert(p)
    <3>1. tx[p].open
      BY <2>1, <2>3 DEF PostInsert, Shape
    <3> QED
      BY <2>1, <2>3, <3>1 DEF PostInsert, InsertRow
  <2>4. CASE PostUpdate(p)
    <3>1. tx[p].open
      BY <2>1, <2>4 DEF PostUpdate, Shape
    <3> QED
      BY <2>1, <2>4, <3>1 DEF PostUpdate, AddToAccount
  <2>5. CASE PostBegin(p) \/ PostRollback(p)
    BY <2>5 DEF PostBegin, PostRollback, Rollback
  <2> QED
    BY <1>1, <2>2, <2>3, <2>4, <2>5 DEF PostStep
<1>2. ASSUME NEW e \in Entry, PostInCallersTx(e) PROVE \E f \in entries' \ entries: Book!Post(f)
  <2>1. Book!Post(e) /\ e \notin entries /\ e \in entries'
    BY <1>2 DEF PostInCallersTx, Book!Post, Book!Posted
  <2> QED
    BY <2>1
<1>3. ASSUME NEW p \in Procs, CallAny(p) \/ ReturnAny(p) \/ Stray(p) PROVE FALSE
  BY <1>3 DEF CallAny, ReturnAny, Stray
<1>4. CASE WalletCrash
  BY <1>4 DEF WalletCrash
<1> QED
  BY <1>1, <1>2, <1>3, <1>4 DEF WalletNext

\* As long as no statement strayed, every change of the accounts and the
\* ledger rows is one Post of the abstract ledger: movement and row together,
\* for a key that was not posted, from an account that can pay.
THEOREM PostsAreAtomic == WalletSpec => PostIsAtomic
<1>1. WalletInv /\ [WalletNext]_walletVars =>
        [strays' = 0 => \E e \in entries' \ entries: Book!Post(e)]_<<balance, entries>>
  BY StepPosts DEF walletVars
<1> QED
  BY <1>1, WalletInvAlways, PTL DEF WalletSpec, PostIsAtomic

----------------------------------------------------------------------------

CallType == [at: CallAt, ride: Rides \cup {None}, promo: BOOLEAN, amount: 0..Fare]

RideType == [status: {"none", "requested", "completed", "cancelled", "unmatched"},
             credits: 0..Fare, due: 0..Fare, paid: 0..Fare, refunded: BOOLEAN]

\* The part of TypeOK that is not the ledgers'.
RowTypes ==
  /\ ride \in [Rides -> RideType]
  /\ usage \in [Rides -> {"none", "APPLIED", "USED", "VOID"}]
  /\ timesUsed \in Nat
  /\ promoLock \in Procs \cup {None}
  /\ referral \in [Riders -> {"none", "LINKED", "FIRST_RIDE_PENDING", "FIRST_RIDE_COMPLETED",
                              "REWARD_GRANTED"}]
  /\ background \in [Rides -> {"none", "finalize", "referral"}]
  /\ calls \in 0..MaxCalls
  /\ crashes \in 0..MaxFaults

Waiting == {"charging", "awarding", "refunding", "granting"}

\* Only a handler that waits for a post has one under way.
Linked == \A h \in Procs: post[h].at # "idle" => call[h].at \in Waiting

RideKnown == \A h \in Procs: call[h].at \notin {"idle", "granting"} => call[h].ride \in Rides

\* A booking takes at most what is left after the promo.
Afford == \A h \in Procs: call[h].at = "book" => call[h].amount <= Remaining(h)

Callers == call \in [Procs -> CallType] /\ RideKnown /\ Afford

RewardInv == RowTypes /\ WalletInv /\ Callers /\ Linked

-----------------------------------------------------------------------------
(* The entries that are posted. *)

LEMMA RideEntries ==
  ASSUME NEW r \in Rides, NEW a \in 1..Fare
  PROVE  /\ [key |-> <<"ride-applied", r>>, account |-> Credits(r), amount |-> -a] \in Entry
         /\ [key |-> <<"wallet-charge", r>>, account |-> Wallet(r), amount |-> -a] \in Entry
<1>1. -a \in Amounts
  BY RewardsAssumption
<1>2. RiderOf[r] \in Riders /\ Credits(r) \in Accounts /\ Wallet(r) \in Accounts
  BY RewardsAssumption DEF Credits, Wallet
<1>3. <<"ride-applied", r>> \in Keys /\ <<"wallet-charge", r>> \in Keys
  BY RewardsAssumption
<1> QED
  BY <1>1, <1>2, <1>3 DEF Entry

LEMMA RewardEntries ==
  ASSUME NEW r \in Rides, NEW u \in Riders
  PROVE  /\ [key |-> <<"ride-completion-reward", r>>, account |-> Credits(r), amount |-> Award] \in Entry
         /\ Pays => [key |-> <<"referral", u>>, account |-> <<Referrer, "credits">>, amount |-> Bonus] \in Entry
         /\ Pays => [key |-> <<"referred-signup", u>>, account |-> <<u, "credits">>, amount |-> Bonus] \in Entry
<1>1. Award \in Amounts /\ (Pays => Bonus \in Amounts)
  BY RewardsAssumption DEF Pays
<1>2. RiderOf[r] \in Riders /\ Credits(r) \in Accounts /\ <<Referrer, "credits">> \in Accounts
      /\ <<u, "credits">> \in Accounts
  BY RewardsAssumption DEF Credits
<1>3. <<"ride-completion-reward", r>> \in Keys /\ <<"referral", u>> \in Keys
      /\ <<"referred-signup", u>> \in Keys
  BY RewardsAssumption
<1> QED
  BY <1>1, <1>2, <1>3 DEF Entry

LEMMA RefundEntry ==
  ASSUME NEW r \in Rides, NEW e \in Entry
  PROVE  [key |-> <<"ride-refund", r>>, account |-> Credits(r), amount |-> -e.amount] \in Entry
<1>1. -e.amount \in Amounts
  BY RewardsAssumption DEF Entry
<1>2. RiderOf[r] \in Riders /\ Credits(r) \in Accounts
  BY RewardsAssumption DEF Credits
<1>3. <<"ride-refund", r>> \in Keys
  BY RewardsAssumption
<1> QED
  BY <1>1, <1>2, <1>3 DEF Entry

LEMMA GrantEntry ==
  ASSUME NEW g \in Grants, NEW key \in AdminKeys
  PROVE  [key |-> <<g[1][2], key>>, account |-> g[1], amount |-> g[2]] \in Entry
<1>1. g[1] \in Accounts /\ g[2] \in Amounts /\ {g[1][2]} \X AdminKeys \subseteq Keys
  BY RewardsAssumption
<1>2. <<g[1][2], key>> \in {g[1][2]} \X AdminKeys
  OBVIOUS
<1> QED
  BY <1>1, <1>2 DEF Entry

-----------------------------------------------------------------------------
(* What the helpers do to the calls. *)

LEMMA StepEffect ==
  ASSUME Callers, NEW h \in Procs, NEW at \in CallAt, Step(h, at)
  PROVE  /\ call' \in [Procs -> CallType]
         /\ \A g \in Procs \ {h}: call'[g] = call[g]
         /\ call'[h].at = at /\ call'[h].ride = call[h].ride
         /\ call'[h].promo = call[h].promo /\ call'[h].amount = call[h].amount
<1>1. call[h] \in CallType /\ call \in [Procs -> CallType]
  BY DEF Callers
<1>2. call' = [call EXCEPT ![h].at = at]
  BY DEF Step
<1>3. /\ call'[h].at = at /\ call'[h].ride = call[h].ride
      /\ call'[h].promo = call[h].promo /\ call'[h].amount = call[h].amount
      /\ call'[h] \in CallType
  BY <1>1, <1>2 DEF CallType
<1>4. \A g \in Procs \ {h}: call'[g] = call[g]
  BY <1>1, <1>2
<1>5. call' \in [Procs -> CallType]
  BY <1>1, <1>2, <1>3, <1>4
<1> QED
  BY <1>3, <1>4, <1>5

LEMMA SetEffect ==
  ASSUME Callers, NEW h \in Procs, NEW c \in CallType, call' = [call EXCEPT ![h] = c]
  PROVE  /\ call' \in [Procs -> CallType]
         /\ \A g \in Procs \ {h}: call'[g] = call[g]
         /\ call'[h] = c
  BY DEF Callers

LEMMA NoCallType == NoCall \in CallType
<1>1. 0 \in 0..Fare
  BY RewardsAssumption
<1> QED
  BY <1>1 DEF NoCall, Operation, CallType, CallAt

\* A handler that is done, or takes a step that asks no more than the last one.
LEMMA FinishCallers ==
  ASSUME Callers, NEW h \in Procs, Finish(h)
  PROVE  Callers' /\ call'[h] = NoCall /\ \A g \in Procs \ {h}: call'[g] = call[g]
<1>1. /\ call' \in [Procs -> CallType]
      /\ \A g \in Procs \ {h}: call'[g] = call[g]
      /\ call'[h] = NoCall
  BY NoCallType, SetEffect DEF Finish
<1> QED
  BY <1>1 DEF Callers, RideKnown, Afford, Remaining, NoCall, Operation

LEMMA StepCallers ==
  ASSUME Callers, NEW h \in Procs, NEW at \in CallAt \ {"book"}, Step(h, at),
         call[h].at \notin {"idle", "granting"}
  PROVE  Callers' /\ call'[h].at = at /\ \A g \in Procs \ {h}: call'[g] = call[g]
<1>1. /\ call' \in [Procs -> CallType]
      /\ \A g \in Procs \ {h}: call'[g] = call[g]
      /\ call'[h].at = at /\ call'[h].ride = call[h].ride
  BY StepEffect
<1> QED
  BY <1>1 DEF Callers, RideKnown, Afford, Remaining

\* A handler takes an operation on a ride, or a grant.
LEMMA BeginCallers ==
  ASSUME Callers, NEW h \in Procs, NEW c \in CallType, Begin(h, c), calls \in 0..MaxCalls,
         c.at # "book", c.at = "granting" \/ c.ride \in Rides
  PROVE  /\ Callers' /\ calls' \in 0..MaxCalls /\ call[h].at = "idle"
         /\ call'[h] = c /\ \A g \in Procs \ {h}: call'[g] = call[g]
<1>1. /\ call' \in [Procs -> CallType]
      /\ \A g \in Procs \ {h}: call'[g] = call[g]
      /\ call'[h] = c /\ call[h].at = "idle"
  BY SetEffect DEF Begin
<1>2. calls' \in 0..MaxCalls
  BY RewardsAssumption DEF Begin
<1> QED
  BY <1>1, <1>2 DEF Callers, RideKnown, Afford, Remaining

-----------------------------------------------------------------------------
(* A step keeps the invariant's own part and is a step of the ledgers.     *)

Kept == RowTypes' /\ Callers' /\ Linked' /\ [WalletNext]_walletVars

LEMMA LinkedQuiet ==
  ASSUME Linked, NEW h \in Procs, call[h].at \notin Waiting, post' = post,
         \A g \in Procs \ {h}: call'[g] = call[g]
  PROVE  Linked'
  BY DEF Linked

LEMMA LinkedCall ==
  ASSUME Linked, Calls, NEW h \in Procs, NEW e \in Entry, Call(h, e), call'[h].at \in Waiting,
         \A g \in Procs \ {h}: call'[g] = call[g]
  PROVE  Linked'
  BY CallEffect DEF Linked

LEMMA LinkedReturn ==
  ASSUME Linked, Calls, NEW h \in Procs, Return(h), \A g \in Procs \ {h}: call'[g] = call[g]
  PROVE  Linked'
  BY ReturnEffect DEF Linked, Idle

LEMMA RemainingType ==
  ASSUME Callers, NEW h \in Procs PROVE Remaining(h) \in 0..Fare
<1>1. call[h].promo \in BOOLEAN /\ Fare \in Nat /\ Discount \in 0..Fare
  BY RewardsAssumption DEF Callers, CallType
<1> QED
  BY <1>1 DEF Remaining

LEMMA KeepRequestRide ==
  ASSUME RewardInv, NEW h \in Procs, NEW r \in Rides, NEW promo \in BOOLEAN, RequestRide(h, r, promo)
  PROVE  Kept
<1> DEFINE c == [at |-> "apply", ride |-> r, promo |-> promo, amount |-> 0]
<1>1. c \in CallType
  BY RewardsAssumption DEF CallType, CallAt
<1>2. /\ Callers' /\ calls' \in 0..MaxCalls /\ call[h].at = "idle"
      /\ \A g \in Procs \ {h}: call'[g] = call[g]
  BY <1>1, BeginCallers DEF RewardInv, RowTypes, RequestRide
<1>3. RowTypes'
  BY <1>2 DEF RewardInv, RowTypes, RequestRide
<1>4. Linked' /\ UNCHANGED walletVars
  BY <1>2, LinkedQuiet DEF RewardInv, RequestRide, walletVars, Waiting
<1> QED
  BY <1>2, <1>3, <1>4 DEF Kept

LEMMA KeepReadCredits ==
  ASSUME RewardInv, NEW h \in Procs, RequestReadCredits(h) PROVE Kept
<1>1. PICK asked \in {0, Fare}:
        StepWith(h, "book", Min2(asked, Min2(balance[Credits(RideOfCall(h))], Remaining(h))))
  BY DEF RequestReadCredits
<1> DEFINE b == balance[Credits(RideOfCall(h))]
           amount == Min2(asked, Min2(b, Remaining(h)))
           c == [at |-> "book", ride |-> call[h].ride, promo |-> call[h].promo, amount |-> amount]
<1>2. call[h] \in CallType /\ call[h].at = "apply" /\ RideOfCall(h) \in Rides
  BY DEF RewardInv, Callers, RideKnown, RequestReadCredits, RideOfCall
<1>3. Credits(RideOfCall(h)) \in Accounts
  BY <1>2, RewardsAssumption DEF Credits
<1>4. b \in Nat
  BY <1>3 DEF RewardInv, WalletInv, DbType, Solvent, Covered
<1>5. amount \in 0..Fare /\ amount <= Remaining(h)
  <2>1. Remaining(h) \in 0..Fare /\ asked \in Nat
    BY RemainingType, RewardsAssumption DEF RewardInv
  <2> HIDE DEF b
  <2> QED
    BY <1>4, <2>1, RewardsAssumption DEF Min2
<1> HIDE DEF amount, b
<1>6. c \in CallType
  BY <1>2, <1>5 DEF CallType, CallAt
<1>7. /\ call' \in [Procs -> CallType]
      /\ \A g \in Procs \ {h}: call'[g] = call[g]
      /\ call'[h] = c
  BY <1>1, <1>6, SetEffect DEF StepWith, RewardInv, amount, b
<1>8. Callers'
  BY <1>2, <1>5, <1>7 DEF RewardInv, Callers, RideKnown, Afford, Remaining, RideOfCall
<1>9. RowTypes' /\ Linked' /\ UNCHANGED walletVars
  BY <1>2, <1>7, LinkedQuiet DEF RewardInv, RowTypes, RequestReadCredits, walletVars, Waiting
<1> QED
  BY <1>8, <1>9 DEF Kept

LEMMA KeepRequestCommit ==
  ASSUME RewardInv, NEW h \in Procs, RequestCommit(h) PROVE Kept
<1> DEFINE r == RideOfCall(h)
           amount == call[h].amount
           e == [key |-> <<"ride-applied", r>>, account |-> Credits(r), amount |-> -amount]
           row == [status |-> "requested", credits |-> amount, due |-> DueAfter(h),
                   paid |-> 0, refunded |-> FALSE]
<1>1. call[h] \in CallType /\ call[h].at = "book" /\ r \in Rides /\ amount <= Remaining(h)
  BY DEF RewardInv, Callers, RideKnown, Afford, RequestCommit, RideOfCall
<1>2. amount \in 0..Fare /\ Remaining(h) \in 0..Fare
  BY <1>1, RemainingType DEF RewardInv, CallType
<1>3. DueAfter(h) \in 0..Fare
  BY <1>1, <1>2, RewardsAssumption DEF DueAfter
<1>4. row \in RideType
  BY <1>2, <1>3, RewardsAssumption DEF RideType
<1>5. Callers' /\ \A g \in Procs \ {h}: call'[g] = call[g]
  BY <1>1, StepCallers DEF RewardInv, RequestCommit, CallAt
<1>6. [WalletNext]_walletVars /\ post' = post
  <2>1. CASE amount = 0
    BY <2>1 DEF RequestCommit, walletVars
  <2>2. CASE amount > 0
    <3>1. e \in Entry
      <4>1. amount \in 1..Fare
        BY <1>2, <2>2, RewardsAssumption
      <4> QED
        BY <1>1, <4>1, RideEntries
    <3>2. PostInCallersTx(e)
      BY <1>2, <2>2 DEF RequestCommit
    <3> HIDE DEF e
    <3> QED
      BY <3>1, <3>2 DEF WalletNext, PostInCallersTx
  <2> QED
    BY <1>2, <2>1, <2>2
<1>7. RowTypes'
  <2>1. ride' = [ride EXCEPT ![r] = row]
    BY DEF RequestCommit
  <2>2. usage' \in [Rides -> {"none", "APPLIED", "USED", "VOID"}]
    BY <1>1 DEF RewardInv, RowTypes, RequestCommit
  <2>3. promoLock' \in Procs \cup {None}
    BY DEF RewardInv, RowTypes, RequestCommit, FreePromo
  <2>4. ride' \in [Rides -> RideType]
    <3> HIDE DEF row
    <3> QED
      BY <1>4, <2>1 DEF RewardInv, RowTypes
  <2> QED
    BY <2>2, <2>3, <2>4 DEF RewardInv, RowTypes, RequestCommit
<1>8. Linked'
  BY <1>1, <1>5, <1>6, LinkedQuiet DEF RewardInv, Waiting
<1> QED
  BY <1>5, <1>6, <1>7, <1>8 DEF Kept

LEMMA KeepRollbackMark ==
  ASSUME RewardInv, NEW h \in Procs, RequestRollback(h) \/ RequestMark(h) PROVE Kept
<1>1. call[h].at \in {"book", "mark"} /\ Finish(h) /\ UNCHANGED walletVars
  BY DEF RequestRollback, RequestMark
<1>2. Callers' /\ \A g \in Procs \ {h}: call'[g] = call[g]
  BY <1>1, FinishCallers DEF RewardInv
<1>3. Linked'
  BY <1>1, <1>2, LinkedQuiet DEF RewardInv, Waiting, walletVars
<1>4. RowTypes'
  <2>1. promoLock' \in Procs \cup {None}
    BY DEF RewardInv, RowTypes, RequestRollback, RequestMark, FreePromo
  <2>2. referral' \in [Riders -> {"none", "LINKED", "FIRST_RIDE_PENDING", "FIRST_RIDE_COMPLETED",
                                  "REWARD_GRANTED"}]
    BY DEF RewardInv, RowTypes, RequestRollback, RequestMark
  <2> QED
    BY <2>1, <2>2 DEF RewardInv, RowTypes, RequestRollback, RequestMark
<1> QED
  BY <1>1, <1>2, <1>3, <1>4 DEF Kept

LEMMA KeepCompleteCancel ==
  ASSUME RewardInv, NEW h \in Procs, NEW r \in Rides, CompleteRide(h, r) \/ CancelRide(h, r)
  PROVE  Kept
<1>1. PICK at \in {"charge", "award", "void"}: Begin(h, Operation(at, r))
  <2>1. CASE CompleteRide(h, r)
    BY <2>1 DEF CompleteRide
  <2>2. CASE CancelRide(h, r)
    BY <2>2 DEF CancelRide
  <2> QED
    BY <2>1, <2>2
<1> DEFINE c == Operation(at, r)
<1>2. c \in CallType /\ c.at = at /\ c.ride = r
  BY RewardsAssumption DEF CallType, CallAt, Operation
<1>3. /\ Callers' /\ calls' \in 0..MaxCalls /\ call[h].at = "idle"
      /\ \A g \in Procs \ {h}: call'[g] = call[g]
  BY <1>1, <1>2, BeginCallers DEF RewardInv, RowTypes
<1>4. RowTypes'
  <2>1. PICK status \in {"completed", "cancelled"}: ride' = [ride EXCEPT ![r].status = status]
    BY DEF CompleteRide, CancelRide
  <2>2. ride' \in [Rides -> RideType]
    BY <2>1 DEF RewardInv, RowTypes, RideType
  <2>3. background' \in [Rides -> {"none", "finalize", "referral"}]
    BY DEF RewardInv, RowTypes, CompleteRide, CancelRide
  <2> QED
    BY <1>3, <2>2, <2>3 DEF RewardInv, RowTypes, CompleteRide, CancelRide
<1>5. Linked' /\ UNCHANGED walletVars
  BY <1>3, LinkedQuiet DEF RewardInv, CompleteRide, CancelRide, walletVars, Waiting
<1> QED
  BY <1>3, <1>4, <1>5 DEF Kept

\* A step of call h that takes h's post or starts one.
LEMMA LedgerStep ==
  ASSUME RewardInv, NEW h \in Procs,
         \/ UNCHANGED walletVars /\ call[h].at \notin Waiting
         \/ /\ UNCHANGED <<balance, entries, tx, strays>>
            /\ call[h].at \notin Waiting /\ call'[h].at \in Waiting
            /\ \E e \in Entry: Call(h, e)
         \/ /\ UNCHANGED <<balance, entries, tx, strays>>
            /\ post[h].at \in {"applied", "refused"} /\ Return(h),
         \A g \in Procs \ {h}: call'[g] = call[g]
  PROVE  Linked' /\ [WalletNext]_walletVars
<1>1. CASE UNCHANGED walletVars /\ call[h].at \notin Waiting
  BY <1>1, LinkedQuiet DEF walletVars, RewardInv
<1>2. ASSUME UNCHANGED <<balance, entries, tx, strays>>, call[h].at \notin Waiting,
             call'[h].at \in Waiting, NEW e \in Entry, Call(h, e)
      PROVE  Linked' /\ [WalletNext]_walletVars
  <2>1. post[h].at = "idle"
    BY <1>2 DEF RewardInv, Linked
  <2>2. CallAny(h)
    BY <1>2, <2>1 DEF CallAny
  <2>3. Linked'
    BY <1>2, LinkedCall DEF RewardInv, WalletInv
  <2> QED
    BY <2>2, <2>3 DEF WalletNext
<1>3. CASE /\ UNCHANGED <<balance, entries, tx, strays>>
           /\ post[h].at \in {"applied", "refused"} /\ Return(h)
  <2>1. ReturnAny(h)
    BY <1>3 DEF ReturnAny
  <2>2. Linked'
    BY <1>3, LinkedReturn DEF RewardInv, WalletInv
  <2> QED
    BY <2>1, <2>2 DEF WalletNext
<1> QED
  BY <1>1, <1>2, <1>3

LEMMA ToAwardEffect ==
  ASSUME RewardInv, NEW h \in Procs, ToAward(h), call[h].at \notin {"idle", "granting"}
  PROVE  /\ Callers' /\ \A g \in Procs \ {h}: call'[g] = call[g]
         /\ background' \in [Rides -> {"none", "finalize", "referral"}]
<1>1. Callers' /\ \A g \in Procs \ {h}: call'[g] = call[g]
  BY StepCallers DEF ToAward, RewardInv, CallAt
<1> QED
  BY <1>1 DEF ToAward, RewardInv, RowTypes

LEMMA KeepChargeRead ==
  ASSUME RewardInv, NEW h \in Procs, ChargeRead(h) PROVE Kept
<1> DEFINE r == RideOfCall(h)
           amount == Min2(ride[r].due, balance[Wallet(r)])
           c == [at |-> "charging", ride |-> call[h].ride, promo |-> call[h].promo, amount |-> amount]
<1>1. call[h] \in CallType /\ call[h].at = "charge" /\ r \in Rides
  BY DEF RewardInv, Callers, RideKnown, ChargeRead, RideOfCall
<1>2. amount \in 0..Fare
  <2>1. ride[r].due \in 0..Fare
    BY <1>1 DEF RewardInv, RowTypes, RideType
  <2>2. balance[Wallet(r)] \in Nat
    BY <1>1, RewardsAssumption DEF Wallet, RewardInv, WalletInv, DbType, Solvent, Covered
  <2> QED
    BY <2>1, <2>2, RewardsAssumption DEF Min2
<1>3. CASE amount = 0 /\ ToAward(h) /\ UNCHANGED post
  <2>1. /\ Callers' /\ \A g \in Procs \ {h}: call'[g] = call[g]
        /\ background' \in [Rides -> {"none", "finalize", "referral"}]
    BY <1>1, <1>3, ToAwardEffect
  <2>2. UNCHANGED walletVars /\ call[h].at \notin Waiting
    BY <1>1, <1>3 DEF ChargeRead, walletVars, Waiting
  <2>3. Linked' /\ [WalletNext]_walletVars
    BY <2>1, <2>2, LedgerStep
  <2>4. RowTypes'
    BY <2>1 DEF ChargeRead, RewardInv, RowTypes
  <2> QED
    BY <2>1, <2>3, <2>4 DEF Kept
<1>4. CASE /\ amount > 0 /\ StepWith(h, "charging", amount) /\ UNCHANGED background
           /\ Call(h, [key |-> <<"wallet-charge", r>>, account |-> Wallet(r), amount |-> -amount])
  <2> HIDE DEF amount
  <2>1. c \in CallType
    BY <1>1, <1>2 DEF CallType, CallAt
  <2>2. /\ call' \in [Procs -> CallType]
        /\ \A g \in Procs \ {h}: call'[g] = call[g]
        /\ call'[h] = c
    BY <1>4, <2>1, SetEffect DEF StepWith, RewardInv
  <2>3. Callers'
    BY <1>1, <2>2 DEF RewardInv, Callers, RideKnown, Afford, Remaining, RideOfCall
  <2>4. [key |-> <<"wallet-charge", r>>, account |-> Wallet(r), amount |-> -amount] \in Entry
    <3>1. amount \in 1..Fare
      BY <1>2, <1>4, RewardsAssumption
    <3> QED
      BY <1>1, <3>1, RideEntries
  <2>5. /\ UNCHANGED <<balance, entries, tx, strays>>
        /\ call[h].at \notin Waiting /\ call'[h].at \in Waiting
        /\ \E e \in Entry: Call(h, e)
    BY <1>1, <1>4, <2>2, <2>4 DEF ChargeRead, Waiting
  <2>6. Linked' /\ [WalletNext]_walletVars
    BY <2>2, <2>5, LedgerStep
  <2>7. RowTypes'
    BY <1>4 DEF ChargeRead, RewardInv, RowTypes
  <2> QED
    BY <2>3, <2>6, <2>7 DEF Kept
<1> QED
  BY <1>3, <1>4 DEF ChargeRead

LEMMA KeepChargeDone ==
  ASSUME RewardInv, NEW h \in Procs, ChargeDone(h) PROVE Kept
<1>1. /\ call[h].at = "charging" /\ Return(h) /\ UNCHANGED <<balance, entries, tx, strays>>
      /\ post[h].at \in {"applied", "refused"}
  BY DEF ChargeDone
<1>2. /\ Callers' /\ \A g \in Procs \ {h}: call'[g] = call[g]
      /\ background' \in [Rides -> {"none", "finalize", "referral"}]
  <2>1. CASE ToAward(h)
    BY <1>1, <2>1, ToAwardEffect
  <2>2. CASE Step(h, "record") /\ UNCHANGED background
    BY <1>1, <2>2, StepCallers DEF RewardInv, RowTypes, CallAt
  <2> QED
    BY <2>1, <2>2 DEF ChargeDone
<1>3. Linked' /\ [WalletNext]_walletVars
  BY <1>1, <1>2, LedgerStep
<1>4. RowTypes'
  BY <1>2 DEF ChargeDone, RewardInv, RowTypes
<1> QED
  BY <1>2, <1>3, <1>4 DEF Kept

LEMMA KeepChargeRecord ==
  ASSUME RewardInv, NEW h \in Procs, ChargeRecord(h) PROVE Kept
<1>1. /\ call[h].at = "record" /\ RideOfCall(h) \in Rides /\ call[h].amount \in 0..Fare
      /\ ToAward(h) /\ UNCHANGED walletVars
  BY DEF ChargeRecord, RewardInv, Callers, RideKnown, RideOfCall, CallType
<1>2. /\ Callers' /\ \A g \in Procs \ {h}: call'[g] = call[g]
      /\ background' \in [Rides -> {"none", "finalize", "referral"}]
  BY <1>1, ToAwardEffect
<1>3. Linked' /\ [WalletNext]_walletVars
  BY <1>1, <1>2, LedgerStep DEF Waiting
<1>4. ride' \in [Rides -> RideType]
  BY <1>1 DEF ChargeRecord, RewardInv, RowTypes, RideType
<1>5. RowTypes'
  BY <1>2, <1>4 DEF ChargeRecord, RewardInv, RowTypes
<1> QED
  BY <1>2, <1>3, <1>5 DEF Kept

LEMMA KeepAwardPost ==
  ASSUME RewardInv, NEW h \in Procs, AwardPost(h) PROVE Kept
<1> DEFINE r == RideOfCall(h)
<1>1. call[h].at = "award" /\ r \in Rides /\ Step(h, "awarding")
  BY DEF AwardPost, RewardInv, Callers, RideKnown, RideOfCall
<1>2. Callers' /\ call'[h].at = "awarding" /\ \A g \in Procs \ {h}: call'[g] = call[g]
  BY <1>1, StepCallers DEF RewardInv, CallAt
<1>3. [key |-> <<"ride-completion-reward", r>>, account |-> Credits(r), amount |-> Award] \in Entry
  BY <1>1, RewardEntries, RewardsAssumption
<1>4. /\ UNCHANGED <<balance, entries, tx, strays>>
      /\ call[h].at \notin Waiting /\ call'[h].at \in Waiting
      /\ \E e \in Entry: Call(h, e)
  BY <1>1, <1>2, <1>3 DEF AwardPost, Waiting
<1>5. Linked' /\ [WalletNext]_walletVars
  BY <1>2, <1>4, LedgerStep
<1>6. RowTypes'
  BY DEF AwardPost, RewardInv, RowTypes
<1> QED
  BY <1>2, <1>5, <1>6 DEF Kept

LEMMA KeepAwardDone ==
  ASSUME RewardInv, NEW h \in Procs, AwardDone(h) PROVE Kept
<1>1. /\ UNCHANGED <<balance, entries, tx, strays>>
      /\ post[h].at \in {"applied", "refused"} /\ Return(h) /\ Finish(h)
  BY DEF AwardDone
<1>2. Callers' /\ \A g \in Procs \ {h}: call'[g] = call[g]
  BY <1>1, FinishCallers DEF RewardInv
<1>3. Linked' /\ [WalletNext]_walletVars
  BY <1>1, <1>2, LedgerStep
<1>4. RowTypes'
  BY DEF AwardDone, RewardInv, RowTypes
<1> QED
  BY <1>2, <1>3, <1>4 DEF Kept

LEMMA KeepBackground ==
  ASSUME RewardInv, NEW r \in Rides, Task(r) PROVE Kept
<1>1. call' = call /\ Callers'
  BY DEF Task, FinalizePromo, ReferralReward, MatcherCancel, RewardInv, Callers, RideKnown, Afford, Remaining
<1>2. CASE FinalizePromo(r)
  <2>1. RowTypes'
    BY <1>2 DEF FinalizePromo, RewardInv, RowTypes
  <2>2. UNCHANGED walletVars /\ Linked'
    BY <1>1, <1>2 DEF FinalizePromo, RewardInv, Linked, walletVars
  <2> QED
    BY <1>1, <2>1, <2>2 DEF Kept
<1>3. CASE ReferralReward(r)
  <2> DEFINE e == [key |-> <<"referral", RiderOf[r]>>, account |-> <<Referrer, "credits">>,
                   amount |-> Bonus]
  <2>1. RowTypes'
    BY <1>3 DEF ReferralReward, RewardInv, RowTypes
  <2>2. UNCHANGED walletVars \/ (Pays /\ PostInCallersTx(e))
    BY <1>3 DEF ReferralReward
  <2>3. Pays => e \in Entry
    BY RewardEntries, RewardsAssumption
  <2> HIDE DEF e
  <2>4. post' = post
    BY <2>2 DEF walletVars, PostInCallersTx
  <2>5. Linked'
    BY <1>1, <2>4 DEF RewardInv, Linked
  <2> QED
    BY <1>1, <2>1, <2>2, <2>3, <2>5 DEF Kept, WalletNext
<1>4. CASE MatcherCancel(r)
  <2>1. ride' \in [Rides -> RideType]
    BY <1>4 DEF MatcherCancel, RewardInv, RowTypes, RideType
  <2>2. RowTypes'
    BY <1>4, <2>1 DEF MatcherCancel, RewardInv, RowTypes
  <2>3. UNCHANGED walletVars /\ Linked'
    BY <1>1, <1>4 DEF MatcherCancel, RewardInv, Linked, walletVars
  <2> QED
    BY <1>1, <2>2, <2>3 DEF Kept
<1> QED
  BY <1>2, <1>3, <1>4 DEF Task

LEMMA KeepScanReferral ==
  ASSUME RewardInv, NEW u \in Riders, ScanReferral(u) PROVE Kept
<1> DEFINE e == [key |-> <<"referred-signup", u>>, account |-> <<u, "credits">>, amount |-> Bonus]
<1>1. call' = call /\ Callers'
  BY DEF ScanReferral, RewardInv, Callers, RideKnown, Afford, Remaining
<1>2. Pays => e \in Entry
  <2>1. /\ Pays => Bonus \in Amounts
        /\ <<u, "credits">> \in Accounts /\ <<"referred-signup", u>> \in Keys
    BY RewardsAssumption DEF Pays
  <2> QED
    BY <2>1 DEF Entry
<1>3. UNCHANGED walletVars \/ (Pays /\ PostInCallersTx(e))
  BY DEF ScanReferral
<1>4. RowTypes'
  BY DEF ScanReferral, RewardInv, RowTypes
<1> HIDE DEF e
<1>5. Linked'
  BY <1>1, <1>3 DEF PostInCallersTx, RewardInv, Linked, walletVars
<1> QED
  BY <1>1, <1>2, <1>3, <1>4, <1>5 DEF Kept, WalletNext

LEMMA KeepCancelVoid ==
  ASSUME RewardInv, NEW h \in Procs, CancelVoid(h) PROVE Kept
<1>1. call[h].at = "void" /\ Step(h, "refund") /\ UNCHANGED walletVars
  BY DEF CancelVoid
<1>2. Callers' /\ \A g \in Procs \ {h}: call'[g] = call[g]
  BY <1>1, StepCallers DEF RewardInv, CallAt
<1>3. Linked' /\ [WalletNext]_walletVars
  BY <1>1, <1>2, LedgerStep DEF Waiting
<1>4. RowTypes'
  BY DEF CancelVoid, RewardInv, RowTypes
<1> QED
  BY <1>2, <1>3, <1>4 DEF Kept

LEMMA KeepCancelRefund ==
  ASSUME RewardInv, NEW h \in Procs, CancelRefund(h) PROVE Kept
<1> DEFINE r == RideOfCall(h)
<1>1. call[h].at = "refund" /\ r \in Rides
  BY DEF CancelRefund, RewardInv, Callers, RideKnown, RideOfCall
<1>2. RowTypes'
  BY DEF CancelRefund, RewardInv, RowTypes
<1>3. CASE Finish(h) /\ UNCHANGED post
  <2>1. Callers' /\ \A g \in Procs \ {h}: call'[g] = call[g]
    BY <1>3, FinishCallers DEF RewardInv
  <2>2. Linked' /\ [WalletNext]_walletVars
    BY <1>1, <1>3, <2>1, LedgerStep DEF Waiting, CancelRefund, walletVars
  <2> QED
    BY <1>2, <2>1, <2>2 DEF Kept
<1>4. ASSUME NEW e \in entries, Step(h, "refunding"),
             Call(h, [key |-> <<"ride-refund", r>>, account |-> Credits(r), amount |-> -e.amount])
      PROVE  Kept
  <2>1. Callers' /\ call'[h].at = "refunding" /\ \A g \in Procs \ {h}: call'[g] = call[g]
    BY <1>1, <1>4, StepCallers DEF RewardInv, CallAt
  <2>2. e \in Entry
    BY DEF RewardInv, WalletInv, DbType
  <2>3. [key |-> <<"ride-refund", r>>, account |-> Credits(r), amount |-> -e.amount] \in Entry
    BY <1>1, <2>2, RefundEntry
  <2>4. /\ UNCHANGED <<balance, entries, tx, strays>>
        /\ call[h].at \notin Waiting /\ call'[h].at \in Waiting
        /\ \E f \in Entry: Call(h, f)
    BY <1>1, <1>4, <2>1, <2>3 DEF CancelRefund, Waiting
  <2>5. Linked' /\ [WalletNext]_walletVars
    BY <2>1, <2>4, LedgerStep
  <2> QED
    BY <1>2, <2>1, <2>5 DEF Kept
<1> QED
  BY <1>3, <1>4 DEF CancelRefund

LEMMA KeepCancelStamp ==
  ASSUME RewardInv, NEW h \in Procs, CancelStamp(h) PROVE Kept
<1>1. /\ UNCHANGED <<balance, entries, tx, strays>>
      /\ post[h].at \in {"applied", "refused"} /\ Return(h) /\ Finish(h)
  BY DEF CancelStamp
<1>2. Callers' /\ \A g \in Procs \ {h}: call'[g] = call[g]
  BY <1>1, FinishCallers DEF RewardInv
<1>3. Linked' /\ [WalletNext]_walletVars
  BY <1>1, <1>2, LedgerStep
<1>4. ride' \in [Rides -> RideType]
  BY DEF CancelStamp, RewardInv, RowTypes, RideType
<1>5. RowTypes'
  BY <1>4 DEF CancelStamp, RewardInv, RowTypes
<1> QED
  BY <1>2, <1>3, <1>5 DEF Kept

LEMMA KeepAdminGrant ==
  ASSUME RewardInv, NEW h \in Procs, NEW g \in Grants, NEW key \in AdminKeys,
         AdminGrant(h, g[1], g[2], key)
  PROVE  Kept
<1> DEFINE c == Operation("granting", None)
           e == [key |-> <<g[1][2], key>>, account |-> g[1], amount |-> g[2]]
<1>1. c \in CallType /\ c.at = "granting"
  BY RewardsAssumption DEF CallType, CallAt, Operation
<1>2. Begin(h, c) /\ Call(h, e) /\ UNCHANGED <<balance, entries, tx, strays>>
  BY DEF AdminGrant
<1>3. /\ Callers' /\ calls' \in 0..MaxCalls /\ call[h].at = "idle"
      /\ call'[h] = c /\ \A k \in Procs \ {h}: call'[k] = call[k]
  BY <1>1, <1>2, BeginCallers DEF RewardInv, RowTypes
<1>4. e \in Entry
  BY GrantEntry
<1> HIDE DEF e, c
<1>5. Linked' /\ [WalletNext]_walletVars
  BY <1>1, <1>2, <1>3, <1>4, LedgerStep DEF Waiting
<1>6. RowTypes'
  BY <1>3 DEF AdminGrant, RewardInv, RowTypes
<1> QED
  BY <1>3, <1>5, <1>6 DEF Kept

LEMMA KeepPosting ==
  ASSUME RewardInv, NEW h \in Procs, PostStep(h) \/ Stray(h), UNCHANGED rewardVars PROVE Kept
<1>1. RowTypes' /\ Callers' /\ call' = call
  BY DEF RewardInv, RowTypes, Callers, RideKnown, Afford, Remaining, rewardVars
<1>2. post[h].at # "idle" /\ \A g \in Procs \ {h}: post'[g] = post[g]
  <2>1. CASE PostStep(h)
    BY <2>1, PostStepEffect, GotoEffect DEF RewardInv, WalletInv, PostAt
  <2>2. CASE Stray(h)
    BY <2>2 DEF Stray, RewardInv, WalletInv, Calls
  <2> QED
    BY <2>1, <2>2
<1>3. Linked'
  BY <1>1, <1>2 DEF RewardInv, Linked
<1> QED
  BY <1>1, <1>3 DEF Kept, WalletNext

LEMMA KeepCrash == RewardInv /\ Crash => Kept
<1> SUFFICES ASSUME RewardInv, Crash PROVE Kept
  OBVIOUS
<1>1. call' = [h \in Procs |-> NoCall] /\ WalletCrash
  BY DEF Crash
<1>2. call' \in [Procs -> CallType] /\ \A h \in Procs: call'[h].at = "idle"
  BY <1>1, NoCallType DEF NoCall, Operation
<1>3. Callers'
  BY <1>2 DEF Callers, RideKnown, Afford
<1>4. Linked'
  BY <1>1 DEF WalletCrash, Linked, Idle
<1>5. crashes' \in 0..MaxFaults
  BY RewardsAssumption DEF Crash, RewardInv, RowTypes, WalletInv, Calls
<1>6. RowTypes'
  BY <1>5 DEF Crash, RewardInv, RowTypes
<1> QED
  BY <1>1, <1>3, <1>4, <1>6 DEF Kept, WalletNext

LEMMA KeepNext == RewardInv /\ [Next]_vars => Kept
<1> SUFFICES ASSUME RewardInv, [Next]_vars PROVE Kept
  OBVIOUS
<1>1. ASSUME NEW h \in Procs, Working(h) PROVE Kept
  BY <1>1, KeepReadCredits, KeepRequestCommit, KeepRollbackMark, KeepChargeRead, KeepChargeDone,
     KeepChargeRecord, KeepAwardPost, KeepAwardDone, KeepCancelVoid, KeepCancelRefund,
     KeepCancelStamp, KeepPosting DEF Working, Posting
<1>2. ASSUME NEW h \in Procs, NEW r \in Rides,
             (\E promo \in BOOLEAN: RequestRide(h, r, promo)) \/ CompleteRide(h, r) \/ CancelRide(h, r)
      PROVE  Kept
  BY <1>2, KeepRequestRide, KeepCompleteCancel
<1>3. ASSUME NEW h \in Procs, NEW g \in Grants, NEW key \in AdminKeys, AdminGrant(h, g[1], g[2], key)
      PROVE  Kept
  BY <1>3, KeepAdminGrant
<1>4. ASSUME NEW h \in Procs, Stray(h), UNCHANGED rewardVars PROVE Kept
  BY <1>4, KeepPosting
<1>5. ASSUME NEW r \in Rides, Task(r) PROVE Kept
  BY <1>5, KeepBackground
<1>6. ASSUME NEW u \in Riders, ScanReferral(u) PROVE Kept
  BY <1>6, KeepScanReferral
<1>7. CASE Crash
  BY <1>7, KeepCrash
<1>8. CASE UNCHANGED vars
  BY <1>8 DEF vars, walletVars, rewardVars, Kept, RewardInv, RowTypes, Callers, RideKnown, Afford,
              Remaining, Linked
<1> QED
  BY <1>1, <1>2, <1>3, <1>4, <1>5, <1>6, <1>7, <1>8 DEF Next

LEMMA RewardInvInit == Init => RewardInv
<1> SUFFICES ASSUME Init PROVE RewardInv
  OBVIOUS
<1>1. WalletInv
  BY WalletInvInit DEF Init
<1>2. NoRide \in RideType /\ PastRide \in RideType
  BY RewardsAssumption DEF NoRide, PastRide, Row, RideType
<1>3. ride \in [Rides -> RideType]
  BY <1>2 DEF Init
<1>4. 0 \in 0..MaxCalls /\ 0 \in 0..MaxFaults
  BY RewardsAssumption
<1>5. RowTypes
  BY <1>3, <1>4 DEF Init, RowTypes
<1>6. call \in [Procs -> CallType] /\ \A h \in Procs: call[h].at = "idle"
  BY NoCallType DEF Init, NoCall, Operation
<1>7. Callers
  BY <1>6 DEF Callers, RideKnown, Afford
<1>8. Linked
  BY DEF Init, WalletInit, Linked, Idle
<1> QED
  BY <1>1, <1>5, <1>7, <1>8 DEF RewardInv

LEMMA RewardInvStep == RewardInv /\ [Next]_vars => RewardInv' /\ [WalletNext]_walletVars
  BY KeepNext, WalletInvStep DEF RewardInv, Kept

LEMMA RewardInvAlways == Spec => []RewardInv
  BY RewardInvInit, RewardInvStep, PTL DEF Spec

-----------------------------------------------------------------------------
(* The theorems. *)

\* Every row, call and background task around a ride has its type, whatever
\* the handlers interleave: in particular no amount taken exceeds the fare and
\* none is negative.
THEOREM RewardsTypes == Spec => []TypeOK
<1>1. RewardInv => TypeOK
  <2>1. WalletInv => WalletTypeOK
    BY DEF WalletInv, DbType, Calls, PostType, WalletTypeOK
  <2> QED
    BY <2>1 DEF RewardInv, RowTypes, Callers, CallType, RideType, TypeOK
<1> QED
  BY <1>1, RewardInvAlways, PTL

\* Booking, completion, cancellation, referrals and grants use the ledgers as
\* their service allows: Rewards implements Wallet.
THEOREM RewardsUseTheLedgers == Spec => WalletSpec
<1>1. Init => WalletInit
  BY DEF Init
<1>2. RewardInv /\ [Next]_vars => [WalletNext]_walletVars
  BY RewardInvStep
<1> QED
  BY <1>1, <1>2, RewardInvAlways, PTL DEF Spec, WalletSpec

\* So no wallet and no credit account is overdrawn by any of them,
THEOREM RidersNeverOverdrawn == Spec => []NoOverdraft
  BY RewardsUseTheLedgers, NeverOverdrawn

\* no key is posted twice,
THEOREM RewardsPostedOnce == Spec => []KeyPostedOnce
  BY RewardsUseTheLedgers, KeysPostedOnce

\* and every movement is one Post of the abstract ledger as long as no
\* statement strays.
THEOREM RewardsPostAtomically == Spec => PostIsAtomic
  BY RewardsUseTheLedgers, PostsAreAtomic

-----------------------------------------------------------------------------
(* The stages of an operation: what a handler at work knows of its ride.   *)

Booking == {"apply", "book"}

\* A completion that may still charge the wallet.
Paying == {"charge", "charging", "record"}

Completing == Paying \cup {"award", "awarding"}

Cancelling == {"void", "refund", "refunding"}

Live == {"APPLIED", "USED"}

\* A ride is booked by one handler, completed by one and cancelled by one, and
\* its status does not move under them.
StagesInv ==
  /\ \A h \in Procs:
       LET r == call[h].ride IN
       /\ call[h].at \in Booking => ride[r].status = "none"
       /\ call[h].at \in Completing => ride[r].status = "completed"
       /\ call[h].at \in Cancelling => ride[r].status = "cancelled"
  /\ \A g, h \in Procs:
       call[g].at \in Booking /\ call[h].at \in Booking
         /\ RiderOf[call[g].ride] = RiderOf[call[h].ride] => g = h
  /\ \A g, h \in Procs:
       call[g].at \in Paying /\ call[h].at \in Paying /\ call[g].ride = call[h].ride => g = h
  /\ \A r \in Rides: background[r] # "none" => ride[r].status = "completed"

Used == {r \in Rides: usage[r] = "USED"}

\* The handler that holds the promo row books with the code, for a rider who
\* has no live use of it.
PromoInv ==
  /\ \A h \in Procs: call[h].at \in Booking /\ call[h].promo <=> promoLock = h
  /\ \A h \in Procs, s \in Rides:
       promoLock = h /\ RiderOf[s] = RiderOf[call[h].ride] => usage[s] \in {"none", "VOID"}
  /\ \A r \in Rides: usage[r] # "none" => ride[r].status # "none"
  /\ \A r \in Rides: usage[r] = "USED" => ride[r].status = "completed"
  /\ \A r, s \in Rides: r # s /\ RiderOf[r] = RiderOf[s] => ~ {usage[r], usage[s]} \subseteq Live
  /\ IsFiniteSet(Used) /\ timesUsed = Cardinality(Used)

\* Credits and due of a ride make up the fare less a live promo at most.
AmountInv ==
  \A r \in Rides: ride[r].status # "none" =>
     ride[r].credits + ride[r].due <= Fare - (IF usage[r] \in Live THEN Discount ELSE 0)

LocalInv == StagesInv /\ PromoInv /\ AmountInv

\* Only handler h moves.
Turn(h) == \A g \in Procs \ {h}: call'[g] = call[g]

SameRow(s) ==
  /\ ride'[s].status = ride[s].status
  /\ ride'[s].credits = ride[s].credits /\ ride'[s].due = ride[s].due

\* Handler h goes on with what it is doing, or is done with it.
GoesOn(h) ==
  \/ call'[h].at \in {"idle", "mark", "granting"}
  \/ /\ call'[h].ride = call[h].ride /\ call'[h].promo = call[h].promo
     /\ \/ call[h].at \in Booking /\ call'[h].at \in Booking
        \/ call[h].at \in Paying /\ call'[h].at \in Completing
        \/ call[h].at \in Completing /\ call'[h].at \in {"award", "awarding"}
        \/ call[h].at \in Cancelling /\ call'[h].at \in Cancelling

\* A step of a handler that neither begins nor ends a booking and leaves the
\* status, the amounts and the promo of every ride alone.
LEMMA KeepsLocal ==
  ASSUME RewardInv, LocalInv, NEW h \in Procs, Turn(h), GoesOn(h),
         call[h].at \in Booking => call'[h].at \in Booking,
         UNCHANGED <<usage, timesUsed, promoLock>>, \A s \in Rides: SameRow(s),
         \A s \in Rides: background'[s] # "none" =>
           background[s] # "none" \/ (call[h].at \in Completing /\ s = call[h].ride)
  PROVE  LocalInv'
<1>0. RideKnown /\ \A g \in Procs: call[g].at \in Booking \cup Completing \cup Cancelling => call[g].ride \in Rides
  BY DEF RewardInv, Callers, RideKnown, Booking, Completing, Paying, Cancelling
<1>1. /\ \A g \in Procs: call'[g].at \in Booking =>
            call[g].at \in Booking /\ call'[g].ride = call[g].ride /\ call'[g].promo = call[g].promo
      /\ \A g \in Procs: call'[g].at \in Paying => call[g].at \in Paying /\ call'[g].ride = call[g].ride
      /\ \A g \in Procs: call'[g].at \in Completing => call[g].at \in Completing /\ call'[g].ride = call[g].ride
      /\ \A g \in Procs: call'[g].at \in Cancelling => call[g].at \in Cancelling /\ call'[g].ride = call[g].ride
  BY DEF Turn, GoesOn, Booking, Paying, Completing, Cancelling
<1>2. \A g \in Procs: call[g].at \in Booking =>
        call'[g].at \in Booking /\ call'[g].ride = call[g].ride /\ call'[g].promo = call[g].promo
  BY DEF Turn, GoesOn, Booking, Paying, Completing, Cancelling
<1>3. StagesInv'
  <2>1. \A g \in Procs:
       LET r == call'[g].ride IN
       /\ call'[g].at \in Booking => ride'[r].status = "none"
       /\ call'[g].at \in Completing => ride'[r].status = "completed"
       /\ call'[g].at \in Cancelling => ride'[r].status = "cancelled"
    BY <1>0, <1>1 DEF LocalInv, StagesInv, SameRow
  <2>2. \A g, k \in Procs:
       /\ call'[g].at \in Booking /\ call'[k].at \in Booking
          /\ RiderOf[call'[g].ride] = RiderOf[call'[k].ride] => g = k
       /\ call'[g].at \in Paying /\ call'[k].at \in Paying /\ call'[g].ride = call'[k].ride => g = k
    BY <1>1 DEF LocalInv, StagesInv
  <2>3. \A r \in Rides: background'[r] # "none" => ride'[r].status = "completed"
    BY DEF LocalInv, StagesInv, SameRow
  <2> QED
    BY <2>1, <2>2, <2>3 DEF StagesInv
<1>4. PromoInv'
  <2>1. \A g \in Procs: call'[g].at \in Booking /\ call'[g].promo <=> promoLock' = g
    BY <1>1, <1>2 DEF LocalInv, PromoInv
  <2>2. \A g \in Procs, s \in Rides:
       promoLock' = g /\ RiderOf[s] = RiderOf[call'[g].ride] => usage'[s] \in {"none", "VOID"}
    BY <1>1, <1>2 DEF LocalInv, PromoInv
  <2>3. Used' = Used
    BY DEF Used
  <2> QED
    BY <2>1, <2>2, <2>3 DEF LocalInv, PromoInv, SameRow
<1>5. AmountInv'
  BY DEF LocalInv, AmountInv, SameRow
<1> QED
  BY <1>3, <1>4, <1>5 DEF LocalInv

LEMMA LocalUnchanged == ASSUME LocalInv, UNCHANGED rewardVars PROVE LocalInv'
<1>1. Used' = Used
  BY DEF Used, rewardVars
<1> QED
  BY <1>1 DEF LocalInv, StagesInv, PromoInv, AmountInv, rewardVars

\* What a step that sets the label, or the whole record, makes of the call.
LEMMA StepTurn ==
  ASSUME RewardInv, NEW h \in Procs, NEW at \in CallAt, Step(h, at)
  PROVE  /\ Turn(h) /\ call'[h].at = at /\ call'[h].ride = call[h].ride
         /\ call'[h].promo = call[h].promo /\ call'[h].amount = call[h].amount
  BY StepEffect DEF RewardInv, Turn

LEMMA FinishTurn ==
  ASSUME RewardInv, NEW h \in Procs, Finish(h)
  PROVE  Turn(h) /\ call'[h].at = "idle" /\ call'[h] = NoCall
<1>1. call'[h] = NoCall /\ \A g \in Procs \ {h}: call'[g] = call[g]
  BY FinishCallers DEF RewardInv
<1>2. NoCall.at = "idle"
  BY DEF NoCall, Operation
<1> QED
  BY <1>1, <1>2 DEF Turn

LEMMA StepWithTurn ==
  ASSUME RewardInv, NEW h \in Procs, NEW at, NEW amount, StepWith(h, at, amount)
  PROVE  /\ Turn(h) /\ call'[h].at = at /\ call'[h].ride = call[h].ride
         /\ call'[h].promo = call[h].promo /\ call'[h].amount = amount
  BY DEF RewardInv, Callers, Turn, StepWith

LEMMA BeginTurn ==
  ASSUME RewardInv, NEW h \in Procs, NEW c, Begin(h, c)
  PROVE  Turn(h) /\ call'[h] = c /\ call[h].at = "idle"
  BY DEF RewardInv, Callers, Turn, Begin

LEMMA ToAwardTurn ==
  ASSUME RewardInv, NEW h \in Procs, ToAward(h)
  PROVE  /\ Turn(h) /\ call'[h].at = "award" /\ call'[h].ride = call[h].ride /\ call'[h].promo = call[h].promo
         /\ \A s \in Rides: s # call[h].ride => background'[s] = background[s]
<1>1. Step(h, "award") /\ background' = [background EXCEPT ![RideOfCall(h)] = "finalize"]
  BY DEF ToAward
<1>2. "award" \in CallAt
  BY DEF CallAt
<1> QED
  BY <1>1, <1>2, StepTurn DEF RewardInv, RowTypes, RideOfCall

\* The steps that go on: read the balance, mark the referral, charge, award,
\* refund, grant.
LEMMA LocalGoesOn ==
  ASSUME RewardInv, LocalInv, NEW h \in Procs,
         \/ RequestReadCredits(h) \/ RequestMark(h) \/ ChargeRead(h) \/ ChargeDone(h)
         \/ AwardPost(h) \/ AwardDone(h) \/ CancelRefund(h)
  PROVE  LocalInv'
<1> USE DEF SameRow
<1>1. CASE RequestReadCredits(h)
  <2>1. PICK amount: StepWith(h, "book", amount)
    BY <1>1 DEF RequestReadCredits
  <2>2. call[h].at = "apply" /\ UNCHANGED <<ride, usage, timesUsed, promoLock, background>>
    BY <1>1 DEF RequestReadCredits
  <2>3. Turn(h) /\ GoesOn(h) /\ call'[h].at \in Booking
    BY <2>1, <2>2, StepWithTurn DEF GoesOn, Booking
  <2> QED
    BY <2>2, <2>3, KeepsLocal
<1>2. CASE RequestMark(h)
  <2>1. Turn(h) /\ GoesOn(h) /\ call[h].at \notin Booking
    BY <1>2, FinishTurn DEF RequestMark, GoesOn, Booking
  <2> QED
    BY <1>2, <2>1, KeepsLocal DEF RequestMark
<1>3. CASE ChargeRead(h)
  <2>1. call[h].at = "charge" /\ UNCHANGED <<ride, usage, timesUsed, promoLock>>
    BY <1>3 DEF ChargeRead
  <2>2. CASE ToAward(h)
    <3>1. Turn(h) /\ GoesOn(h) /\ call[h].at \notin Booking /\ call[h].at \in Completing
      BY <2>1, <2>2, ToAwardTurn DEF GoesOn, Booking, Paying, Completing
    <3>2. \A s \in Rides: s # call[h].ride => background'[s] = background[s]
      BY <2>2, ToAwardTurn
    <3> QED
      BY <2>1, <3>1, <3>2, KeepsLocal
  <2>3. ASSUME NEW amount, StepWith(h, "charging", amount), UNCHANGED background PROVE LocalInv'
    <3>1. Turn(h) /\ GoesOn(h) /\ call[h].at \notin Booking
      BY <2>1, <2>3, StepWithTurn DEF GoesOn, Booking, Paying, Completing
    <3> QED
      BY <2>1, <2>3, <3>1, KeepsLocal
  <2> QED
    BY <1>3, <2>2, <2>3 DEF ChargeRead
<1>4. CASE ChargeDone(h)
  <2>1. call[h].at = "charging" /\ UNCHANGED <<ride, usage, timesUsed, promoLock>>
    BY <1>4 DEF ChargeDone
  <2>2. CASE ToAward(h)
    <3>1. Turn(h) /\ GoesOn(h) /\ call[h].at \notin Booking /\ call[h].at \in Completing
      BY <2>1, <2>2, ToAwardTurn DEF GoesOn, Booking, Paying, Completing
    <3>2. \A s \in Rides: s # call[h].ride => background'[s] = background[s]
      BY <2>2, ToAwardTurn
    <3> QED
      BY <2>1, <3>1, <3>2, KeepsLocal
  <2>3. CASE Step(h, "record") /\ UNCHANGED background
    <3>1. Turn(h) /\ GoesOn(h) /\ call[h].at \notin Booking
      BY <2>1, <2>3, StepTurn DEF GoesOn, Booking, Paying, Completing, CallAt
    <3> QED
      BY <2>1, <2>3, <3>1, KeepsLocal
  <2> QED
    BY <1>4, <2>2, <2>3 DEF ChargeDone
<1>5. CASE AwardPost(h)
  <2>1. Turn(h) /\ GoesOn(h) /\ call[h].at \notin Booking
    BY <1>5, StepTurn DEF AwardPost, GoesOn, Booking, Completing, CallAt
  <2> QED
    BY <1>5, <2>1, KeepsLocal DEF AwardPost
<1>6. CASE AwardDone(h)
  <2>1. Turn(h) /\ GoesOn(h) /\ call[h].at \notin Booking
    BY <1>6, FinishTurn DEF AwardDone, GoesOn, Booking
  <2> QED
    BY <1>6, <2>1, KeepsLocal DEF AwardDone
<1>7. CASE CancelRefund(h)
  <2>1. call[h].at = "refund" /\ UNCHANGED <<ride, usage, timesUsed, promoLock, background>>
    BY <1>7 DEF CancelRefund
  <2>2. Turn(h) /\ GoesOn(h)
    BY <1>7, <2>1, StepTurn, FinishTurn DEF CancelRefund, GoesOn, Cancelling, CallAt
  <2> QED
    BY <2>1, <2>2, KeepsLocal DEF Booking
<1> QED
  BY <1>1, <1>2, <1>3, <1>4, <1>5, <1>6, <1>7

\* Steps that write the payment or the refund stamp, and grants.
LEMMA LocalWrites ==
  ASSUME RewardInv, LocalInv, NEW h \in Procs,
         \/ ChargeRecord(h) \/ CancelStamp(h)
         \/ \E g \in Grants, key \in AdminKeys: AdminGrant(h, g[1], g[2], key)
  PROVE  LocalInv'
<1>1. CASE ChargeRecord(h)
  <2>1. /\ call[h].at = "record" /\ call[h].ride \in Rides /\ UNCHANGED <<usage, timesUsed, promoLock>>
        /\ ToAward(h) /\ ride' = [ride EXCEPT ![call[h].ride].paid = call[h].amount]
    BY <1>1 DEF ChargeRecord, RewardInv, Callers, RideKnown, RideOfCall
  <2>2. Turn(h) /\ GoesOn(h) /\ call[h].at \notin Booking /\ call[h].at \in Completing
    BY <2>1, ToAwardTurn DEF GoesOn, Booking, Paying, Completing
  <2>3. \A s \in Rides: s # call[h].ride => background'[s] = background[s]
    BY <2>1, ToAwardTurn
  <2>4. \A s \in Rides: SameRow(s)
    BY <2>1 DEF RewardInv, RowTypes, RideType, SameRow
  <2> QED
    BY <2>1, <2>2, <2>3, <2>4, KeepsLocal
<1>2. CASE CancelStamp(h)
  <2>1. /\ call[h].at = "refunding" /\ call[h].ride \in Rides
        /\ UNCHANGED <<usage, timesUsed, promoLock, background>>
        /\ Finish(h) /\ ride' = [ride EXCEPT ![call[h].ride].refunded = TRUE]
    BY <1>2 DEF CancelStamp, RewardInv, Callers, RideKnown, RideOfCall
  <2>2. Turn(h) /\ GoesOn(h) /\ call[h].at \notin Booking
    BY <2>1, FinishTurn DEF GoesOn, Booking
  <2>4. \A s \in Rides: SameRow(s)
    BY <2>1 DEF RewardInv, RowTypes, RideType, SameRow
  <2> QED
    BY <2>1, <2>2, <2>4, KeepsLocal
<1>3. ASSUME NEW g \in Grants, NEW key \in AdminKeys, AdminGrant(h, g[1], g[2], key) PROVE LocalInv'
  <2>1. Begin(h, Operation("granting", None)) /\ UNCHANGED <<ride, usage, timesUsed, promoLock, background>>
    BY <1>3 DEF AdminGrant
  <2>2. Turn(h) /\ GoesOn(h) /\ call[h].at \notin Booking
    BY <2>1, BeginTurn DEF GoesOn, Operation, Booking
  <2> QED
    BY <2>1, <2>2, KeepsLocal DEF SameRow
<1> QED
  BY <1>1, <1>2, <1>3

\* A booking that begins.
LEMMA LocalRequestRide ==
  ASSUME RewardInv, LocalInv, NEW h \in Procs, NEW r \in Rides, NEW promo \in BOOLEAN,
         RequestRide(h, r, promo)
  PROVE  LocalInv'
<1> DEFINE c == [at |-> "apply", ride |-> r, promo |-> promo, amount |-> 0]
<1>1. /\ ride[r].status = "none"
      /\ \A g \in Procs: call[g].at \in Booking => RiderOf[call[g].ride] # RiderOf[r]
      /\ promo => promoLock = None /\ \A s \in Rides: RiderOf[s] = RiderOf[r] => usage[s] \in {"none", "VOID"}
      /\ promoLock' = IF promo THEN h ELSE promoLock
      /\ Begin(h, c) /\ UNCHANGED <<ride, usage, timesUsed, background>>
  BY DEF RequestRide, RideOfCall, Booking
<1>2. Turn(h) /\ call'[h] = c /\ call[h].at = "idle"
  BY <1>1, BeginTurn
<1>3. /\ call'[h].at = "apply" /\ call'[h].ride = r /\ call'[h].promo = promo
      /\ \A g \in Procs \ {h}: call'[g] = call[g]
  BY <1>2 DEF Turn
<1>4. StagesInv'
  BY <1>1, <1>2, <1>3 DEF LocalInv, StagesInv, Booking, Paying, Completing, Cancelling
<1>5. PromoInv'
  <2>0. None \notin Procs /\ promoLock # h
    BY <1>2, RewardsAssumption DEF LocalInv, PromoInv, Booking
  <2>1. \A g \in Procs: call'[g].at \in Booking /\ call'[g].promo <=> promoLock' = g
    <3>1. CASE promo
      <4>1. \A g \in Procs: ~ (call[g].at \in Booking /\ call[g].promo)
        BY <1>1, <2>0, <3>1 DEF LocalInv, PromoInv
      <4> QED
        BY <1>1, <1>3, <3>1, <4>1 DEF Booking
    <3>2. CASE ~ promo
      BY <1>1, <1>3, <2>0, <3>2 DEF LocalInv, PromoInv
    <3> QED
      BY <3>1, <3>2
  <2>2. \A g \in Procs, s \in Rides:
       promoLock' = g /\ RiderOf[s] = RiderOf[call'[g].ride] => usage'[s] \in {"none", "VOID"}
    BY <1>1, <1>3, <2>0 DEF LocalInv, PromoInv
  <2>3. Used' = Used
    BY <1>1 DEF Used
  <2> QED
    BY <1>1, <2>1, <2>2, <2>3 DEF LocalInv, PromoInv
<1>6. AmountInv'
  BY <1>1 DEF LocalInv, AmountInv
<1> QED
  BY <1>4, <1>5, <1>6 DEF LocalInv

\* A booking that commits.
LEMMA LocalRequestCommit ==
  ASSUME RewardInv, LocalInv, NEW h \in Procs, RequestCommit(h)
  PROVE  LocalInv'
<1>0. PICK r \in Rides: r = call[h].ride
  BY DEF RequestCommit, RewardInv, Callers, RideKnown
<1> DEFINE amount == call[h].amount
           row == [status |-> "requested", credits |-> amount, due |-> DueAfter(h),
                   paid |-> 0, refunded |-> FALSE]
<1>1. /\ call[h].at = "book" /\ Step(h, "mark")
      /\ ride' = [ride EXCEPT ![r] = row]
      /\ usage' = [usage EXCEPT ![r] = IF call[h].promo THEN "APPLIED" ELSE @]
      /\ promoLock' = IF promoLock = h THEN None ELSE promoLock
      /\ UNCHANGED <<timesUsed, background>>
  BY <1>0 DEF RequestCommit, RideOfCall, FreePromo
<1>2. Turn(h) /\ call'[h].at = "mark" /\ call'[h].ride = r
  BY <1>0, <1>1, StepTurn DEF CallAt
<1>3. row.status = "requested" /\ row.credits = amount /\ row.due = DueAfter(h)
  OBVIOUS
<1> HIDE DEF row
<1>4. /\ ride'[r].status = "requested" /\ ride'[r].credits = amount /\ ride'[r].due = DueAfter(h)
      /\ \A s \in Rides \ {r}: ride'[s] = ride[s]
  BY <1>1, <1>3 DEF RewardInv, RowTypes
<1>5. /\ ride[r].status = "none" /\ usage[r] = "none"
      /\ usage'[r] = (IF call[h].promo THEN "APPLIED" ELSE "none")
      /\ \A s \in Rides \ {r}: usage'[s] = usage[s]
  BY <1>0, <1>1 DEF LocalInv, StagesInv, PromoInv, Booking, RewardInv, RowTypes
<1>6. None \notin Procs
  BY RewardsAssumption
<1>7. StagesInv'
  <2>1. \A g \in Procs \ {h}: call[g].at \in Booking => call[g].ride # r
    BY <1>0, <1>1 DEF LocalInv, StagesInv, Booking
  <2>2. \A g \in Procs: call[g].at \in Booking \cup Completing \cup Cancelling => call[g].ride \in Rides
    BY DEF RewardInv, Callers, RideKnown, Booking, Completing, Paying, Cancelling
  <2>3. \A g \in Procs \ {h}: call'[g] = call[g] /\ call[g].at \in Completing \cup Cancelling => call[g].ride # r
    BY <1>5 DEF LocalInv, StagesInv
  <2>4. \A g \in Procs \ {h}:
       /\ call'[g] = call[g]
       /\ call[g].at \in Booking => ride'[call[g].ride].status = "none"
       /\ call[g].at \in Completing => ride'[call[g].ride].status = "completed"
       /\ call[g].at \in Cancelling => ride'[call[g].ride].status = "cancelled"
    BY <1>2, <1>4, <2>1, <2>2, <2>3 DEF LocalInv, StagesInv, Turn
  <2>5. call'[h].at \notin Booking \cup Completing \cup Cancelling
    BY <1>2 DEF Booking, Completing, Paying, Cancelling
  <2>6. \A s \in Rides: background'[s] # "none" => ride'[s].status = "completed"
    BY <1>1, <1>4, <1>5 DEF LocalInv, StagesInv
  <2>7. Paying \subseteq Completing
    BY DEF Completing
  <2> QED
    BY <2>4, <2>5, <2>6, <2>7 DEF LocalInv, StagesInv
<1>8. PromoInv'
  <2>1. \A g \in Procs: call'[g].at \in Booking /\ call'[g].promo <=> promoLock' = g
    <3>1. \A g \in Procs: call[g].at \in Booking /\ call[g].promo <=> promoLock = g
      BY DEF LocalInv, PromoInv
    <3>2. call'[h].at \notin Booking
      BY <1>2 DEF Booking
    <3> QED
      BY <1>1, <1>2, <1>6, <3>1, <3>2 DEF Turn
  <2>2. \A g \in Procs, s \in Rides:
       promoLock' = g /\ RiderOf[s] = RiderOf[call'[g].ride] => usage'[s] \in {"none", "VOID"}
    <3> SUFFICES ASSUME NEW g \in Procs, NEW s \in Rides, promoLock' = g, RiderOf[s] = RiderOf[call'[g].ride]
                 PROVE  usage'[s] \in {"none", "VOID"}
      OBVIOUS
    <3>1. g # h /\ promoLock = g /\ call'[g] = call[g]
      BY <1>1, <1>2, <1>6 DEF Turn
    <3>2. usage[s] \in {"none", "VOID"}
      BY <3>1 DEF LocalInv, PromoInv
    <3>3. call[h].promo => FALSE
      BY <1>1, <3>1 DEF LocalInv, PromoInv, Booking
    <3> QED
      BY <1>5, <3>2, <3>3
  <2>3. \A s \in Rides: /\ usage'[s] # "none" => ride'[s].status # "none"
                        /\ usage'[s] = "USED" => ride'[s].status = "completed"
    BY <1>4, <1>5 DEF LocalInv, PromoInv
  <2>4. \A t, s \in Rides: t # s /\ RiderOf[t] = RiderOf[s] => ~ {usage'[t], usage'[s]} \subseteq Live
    <3>1. CASE ~ call[h].promo
      BY <1>5, <3>1 DEF LocalInv, PromoInv
    <3>2. CASE call[h].promo
      <4>1. promoLock = h
        BY <1>1, <3>2 DEF LocalInv, PromoInv, Booking
      <4>2. \A s \in Rides: RiderOf[s] = RiderOf[r] => usage[s] \notin Live
        BY <1>0, <4>1 DEF LocalInv, PromoInv, Live
      <4>3. \A t, s \in Rides: t # s /\ RiderOf[t] = RiderOf[s] => ~ {usage[t], usage[s]} \subseteq Live
        BY DEF LocalInv, PromoInv
      <4> QED
        BY <1>5, <4>2, <4>3
    <3> QED
      BY <3>1, <3>2
  <2>5. Used' = Used
    BY <1>5 DEF Used
  <2> QED
    BY <1>1, <2>1, <2>2, <2>3, <2>4, <2>5 DEF LocalInv, PromoInv
<1>9. AmountInv'
  <2>1. amount \in 0..Fare /\ Fare \in Nat /\ Discount \in 0..Fare /\ call[h].promo \in BOOLEAN
    BY RewardsAssumption DEF RewardInv, Callers, CallType
  <2>2. amount + DueAfter(h) = Fare - (IF call[h].promo THEN Discount ELSE 0)
    BY <2>1 DEF DueAfter, Remaining
  <2>3. (IF usage'[r] \in Live THEN Discount ELSE 0) = (IF call[h].promo THEN Discount ELSE 0)
    BY <1>5 DEF Live
  <2>4. ride'[r].credits + ride'[r].due <= Fare - (IF usage'[r] \in Live THEN Discount ELSE 0)
    <3> HIDE DEF amount
    <3>1. ride'[r].credits + ride'[r].due = Fare - (IF call[h].promo THEN Discount ELSE 0)
      BY <1>4, <2>2
    <3> QED
      BY <2>1, <2>3, <3>1
  <2>5. \A s \in Rides \ {r}: ride'[s].status # "none" =>
     ride'[s].credits + ride'[s].due <= Fare - (IF usage'[s] \in Live THEN Discount ELSE 0)
    BY <1>4, <1>5 DEF LocalInv, AmountInv
  <2> QED
    BY <2>4, <2>5 DEF AmountInv
<1> QED
  BY <1>7, <1>8, <1>9 DEF LocalInv

\* A booking that rolls back.
LEMMA LocalRollback ==
  ASSUME RewardInv, LocalInv, NEW h \in Procs, RequestRollback(h)
  PROVE  LocalInv'
<1>1. /\ call[h].at = "book" /\ Finish(h) /\ UNCHANGED <<ride, usage, timesUsed, background>>
      /\ promoLock' = IF promoLock = h THEN None ELSE promoLock
  BY DEF RequestRollback, FreePromo
<1>2. Turn(h) /\ call'[h].at = "idle"
  BY <1>1, FinishTurn
<1>3. None \notin Procs
  BY RewardsAssumption
<1>4. StagesInv'
  BY <1>1, <1>2 DEF LocalInv, StagesInv, Turn, Booking, Paying, Completing, Cancelling
<1>5. \A g \in Procs: call'[g].at \in Booking /\ call'[g].promo <=> promoLock' = g
  <2>1. \A g \in Procs: call[g].at \in Booking /\ call[g].promo <=> promoLock = g
    BY DEF LocalInv, PromoInv
  <2>2. call'[h].at \notin Booking
    BY <1>2 DEF Booking
  <2> QED
    BY <1>1, <1>2, <1>3, <2>1, <2>2 DEF Turn
<1>6. \A g \in Procs, s \in Rides:
       promoLock' = g /\ RiderOf[s] = RiderOf[call'[g].ride] => usage'[s] \in {"none", "VOID"}
  <2> SUFFICES ASSUME NEW g \in Procs, NEW s \in Rides, promoLock' = g, RiderOf[s] = RiderOf[call'[g].ride]
               PROVE  usage'[s] \in {"none", "VOID"}
    OBVIOUS
  <2>1. g # h /\ promoLock = g /\ call'[g] = call[g]
    BY <1>1, <1>2, <1>3 DEF Turn
  <2> QED
    BY <1>1, <2>1 DEF LocalInv, PromoInv
<1>7. Used' = Used
  BY <1>1 DEF Used
<1>8. PromoInv'
  BY <1>1, <1>5, <1>6, <1>7 DEF LocalInv, PromoInv
<1>9. AmountInv'
  BY <1>1 DEF LocalInv, AmountInv
<1> QED
  BY <1>4, <1>8, <1>9 DEF LocalInv

\* A ride that is completed or cancelled.
LEMMA LocalEnds ==
  ASSUME RewardInv, LocalInv, NEW h \in Procs, NEW r \in Rides, CompleteRide(h, r) \/ CancelRide(h, r)
  PROVE  LocalInv'
<1>1. PICK at \in {"charge", "award", "void"}, status \in {"completed", "cancelled"}:
        /\ ride' = [ride EXCEPT ![r].status = status] /\ Begin(h, Operation(at, r))
        /\ ride[r].status = "requested" /\ UNCHANGED <<usage, timesUsed, promoLock>>
        /\ at \in {"charge", "award"} <=> status = "completed"
        /\ \A s \in Rides: background'[s] # "none" => background[s] # "none" \/ (s = r /\ status = "completed")
  <2>1. CASE CompleteRide(h, r)
    <3>1. PICK at \in {"charge", "award"}: Begin(h, Operation(at, r))
      BY <2>1 DEF CompleteRide
    <3> QED
      BY <2>1, <3>1 DEF CompleteRide, RewardInv, RowTypes
  <2>2. CASE CancelRide(h, r)
    BY <2>2 DEF CancelRide
  <2> QED
    BY <2>1, <2>2
<1>2. Turn(h) /\ call'[h].at = at /\ call'[h].ride = r /\ call[h].at = "idle" /\ call'[h].promo = FALSE
  BY <1>1, BeginTurn DEF Operation
<1>3. /\ ride'[r].status = status /\ ride'[r].credits = ride[r].credits /\ ride'[r].due = ride[r].due
      /\ \A s \in Rides \ {r}: ride'[s] = ride[s]
  BY <1>1 DEF RewardInv, RowTypes, RideType
<1>4. \A g \in Procs: call[g].at \in Booking \cup Completing \cup Cancelling =>
        call[g].ride \in Rides /\ call[g].ride # r
  BY <1>1 DEF LocalInv, StagesInv, RewardInv, Callers, RideKnown, Booking, Completing, Paying, Cancelling
<1>5. StagesInv'
  <2>1. \A g \in Procs \ {h}:
       /\ call'[g] = call[g]
       /\ call[g].at \in Booking => ride'[call[g].ride].status = "none"
       /\ call[g].at \in Completing => ride'[call[g].ride].status = "completed"
       /\ call[g].at \in Cancelling => ride'[call[g].ride].status = "cancelled"
    BY <1>2, <1>3, <1>4 DEF LocalInv, StagesInv, Turn
  <2>2. /\ call'[h].at \notin Booking
        /\ call'[h].at \in Completing => ride'[r].status = "completed"
        /\ call'[h].at \in Cancelling => ride'[r].status = "cancelled"
    BY <1>1, <1>2, <1>3 DEF Booking, Completing, Paying, Cancelling
  <2>3. \A g \in Procs: call[g].at \in Paying => call[g].ride # r
    BY <1>4 DEF Completing
  <2>4. \A s \in Rides: background'[s] # "none" => ride'[s].status = "completed"
    BY <1>1, <1>3 DEF LocalInv, StagesInv
  <2> QED
    BY <1>2, <2>1, <2>2, <2>3, <2>4 DEF LocalInv, StagesInv
<1>6. PromoInv'
  <2>1. Used' = Used
    BY <1>1 DEF Used
  <2>2. call'[h].at \notin Booking /\ call[h].at \notin Booking
    BY <1>2 DEF Booking
  <2>3. \A g \in Procs: call'[g].at \in Booking /\ call'[g].promo <=> promoLock' = g
    BY <1>1, <1>2, <2>2 DEF LocalInv, PromoInv, Turn
  <2>4. \A g \in Procs, s \in Rides:
       promoLock' = g /\ RiderOf[s] = RiderOf[call'[g].ride] => usage'[s] \in {"none", "VOID"}
    BY <1>1, <1>2, <2>2 DEF LocalInv, PromoInv, Turn
  <2>5. \A s \in Rides: /\ usage'[s] # "none" => ride'[s].status # "none"
                        /\ usage'[s] = "USED" => ride'[s].status = "completed"
    BY <1>1, <1>3 DEF LocalInv, PromoInv
  <2> QED
    BY <1>1, <2>1, <2>3, <2>4, <2>5 DEF LocalInv, PromoInv
<1>7. AmountInv'
  BY <1>1, <1>3 DEF LocalInv, AmountInv
<1> QED
  BY <1>5, <1>6, <1>7 DEF LocalInv

\* Steps that move the usage of one ride out of APPLIED, or none.
LEMMA LocalUsage ==
  ASSUME RewardInv, LocalInv, UNCHANGED <<ride, promoLock>>, NEW r \in Rides,
         \/ UNCHANGED call
         \/ \E h \in Procs: /\ Turn(h) /\ call'[h].ride = call[h].ride
                            /\ call[h].at \in Cancelling /\ call'[h].at \in Cancelling,
         \A s \in Rides: background'[s] # "none" => background[s] # "none",
         \A s \in Rides \ {r}: usage'[s] = usage[s],
         \/ usage'[r] = usage[r] /\ timesUsed' = timesUsed
         \/ usage[r] = "APPLIED" /\ usage'[r] = "VOID" /\ timesUsed' = timesUsed
         \/ usage[r] = "APPLIED" /\ usage'[r] = "USED" /\ timesUsed' = timesUsed + 1 /\ ride[r].status = "completed"
  PROVE  LocalInv'
<1>1. \A g \in Procs:
        /\ call'[g].ride = call[g].ride
        /\ call'[g] = call[g] \/ (call[g].at \in Cancelling /\ call'[g].at \in Cancelling)
  BY DEF Turn
<1>2. \A g \in Procs:
        /\ call'[g].at \in Booking <=> call[g].at \in Booking
        /\ call'[g].at \in Booking => call'[g] = call[g]
        /\ call'[g].at \in Paying => call[g].at \in Paying
        /\ call'[g].at \in Completing => call[g].at \in Completing
        /\ call'[g].at \in Cancelling => call[g].at \in Cancelling
  BY <1>1 DEF Booking, Paying, Completing, Cancelling
<1>3. StagesInv'
  BY <1>1, <1>2 DEF LocalInv, StagesInv
<1>4. /\ IsFiniteSet(Used') /\ timesUsed' = Cardinality(Used')
  <2>1. IsFiniteSet(Used) /\ timesUsed = Cardinality(Used)
    BY DEF LocalInv, PromoInv
  <2>2. CASE usage[r] = "APPLIED" /\ usage'[r] = "USED" /\ timesUsed' = timesUsed + 1
    <3>1. Used' = Used \cup {r} /\ r \notin Used
      BY <2>2 DEF Used
    <3> QED
      BY <2>1, <2>2, <3>1, FS_AddElement
  <2>3. CASE ~ (usage[r] = "APPLIED" /\ usage'[r] = "USED")
    <3>1. Used' = Used
      BY <2>3 DEF Used
    <3> QED
      BY <2>1, <2>3, <3>1
  <2> QED
    BY <2>2, <2>3
<1>5. PromoInv'
  <2>1. \A g \in Procs: call'[g].at \in Booking /\ call'[g].promo <=> promoLock' = g
    BY <1>2 DEF LocalInv, PromoInv
  <2>2. \A g \in Procs, s \in Rides:
       promoLock' = g /\ RiderOf[s] = RiderOf[call'[g].ride] => usage'[s] \in {"none", "VOID"}
    BY <1>1 DEF LocalInv, PromoInv
  <2>3. \A s \in Rides: /\ usage'[s] # "none" => ride'[s].status # "none"
                        /\ usage'[s] = "USED" => ride'[s].status = "completed"
    BY DEF LocalInv, PromoInv
  <2>4. \A s \in Rides: usage'[s] \in Live => usage[s] \in Live
    BY DEF Live
  <2>5. \A t, s \in Rides: t # s /\ RiderOf[t] = RiderOf[s] => ~ {usage'[t], usage'[s]} \subseteq Live
    BY <2>4 DEF LocalInv, PromoInv
  <2> QED
    BY <1>4, <2>1, <2>2, <2>3, <2>5 DEF PromoInv
<1>6. AmountInv'
  <2>1. \A s \in Rides: usage'[s] \in Live => usage[s] \in Live
    BY DEF Live
  <2>2. \A s \in Rides: ride[s].credits \in Int /\ ride[s].due \in Int
    BY RewardsAssumption DEF RewardInv, RowTypes, RideType
  <2>3. Fare \in Nat /\ Discount \in 0..Fare
    BY RewardsAssumption
  <2>4. ASSUME NEW s \in Rides, ride[s].status # "none"
        PROVE  ride[s].credits + ride[s].due <= Fare - (IF usage'[s] \in Live THEN Discount ELSE 0)
    <3>1. ride[s].credits + ride[s].due <= Fare - (IF usage[s] \in Live THEN Discount ELSE 0)
      BY <2>4 DEF LocalInv, AmountInv
    <3> QED
      BY <2>1, <2>2, <2>3, <3>1
  <2> QED
    BY <2>4 DEF AmountInv
<1> QED
  BY <1>3, <1>5, <1>6 DEF LocalInv

\* The promo counted or given back, the referral rewarded, a code scanned.
LEMMA LocalTasks ==
  ASSUME RewardInv, LocalInv,
         \/ \E r \in Rides: Task(r)
         \/ \E u \in Riders: ScanReferral(u)
         \/ \E h \in Procs: CancelVoid(h)
  PROVE  LocalInv'
<1>1. ASSUME NEW r \in Rides, FinalizePromo(r) PROVE LocalInv'
  <2>1. /\ UNCHANGED <<ride, promoLock, call>> /\ ride[r].status = "completed"
        /\ \A s \in Rides: background'[s] # "none" => background[s] # "none"
        /\ \A s \in Rides \ {r}: usage'[s] = usage[s]
        /\ usage'[r] = IF usage[r] = "APPLIED" THEN "USED" ELSE usage[r]
        /\ timesUsed' = timesUsed + (IF usage[r] = "APPLIED" THEN 1 ELSE 0)
    BY <1>1 DEF FinalizePromo, RewardInv, RowTypes, LocalInv, StagesInv
  <2>2. timesUsed \in Nat
    BY DEF RewardInv, RowTypes
  <2>3. CASE usage[r] = "APPLIED"
    BY <2>1, <2>3, LocalUsage
  <2>4. CASE usage[r] # "APPLIED"
    <3>1. usage'[r] = usage[r] /\ timesUsed' = timesUsed
      BY <2>1, <2>2, <2>4
    <3> QED
      BY <2>1, <3>1, LocalUsage
  <2> QED
    BY <2>3, <2>4
<1>2. ASSUME NEW r \in Rides, ReferralReward(r) PROVE LocalInv'
  <2>1. /\ UNCHANGED <<ride, promoLock, call, usage, timesUsed>>
        /\ \A s \in Rides: background'[s] # "none" => background[s] # "none"
    BY <1>2 DEF ReferralReward, RewardInv, RowTypes
  <2> QED
    BY <2>1, LocalUsage
<1>3. ASSUME NEW u \in Riders, ScanReferral(u) PROVE LocalInv'
  <2>1. UNCHANGED <<ride, promoLock, call, usage, timesUsed, background>>
    BY <1>3 DEF ScanReferral
  <2>2. Used' = Used
    BY <2>1 DEF Used
  <2> QED
    BY <2>1, <2>2 DEF LocalInv, StagesInv, PromoInv, AmountInv
<1>4. ASSUME NEW h \in Procs, CancelVoid(h) PROVE LocalInv'
  <2>0. PICK r \in Rides: r = call[h].ride
    BY <1>4 DEF CancelVoid, RewardInv, Callers, RideKnown
  <2>1. /\ call[h].at = "void" /\ Step(h, "refund") /\ UNCHANGED <<ride, promoLock, timesUsed, background>>
        /\ usage' = [usage EXCEPT ![r] = IF @ = "APPLIED" THEN "VOID" ELSE @]
    BY <1>4, <2>0 DEF CancelVoid, RideOfCall
  <2>2. Turn(h) /\ call'[h].at \in Cancelling /\ call[h].at \in Cancelling /\ call'[h].ride = call[h].ride
    BY <2>1, StepTurn DEF CallAt, Cancelling
  <2>3. /\ \A s \in Rides \ {r}: usage'[s] = usage[s]
        /\ usage'[r] = IF usage[r] = "APPLIED" THEN "VOID" ELSE usage[r]
    BY <2>1 DEF RewardInv, RowTypes
  <2>4. /\ \A s \in Rides: background'[s] # "none" => background[s] # "none"
        /\ usage[r] = "APPLIED" => usage'[r] = "VOID"
        /\ usage[r] # "APPLIED" => usage'[r] = usage[r]
    BY <2>1, <2>3
  <2>5. usage'[r] = usage[r] \/ (usage[r] = "APPLIED" /\ usage'[r] = "VOID")
    BY <2>4
  <2> QED
    BY <2>1, <2>2, <2>3, <2>4, <2>5, LocalUsage
<1>5. ASSUME NEW r \in Rides, MatcherCancel(r) PROVE LocalInv'
  <2>1. /\ UNCHANGED <<usage, timesUsed, promoLock, call, background>> /\ ride[r].status = "requested"
        /\ ride' = [ride EXCEPT ![r].status = "unmatched"]
    BY <1>5 DEF MatcherCancel
  <2>2. /\ ride'[r].status = "unmatched" /\ ride'[r].credits = ride[r].credits /\ ride'[r].due = ride[r].due
        /\ \A s \in Rides \ {r}: ride'[s] = ride[s]
    BY <2>1 DEF RewardInv, RowTypes, RideType
  <2>3. \A g \in Procs: call[g].at \in Booking \cup Completing \cup Cancelling =>
          call[g].ride \in Rides /\ call[g].ride # r
    BY <2>1 DEF LocalInv, StagesInv, RewardInv, Callers, RideKnown, Booking, Completing, Paying, Cancelling
  <2>4. StagesInv'
    BY <2>1, <2>2, <2>3 DEF LocalInv, StagesInv
  <2>5. PromoInv'
    <3>1. Used' = Used
      BY <2>1 DEF Used
    <3>2. \A s \in Rides: /\ usage'[s] # "none" => ride'[s].status # "none"
                          /\ usage'[s] = "USED" => ride'[s].status = "completed"
      BY <2>1, <2>2 DEF LocalInv, PromoInv
    <3> QED
      BY <2>1, <3>1, <3>2 DEF LocalInv, PromoInv
  <2>6. AmountInv'
    BY <2>1, <2>2 DEF LocalInv, AmountInv
  <2> QED
    BY <2>4, <2>5, <2>6 DEF LocalInv
<1> QED
  BY <1>1, <1>2, <1>3, <1>4, <1>5 DEF Task

\* A crash forgets handlers, background tasks and the lock.
LEMMA LocalCrash == ASSUME RewardInv, LocalInv, Crash PROVE LocalInv'
<1>1. /\ UNCHANGED <<ride, usage, timesUsed>> /\ promoLock' = None
      /\ \A h \in Procs: call'[h].at = "idle"
      /\ \A r \in Rides: background'[r] = "none"
  BY DEF Crash, NoCall, Operation
<1>2. Used' = Used /\ None \notin Procs
  BY <1>1, RewardsAssumption DEF Used
<1>3. \A h \in Procs: call'[h].at \notin Booking \cup Paying \cup Completing \cup Cancelling
  BY <1>1 DEF Booking, Paying, Completing, Cancelling
<1> QED
  BY <1>1, <1>2, <1>3 DEF LocalInv, StagesInv, PromoInv, AmountInv

\* LocalInv holds initially.
LEMMA LocalInit == Init => LocalInv
<1> SUFFICES ASSUME Init PROVE LocalInv
  OBVIOUS
<1>1. \A r \in Rides: /\ usage[r] = "none" /\ background[r] = "none"
                      /\ ride[r].credits = 0 /\ ride[r].due = 0
  BY DEF Init, NoRide, PastRide, Row
<1>2. \A h \in Procs: call[h].at \notin Booking \cup Paying \cup Completing \cup Cancelling
  BY DEF Init, NoCall, Operation, Booking, Paying, Completing, Cancelling
<1>3. None \notin Procs /\ Fare \in Nat /\ Discount \in 0..Fare
  BY RewardsAssumption
<1>4. StagesInv
  BY <1>1, <1>2 DEF StagesInv
<1>5. IsFiniteSet(Used) /\ timesUsed = Cardinality(Used)
  <2>1. Used = {} /\ timesUsed = 0
    BY <1>1 DEF Used, Init
  <2> QED
    BY <2>1, FS_EmptySet
<1>6. PromoInv
  <2>1. promoLock = None
    BY DEF Init
  <2> QED
    BY <1>1, <1>2, <1>3, <1>5, <2>1 DEF PromoInv, Live
<1>7. AmountInv
  BY <1>1, <1>3 DEF AmountInv, Live
<1> QED
  BY <1>4, <1>6, <1>7 DEF LocalInv

\* Every step preserves LocalInv.
LEMMA LocalStep == RewardInv /\ LocalInv /\ [Next]_vars => LocalInv'
<1> SUFFICES ASSUME RewardInv, LocalInv, [Next]_vars PROVE LocalInv'
  OBVIOUS
<1>1. ASSUME NEW h \in Procs, Working(h) PROVE LocalInv'
  BY <1>1, LocalGoesOn, LocalWrites, LocalRequestCommit, LocalRollback, LocalTasks, LocalUnchanged
     DEF Working, Posting
<1>2. ASSUME NEW h \in Procs, NEW r \in Rides,
             (\E promo \in BOOLEAN: RequestRide(h, r, promo)) \/ CompleteRide(h, r) \/ CancelRide(h, r)
      PROVE  LocalInv'
  BY <1>2, LocalRequestRide, LocalEnds
<1>3. ASSUME NEW h \in Procs, NEW g \in Grants, NEW key \in AdminKeys, AdminGrant(h, g[1], g[2], key)
      PROVE  LocalInv'
  BY <1>3, LocalWrites
<1>4. ASSUME NEW h \in Procs, Stray(h), UNCHANGED rewardVars PROVE LocalInv'
  BY <1>4, LocalUnchanged
<1>5. (\E r \in Rides: Task(r)) \/ (\E u \in Riders: ScanReferral(u)) => LocalInv'
  BY LocalTasks
<1>6. Crash => LocalInv'
  BY LocalCrash
<1>7. UNCHANGED vars => LocalInv'
  BY LocalUnchanged DEF vars
<1> QED
  BY <1>1, <1>2, <1>3, <1>4, <1>5, <1>6, <1>7 DEF Next

\* Every completed use of the code is counted once and no rider holds two live
\* uses, for any riders, rides and handlers.
THEOREM PromoUsesCounted == Spec => []PromoCounted
<1>1. RewardInv /\ LocalInv => PromoCounted
  BY DEF LocalInv, PromoInv, PromoCounted, Used, Live
<1> QED
  BY <1>1, RewardInvAlways, LocalInit, LocalStep, PTL DEF Spec

-----------------------------------------------------------------------------
(* What the rows of the ledgers say of the rides: each one that a ride is   *)
(* charged, debited or refunded by is explained by the ride's row.          *)

PostedKinds == {"wallet-charge", "ride-completion-reward", "ride-refund", "wallet", "credits"}

InTx(e) == \E c \in Procs: e \in tx[c].rows

Written(e) == e \in entries \/ InTx(e)

InPost(e) == \E p \in Procs: post[p].at # "idle" /\ post[p].entry = e

Explained(e) ==
  \A r \in Rides:
    /\ e.key = <<"ride-applied", r>> => ride[r].status # "none" /\ e.amount = -ride[r].credits
    /\ e.key = <<"wallet-charge", r>> =>
         ride[r].status = "completed" /\ e.amount < 0 /\ -e.amount <= ride[r].due
    /\ e.key = <<"ride-refund", r>> => ride[r].status = "cancelled" /\ e.amount = ride[r].credits

TracedInv ==
  \A e \in Entry: /\ Written(e) \/ InPost(e) => Explained(e)
                  /\ InTx(e) \/ InPost(e) => e.key[1] \in PostedKinds

\* The post a handler in state c waits for.
IsFor(c, e) ==
  /\ c.at = "charging" => e.key = <<"wallet-charge", c.ride>> /\ e.amount = -c.amount
  /\ c.at = "awarding" => e.key = <<"ride-completion-reward", c.ride>>
  /\ c.at = "refunding" => e.key = <<"ride-refund", c.ride>>
  /\ c.at = "granting" => e.key[1] \in {"wallet", "credits"}

SentInv == \A h \in Procs: call[h].at \in Waiting => post[h].at # "idle" /\ IsFor(call[h], post[h].entry)

\* A booked ride keeps its amounts, a finished one its status.
Grows(r) ==
  ride[r].status # "none" =>
    /\ ride'[r].status # "none" /\ ride'[r].credits = ride[r].credits /\ ride'[r].due = ride[r].due
    /\ ride[r].status \in {"completed", "cancelled", "unmatched"} => ride'[r].status = ride[r].status

LEMMA RidesGrow == RewardInv /\ LocalInv /\ [Next]_vars => \A s \in Rides: Grows(s)
<1> SUFFICES ASSUME RewardInv, LocalInv, [Next]_vars, NEW s \in Rides PROVE Grows(s)
  OBVIOUS
<1> USE DEF Grows
<1>0. ride \in [Rides -> RideType] /\ ride[s] \in RideType
  BY DEF RewardInv, RowTypes
<1>1. ASSUME NEW h \in Procs, RequestCommit(h) PROVE Grows(s)
  <2>1. call[h].at = "book" /\ ride[call[h].ride].status = "none"
    BY <1>1 DEF RequestCommit, LocalInv, StagesInv, Booking
  <2>2. s # call[h].ride => ride'[s] = ride[s]
    BY <1>0, <1>1 DEF RequestCommit, RideOfCall
  <2> QED
    BY <2>1, <2>2
<1>2. ASSUME NEW h \in Procs, NEW r \in Rides, CompleteRide(h, r) \/ CancelRide(h, r) PROVE Grows(s)
  <2>1. ride[r].status = "requested"
    BY <1>2 DEF CompleteRide, CancelRide
  <2>2. PICK status \in {"completed", "cancelled"}: ride' = [ride EXCEPT ![r].status = status]
    BY <1>2 DEF CompleteRide, CancelRide
  <2> QED
    BY <1>0, <2>1, <2>2 DEF RideType
<1>3. ASSUME NEW h \in Procs, ChargeRecord(h) \/ CancelStamp(h) PROVE Grows(s)
  <2>1. \/ ride' = [ride EXCEPT ![call[h].ride].paid = call[h].amount]
        \/ ride' = [ride EXCEPT ![call[h].ride].refunded = TRUE]
    BY <1>3 DEF ChargeRecord, CancelStamp, RideOfCall
  <2> QED
    BY <1>0, <2>1 DEF RideType
<1>4. ASSUME NEW h \in Procs, Working(h) PROVE Grows(s)
  <2>1. CASE \/ RequestReadCredits(h) \/ RequestRollback(h) \/ RequestMark(h)
             \/ ChargeRead(h) \/ ChargeDone(h) \/ AwardPost(h) \/ AwardDone(h)
             \/ CancelVoid(h) \/ CancelRefund(h) \/ Posting(h)
    <3>1. ride' = ride
      BY <2>1 DEF RequestReadCredits, RequestRollback, RequestMark, ChargeRead, ChargeDone, AwardPost,
                  AwardDone, CancelVoid, CancelRefund, Posting, rewardVars
    <3> QED
      BY <3>1
  <2> QED
    BY <1>1, <1>3, <1>4, <2>1 DEF Working
<1>5. ASSUME ride' = ride PROVE Grows(s)
  BY <1>5
<1>6. ASSUME NEW h \in Procs, NEW r \in Rides, NEW promo \in BOOLEAN, RequestRide(h, r, promo) PROVE ride' = ride
  BY <1>6 DEF RequestRide
<1>7. ASSUME NEW h \in Procs, NEW g \in Grants, NEW key \in AdminKeys, AdminGrant(h, g[1], g[2], key)
      PROVE  ride' = ride
  BY <1>7 DEF AdminGrant
<1>8. (\E r \in Rides: FinalizePromo(r) \/ ReferralReward(r)) \/ (\E u \in Riders: ScanReferral(u)) \/ Crash
        \/ UNCHANGED rewardVars \/ UNCHANGED vars => ride' = ride
  BY DEF FinalizePromo, ReferralReward, ScanReferral, Crash, rewardVars, vars
<1>9. ASSUME NEW r \in Rides, Task(r) PROVE Grows(s)
  <2>1. CASE MatcherCancel(r)
    <3>1. ride[r].status = "requested" /\ ride' = [ride EXCEPT ![r].status = "unmatched"]
      BY <2>1 DEF MatcherCancel
    <3> QED
      BY <1>0, <3>1 DEF RideType
  <2> QED
    BY <1>5, <1>8, <1>9, <2>1 DEF Task
<1> QED
  BY <1>2, <1>4, <1>5, <1>6, <1>7, <1>8, <1>9 DEF Next

-----------------------------------------------------------------------------
(* What a step does with the ledgers. *)

Sends(h, e) == Call(h, e) /\ UNCHANGED <<balance, entries, tx, strays>>

Returns(h) == Return(h) /\ UNCHANGED <<balance, entries, tx, strays>>

\* The handlers that move do not wait before or after.
NoneWaits ==
  \/ UNCHANGED call
  \/ \E h \in Procs: Turn(h) /\ call[h].at \notin Waiting /\ call'[h].at \notin Waiting

\* Posted with the booking, the reward or the scan, never by a call.
DirectKinds == {"ride-applied", "referral", "referred-signup"}

Traffic ==
  \/ UNCHANGED walletVars /\ NoneWaits
  \/ \E e \in Entry:
       /\ PostInCallersTx(e) /\ NoneWaits /\ Explained(e)' /\ e.key[1] \in DirectKinds
       /\ \/ e.key[1] = "ride-applied"
          \/ (\E r \in Rides: Task(r)) \/ (\E u \in Riders: ScanReferral(u))
  \/ \E h \in Procs, e \in Entry:
       /\ Sends(h, e) /\ Turn(h) /\ call[h].at \notin Waiting /\ call'[h].at \in Waiting
       /\ IsFor(call'[h], e) /\ Explained(e)' /\ e.key[1] \in PostedKinds
  \/ \E h \in Procs: Returns(h) /\ Turn(h) /\ call'[h].at \notin Waiting
  \/ \E p \in Procs: (PostStep(p) \/ Stray(p)) /\ UNCHANGED rewardVars
  \/ WalletCrash /\ \A h \in Procs: call'[h].at = "idle"

\* The steps that leave the ledgers alone.
LEMMA TrafficQuiet ==
  ASSUME RewardInv, NEW h \in Procs,
         \/ RequestReadCredits(h) \/ RequestRollback(h) \/ RequestMark(h) \/ ChargeRecord(h) \/ CancelVoid(h)
         \/ \E r \in Rides: \/ CompleteRide(h, r) \/ CancelRide(h, r)
                            \/ \E promo \in BOOLEAN: RequestRide(h, r, promo)
  PROVE  Traffic
<1> SUFFICES UNCHANGED walletVars /\ Turn(h) /\ call[h].at \notin Waiting /\ call'[h].at \notin Waiting
  BY DEF Traffic, NoneWaits
<1>1. CASE RequestReadCredits(h)
  <2>1. PICK amount: StepWith(h, "book", amount)
    BY <1>1 DEF RequestReadCredits
  <2> QED
    BY <1>1, <2>1, StepWithTurn DEF RequestReadCredits, Waiting
<1>2. CASE RequestRollback(h)
  BY <1>2, FinishTurn DEF RequestRollback, Waiting
<1>3. CASE RequestMark(h)
  BY <1>3, FinishTurn DEF RequestMark, Waiting
<1>4. CASE ChargeRecord(h)
  BY <1>4, ToAwardTurn DEF ChargeRecord, Waiting
<1>5. CASE CancelVoid(h)
  BY <1>5, StepTurn DEF CancelVoid, Waiting, CallAt
<1>6. ASSUME NEW r \in Rides, CompleteRide(h, r) PROVE UNCHANGED walletVars /\ Turn(h) /\ call[h].at \notin Waiting /\ call'[h].at \notin Waiting
  <2>1. PICK at \in {"charge", "award"}: Begin(h, Operation(at, r))
    BY <1>6 DEF CompleteRide
  <2> QED
    BY <1>6, <2>1, BeginTurn DEF CompleteRide, Operation, Waiting
<1>7. ASSUME NEW r \in Rides, CancelRide(h, r) PROVE UNCHANGED walletVars /\ Turn(h) /\ call[h].at \notin Waiting /\ call'[h].at \notin Waiting
  BY <1>7, BeginTurn DEF CancelRide, Operation, Waiting
<1>8. ASSUME NEW r \in Rides, NEW promo \in BOOLEAN, RequestRide(h, r, promo)
      PROVE  UNCHANGED walletVars /\ Turn(h) /\ call[h].at \notin Waiting /\ call'[h].at \notin Waiting
  <2> DEFINE c == [at |-> "apply", ride |-> r, promo |-> promo, amount |-> 0]
  <2>1. Begin(h, c) /\ UNCHANGED walletVars
    BY <1>8 DEF RequestRide
  <2>2. c.at = "apply"
    OBVIOUS
  <2> HIDE DEF c
  <2> QED
    BY <2>1, <2>2, BeginTurn DEF Waiting
<1> QED
  BY <1>1, <1>2, <1>3, <1>4, <1>5, <1>6, <1>7, <1>8

\* The booking posts the debit of the credits the ride takes.
LEMMA TrafficCommit ==
  ASSUME RewardInv, NEW h \in Procs, RequestCommit(h) PROVE Traffic
<1> DEFINE r == call[h].ride
           e == [key |-> <<"ride-applied", r>>, account |-> Credits(r), amount |-> -call[h].amount]
<1>1. call[h] \in CallType /\ call[h].at = "book" /\ r \in Rides
  BY DEF RewardInv, Callers, RideKnown, RequestCommit
<1>2. Turn(h) /\ call[h].at \notin Waiting /\ call'[h].at \notin Waiting
  BY <1>1, StepTurn DEF RequestCommit, Waiting, CallAt
<1>3. CASE UNCHANGED walletVars
  BY <1>2, <1>3 DEF Traffic, NoneWaits
<1>4. CASE call[h].amount > 0 /\ PostInCallersTx(e)
  <2>1. call[h].amount \in 1..Fare
    BY <1>1, <1>4, RewardsAssumption DEF CallType
  <2>2. e \in Entry
    BY <1>1, <2>1, RideEntries
  <2>3. PICK s \in Rides: s = r
    BY <1>1
  <2>4. PICK f \in Entry: f = e
    BY <2>2
  <2>5. ride'[s].status = "requested" /\ ride'[s].credits = call[h].amount
    BY <1>1, <2>3 DEF RequestCommit, RideOfCall, RewardInv, RowTypes
  <2>6. f.key = <<"ride-applied", s>> /\ f.amount = -call[h].amount /\ f.key[1] = "ride-applied"
    BY <2>3, <2>4
  <2>7. \A t \in Rides: /\ f.key # <<"wallet-charge", t>> /\ f.key # <<"ride-refund", t>>
                        /\ f.key = <<"ride-applied", t>> => t = s
    BY <2>6
  <2>8. Explained(f)'
    BY <2>5, <2>6, <2>7 DEF Explained
  <2>9. PostInCallersTx(f)
    BY <1>4, <2>4
  <2> QED
    BY <1>2, <2>6, <2>8, <2>9 DEF Traffic, NoneWaits, DirectKinds
<1> QED
  BY <1>3, <1>4 DEF RequestCommit, RideOfCall

\* The referral's reward and the welcome bonus.
LEMMA TrafficReferral ==
  ASSUME RewardInv, (\E r \in Rides: Task(r)) \/ (\E u \in Riders: ScanReferral(u)) PROVE Traffic
<1>1. ASSUME NEW r \in Rides, FinalizePromo(r) PROVE Traffic
  BY <1>1 DEF FinalizePromo, Traffic, NoneWaits
<1>2. ASSUME NEW u \in Riders, NEW kind \in {"referral", "referred-signup"}, NEW e \in Entry,
             e.key = <<kind, u>>, PostInCallersTx(e), UNCHANGED call
      PROVE  Traffic
  <2>1. e.key[1] = kind /\ \A s \in Rides:
          e.key \notin {<<"ride-applied", s>>, <<"wallet-charge", s>>, <<"ride-refund", s>>}
    BY <1>2
  <2>2. Explained(e)'
    BY <2>1 DEF Explained
  <2> QED
    BY <1>2, <2>1, <2>2 DEF Traffic, NoneWaits, DirectKinds
<1>3. ASSUME NEW r \in Rides, ReferralReward(r) PROVE Traffic
  <2> DEFINE e == [key |-> <<"referral", RiderOf[r]>>, account |-> <<Referrer, "credits">>, amount |-> Bonus]
  <2>1. (UNCHANGED walletVars \/ (Pays /\ PostInCallersTx(e))) /\ UNCHANGED call
    BY <1>3 DEF ReferralReward
  <2>2. (Pays => e \in Entry) /\ RiderOf[r] \in Riders /\ e.key = <<"referral", RiderOf[r]>>
    BY RewardEntries, RewardsAssumption
  <2> HIDE DEF e
  <2> QED
    BY <1>2, <2>1, <2>2 DEF Traffic, NoneWaits
<1>4. ASSUME NEW u \in Riders, ScanReferral(u) PROVE Traffic
  <2> DEFINE e == [key |-> <<"referred-signup", u>>, account |-> <<u, "credits">>, amount |-> Bonus]
  <2>1. (UNCHANGED walletVars \/ (Pays /\ PostInCallersTx(e))) /\ UNCHANGED call
    BY <1>4 DEF ScanReferral
  <2>2. e.key = <<"referred-signup", u>>
    OBVIOUS
  <2>3. Pays => e \in Entry
    <3>1. /\ Pays => Bonus \in Amounts
          /\ <<u, "credits">> \in Accounts /\ <<"referred-signup", u>> \in Keys
      BY RewardsAssumption DEF Pays
    <3> QED
      BY <3>1 DEF Entry
  <2> HIDE DEF e
  <2> QED
    BY <1>2, <2>1, <2>2, <2>3 DEF Traffic, NoneWaits
<1>5. ASSUME NEW r \in Rides, MatcherCancel(r) PROVE Traffic
  BY <1>5 DEF MatcherCancel, Traffic, NoneWaits
<1> QED
  BY <1>1, <1>3, <1>4, <1>5 DEF Task

\* A handler takes the answer of its post.
LEMMA TrafficReturn ==
  ASSUME RewardInv, NEW h \in Procs, ChargeDone(h) \/ AwardDone(h) \/ CancelStamp(h) PROVE Traffic
<1>1. Returns(h)
  BY DEF ChargeDone, AwardDone, CancelStamp, Returns
<1>2. Turn(h) /\ call'[h].at \notin Waiting
  <2>1. CASE ChargeDone(h)
    BY <2>1, StepTurn, ToAwardTurn DEF ChargeDone, Waiting, CallAt
  <2>2. CASE AwardDone(h) \/ CancelStamp(h)
    BY <2>2, FinishTurn DEF AwardDone, CancelStamp, Waiting
  <2> QED
    BY <2>1, <2>2
<1> QED
  BY <1>1, <1>2 DEF Traffic

\* A handler starts a post.
LEMMA TrafficSends ==
  ASSUME RewardInv, NEW h \in Procs, NEW e \in Entry, Call(h, e), UNCHANGED <<balance, entries, tx, strays>>,
         Turn(h), call[h].at \notin Waiting, call'[h].at \in Waiting, IsFor(call'[h], e),
         e.key[1] \in PostedKinds, Explained(e)'
  PROVE  Traffic
  BY DEF Traffic, Sends

\* The wallet is charged at most what is due.
LEMMA TrafficChargeRead ==
  ASSUME RewardInv, LocalInv, NEW h \in Procs, ChargeRead(h) PROVE Traffic
<1>0. /\ call[h] \in CallType /\ call[h].at = "charge" /\ call[h].ride \in Rides
      /\ ride[call[h].ride].status = "completed" /\ UNCHANGED <<balance, entries, tx, strays, ride>>
  BY DEF RewardInv, Callers, RideKnown, ChargeRead, LocalInv, StagesInv, Completing, Paying
<1>1. PICK r \in Rides: r = call[h].ride
  BY <1>0
<1>2. PICK amount: amount = Min2(ride[r].due, balance[Wallet(r)])
  OBVIOUS
<1>3. /\ ride[r].due \in 0..Fare /\ amount \in 0..Fare /\ amount <= ride[r].due
  <2>1. ride[r].due \in 0..Fare
    BY DEF RewardInv, RowTypes, RideType
  <2>2. balance[Wallet(r)] \in Nat
    BY RewardsAssumption DEF Wallet, RewardInv, WalletInv, DbType, Solvent, Covered
  <2> QED
    BY <1>2, <2>1, <2>2, RewardsAssumption DEF Min2
<1>4. CASE ToAward(h) /\ UNCHANGED post
  <2>1. Turn(h) /\ call'[h].at \notin Waiting /\ call[h].at \notin Waiting
    BY <1>0, <1>4, ToAwardTurn DEF Waiting
  <2> QED
    BY <1>0, <1>4, <2>1 DEF Traffic, NoneWaits, walletVars
<1>5. CASE /\ amount > 0 /\ StepWith(h, "charging", amount)
           /\ Call(h, [key |-> <<"wallet-charge", r>>, account |-> Wallet(r), amount |-> -amount])
  <2>1. [key |-> <<"wallet-charge", r>>, account |-> Wallet(r), amount |-> -amount] \in Entry
    <3>1. amount \in 1..Fare
      BY <1>3, <1>5, RewardsAssumption
    <3> QED
      BY <3>1, RideEntries
  <2>2. PICK e \in Entry: e = [key |-> <<"wallet-charge", r>>, account |-> Wallet(r), amount |-> -amount]
    BY <2>1
  <2>3. e.key = <<"wallet-charge", r>> /\ e.key[1] = "wallet-charge" /\ e.amount = -amount
    BY <2>2
  <2>4. Turn(h) /\ call'[h].at = "charging" /\ call'[h].ride = r /\ call'[h].amount = amount
    BY <1>1, <1>5, StepWithTurn
  <2>5. e.amount < 0 /\ -e.amount <= ride[r].due
    BY <1>3, <1>5, <2>3
  <2>6. Explained(e)'
    <3>1. \A s \in Rides: /\ e.key # <<"ride-applied", s>> /\ e.key # <<"ride-refund", s>>
                          /\ e.key = <<"wallet-charge", s>> => s = r
      BY <2>3
    <3> QED
      BY <1>0, <1>1, <2>5, <3>1 DEF Explained
  <2>7. IsFor(call'[h], e) /\ e.key[1] \in PostedKinds
    BY <2>3, <2>4 DEF IsFor, PostedKinds
  <2>8. Call(h, e)
    BY <1>5, <2>2
  <2> QED
    BY <1>0, <2>4, <2>6, <2>7, <2>8, TrafficSends DEF Waiting
<1> QED
  BY <1>1, <1>2, <1>4, <1>5 DEF ChargeRead, RideOfCall

\* The completion bonus and the grants change nothing a ride is charged.
LEMMA TrafficAward ==
  ASSUME RewardInv, NEW h \in Procs, AwardPost(h) PROVE Traffic
<1>0. /\ call[h].at = "award" /\ call[h].ride \in Rides /\ UNCHANGED <<balance, entries, tx, strays>>
      /\ Step(h, "awarding")
  BY DEF RewardInv, Callers, RideKnown, AwardPost
<1>1. PICK r \in Rides: r = call[h].ride
  BY <1>0
<1>2. [key |-> <<"ride-completion-reward", r>>, account |-> Credits(r), amount |-> Award] \in Entry
  BY RewardEntries, RewardsAssumption
<1>3. PICK e \in Entry: e = [key |-> <<"ride-completion-reward", r>>, account |-> Credits(r), amount |-> Award]
  BY <1>2
<1>4. e.key = <<"ride-completion-reward", r>> /\ e.key[1] = "ride-completion-reward"
  BY <1>3
<1>5. Explained(e)'
  BY <1>4 DEF Explained
<1>6. Turn(h) /\ call'[h].at = "awarding" /\ call'[h].ride = r
  BY <1>0, <1>1, StepTurn DEF CallAt
<1>7. IsFor(call'[h], e) /\ e.key[1] \in PostedKinds
  BY <1>4, <1>6 DEF IsFor, PostedKinds
<1>8. Call(h, e)
  BY <1>1, <1>3 DEF AwardPost, RideOfCall
<1> QED
  BY <1>0, <1>5, <1>6, <1>7, <1>8, TrafficSends DEF Waiting

LEMMA TrafficGrant ==
  ASSUME RewardInv, NEW h \in Procs, NEW g \in Grants, NEW key \in AdminKeys,
         AdminGrant(h, g[1], g[2], key)
  PROVE  Traffic
<1>1. PICK e \in Entry: e = [key |-> <<g[1][2], key>>, account |-> g[1], amount |-> g[2]]
  BY GrantEntry
<1>2. g[1][2] \in {"wallet", "credits"}
  BY RewardsAssumption
<1>3. e.key = <<g[1][2], key>> /\ e.key[1] \in {"wallet", "credits"}
  BY <1>1, <1>2
<1>4. Explained(e)'
  BY <1>3 DEF Explained
<1>5. Begin(h, Operation("granting", None)) /\ UNCHANGED <<balance, entries, tx, strays>>
  BY DEF AdminGrant
<1>6. Call(h, e)
  BY <1>1 DEF AdminGrant
<1>7. Turn(h) /\ call'[h].at = "granting" /\ call[h].at = "idle"
  BY <1>5, BeginTurn DEF Operation
<1>8. IsFor(call'[h], e) /\ e.key[1] \in PostedKinds
  BY <1>3, <1>7 DEF IsFor, PostedKinds
<1> QED
  BY <1>4, <1>5, <1>6, <1>7, <1>8, TrafficSends DEF Waiting

\* The refund is what the booking took.
LEMMA TrafficRefund ==
  ASSUME RewardInv, LocalInv, TracedInv, NEW h \in Procs, CancelRefund(h) PROVE Traffic
<1>0. /\ call[h].at = "refund" /\ call[h].ride \in Rides /\ ride[call[h].ride].status = "cancelled"
      /\ UNCHANGED <<balance, entries, tx, strays, ride>>
  BY DEF RewardInv, Callers, RideKnown, CancelRefund, LocalInv, StagesInv, Cancelling
<1>1. PICK r \in Rides: r = call[h].ride
  BY <1>0
<1>2. CASE Finish(h) /\ UNCHANGED post
  <2>1. Turn(h) /\ call'[h].at \notin Waiting /\ call[h].at \notin Waiting
    BY <1>0, <1>2, FinishTurn DEF Waiting
  <2> QED
    BY <1>0, <1>2, <2>1 DEF Traffic, NoneWaits, walletVars
<1>3. ASSUME NEW f \in entries, f.key = <<"ride-applied", r>>, Step(h, "refunding"),
             Call(h, [key |-> <<"ride-refund", r>>, account |-> Credits(r), amount |-> -f.amount])
      PROVE  Traffic
  <2>1. f \in Entry /\ f.amount = -ride[r].credits
    BY <1>3 DEF RewardInv, WalletInv, DbType, TracedInv, Written, Explained
  <2>2. PICK e \in Entry: e = [key |-> <<"ride-refund", r>>, account |-> Credits(r), amount |-> -f.amount]
    BY <2>1, RefundEntry
  <2>3. e.key = <<"ride-refund", r>> /\ e.key[1] = "ride-refund" /\ e.amount = -f.amount
    BY <2>2
  <2>4. e.amount = ride[r].credits
    <3>1. ride[r].credits \in 0..Fare
      BY DEF RewardInv, RowTypes, RideType
    <3> QED
      BY <2>1, <2>3, <3>1
  <2>5. Explained(e)'
    <3>1. \A s \in Rides: /\ e.key # <<"ride-applied", s>> /\ e.key # <<"wallet-charge", s>>
                          /\ e.key = <<"ride-refund", s>> => s = r
      BY <2>3
    <3> QED
      BY <1>0, <1>1, <2>4, <3>1 DEF Explained
  <2>6. Turn(h) /\ call'[h].at = "refunding" /\ call'[h].ride = r
    BY <1>1, <1>3, StepTurn DEF CallAt
  <2>7. IsFor(call'[h], e) /\ e.key[1] \in PostedKinds
    BY <2>3, <2>6 DEF IsFor, PostedKinds
  <2>8. Call(h, e)
    BY <1>3, <2>2
  <2> QED
    BY <1>0, <2>5, <2>6, <2>7, <2>8, TrafficSends DEF Waiting
<1> QED
  BY <1>1, <1>2, <1>3 DEF CancelRefund, RideOfCall

\* Every step uses the ledgers in one of these ways.
LEMMA TrafficNext ==
  ASSUME RewardInv, LocalInv, TracedInv, [Next]_vars PROVE Traffic
<1>1. ASSUME NEW h \in Procs, Working(h) PROVE Traffic
  <2>1. CASE Posting(h)
    BY <2>1 DEF Posting, Traffic
  <2> QED
    BY <1>1, <2>1, TrafficQuiet, TrafficCommit, TrafficReturn, TrafficChargeRead, TrafficAward, TrafficRefund
       DEF Working
<1>2. ASSUME NEW h \in Procs, NEW r \in Rides,
             (\E promo \in BOOLEAN: RequestRide(h, r, promo)) \/ CompleteRide(h, r) \/ CancelRide(h, r)
      PROVE  Traffic
  BY <1>2, TrafficQuiet
<1>3. ASSUME NEW h \in Procs, NEW g \in Grants, NEW key \in AdminKeys, AdminGrant(h, g[1], g[2], key)
      PROVE  Traffic
  BY <1>3, TrafficGrant
<1>4. ASSUME NEW h \in Procs, Stray(h), UNCHANGED rewardVars PROVE Traffic
  BY <1>4 DEF Traffic
<1>5. (\E r \in Rides: Task(r)) \/ (\E u \in Riders: ScanReferral(u)) => Traffic
  BY TrafficReferral
<1>6. Crash => Traffic
  BY DEF Crash, Traffic, NoCall, Operation
<1>7. UNCHANGED vars => Traffic
  BY DEF vars, rewardVars, Traffic, NoneWaits
<1> QED
  BY <1>1, <1>2, <1>3, <1>4, <1>5, <1>6, <1>7 DEF Next

\* What the statements of a post write comes from the post, and its entry stays.
LEMMA PostWrites ==
  ASSUME RewardInv, NEW p \in Procs, PostStep(p) \/ Stray(p)
  PROVE  /\ post[p].at # "idle" /\ post[p].entry \in Entry
         /\ \A q \in Procs: /\ post'[q].entry = post[q].entry
                            /\ post'[q].at # "idle" <=> post[q].at # "idle"
         /\ \A q \in Procs \ {p}: post'[q] = post[q]
         /\ \A e \in entries: e \in entries'
         /\ \A e \in Entry: InTx(e)' => InTx(e) \/ e = post[p].entry
         /\ \A e \in Entry: Written(e)' => Written(e) \/ e = post[p].entry
<1> DEFINE Same == UNCHANGED db
           Wrote(f) == /\ \A e \in entries: e \in entries'
                       /\ \A e \in Entry: InTx(e)' => InTx(e) \/ e = f
                       /\ \A e \in Entry: e \in entries' => Written(e) \/ e = f
<1>0. DbType /\ Calls
  BY DEF RewardInv, WalletInv
<1>1. CASE Stray(p)
  <2>1. PICK c \in Procs: post' = [post EXCEPT ![p].conn = c]
    BY <1>1 DEF Stray
  <2>2. post[p].at # "idle" /\ UNCHANGED <<entries, tx>>
    BY <1>1 DEF Stray
  <2>3. post[p] \in PostType /\ post[p].entry \in Entry
    BY <1>0, <2>2 DEF Calls, InFlight
  <2>4. post'[p].entry = post[p].entry /\ post'[p].at = post[p].at /\ \A q \in Procs \ {p}: post'[q] = post[q]
    BY <1>0, <2>1, <2>3 DEF Calls, PostType
  <2> QED
    BY <2>2, <2>3, <2>4 DEF InTx, Written
<1>2. CASE PostStep(p)
  <2> DEFINE c == post[p].conn
  <2>1. PICK at \in PostAt \ {"idle"}:
          /\ post[p].at # "idle" /\ c \in Procs /\ post[p].entry \in Entry /\ Goto(p, at)
          /\ \/ UNCHANGED db \/ OpenTx(c) \/ Insert(c, post[p].entry) \/ Update(c, post[p].entry)
             \/ Commit(c) \/ Rollback(c)
    BY <1>0, <1>2, PostStepEffect DEF PostAt
  <2>2. /\ post'[p].at # "idle" /\ post'[p].entry = post[p].entry
        /\ \A q \in Procs \ {p}: post'[q] = post[q]
    BY <1>0, <2>1, GotoEffect
  <2>3. PICK f \in Entry, d \in Procs: f = post[p].entry /\ d = c
    BY <2>1
  <2>4. Wrote(f)
    <3>1. CASE UNCHANGED db
      BY <3>1 DEF db, InTx, Written
    <3>2. CASE OpenTx(d)
      <4>1. entries' = entries /\ \A b \in Procs: tx'[b].rows = tx[b].rows
        BY <1>0, <3>2, OpenTxEffect
      <4> QED
        BY <4>1 DEF InTx, Written
    <3>3. CASE Insert(d, f)
      <4>1. \/ entries' = entries /\ \A b \in Procs: tx'[b].rows = tx[b].rows \/ tx'[b].rows = tx[b].rows \cup {f}
            \/ entries' = entries \cup {f} /\ tx' = tx
        BY <1>0, <3>3, InsertEffect DEF Insert
      <4> QED
        BY <4>1 DEF InTx, Written
    <3>4. CASE Update(d, f)
      <4>1. entries' = entries /\ \A b \in Procs: tx'[b].rows = tx[b].rows
        BY <1>0, <3>4, UpdateEffect DEF Update
      <4> QED
        BY <4>1 DEF InTx, Written
    <3>5. CASE Commit(d)
      <4>1. /\ entries' = entries \cup tx[d].rows
            /\ \A b \in Procs: tx'[b].rows = tx[b].rows \/ tx'[b].rows = {}
        BY <1>0, <3>5, CommitEffect DEF Closed
      <4> QED
        BY <4>1 DEF InTx, Written
    <3>6. CASE Rollback(d)
      <4>1. /\ entries' = entries
            /\ \A b \in Procs: tx'[b].rows = tx[b].rows \/ tx'[b].rows = {}
        BY <1>0, <3>6, RollbackEffect DEF Closed
      <4> QED
        BY <4>1 DEF InTx, Written
    <3> QED
      BY <2>1, <2>3, <3>1, <3>2, <3>3, <3>4, <3>5, <3>6
  <2>5. \A e \in Entry: Written(e)' => Written(e) \/ e = f
    BY <2>4 DEF Written
  <2> QED
    BY <2>1, <2>2, <2>3, <2>4, <2>5
<1> QED
  BY <1>1, <1>2

\* A call that starts, or takes its answer.
LEMMA SendsEffect ==
  ASSUME RewardInv, NEW h \in Procs, NEW e \in Entry, Sends(h, e)
  PROVE  /\ post'[h].at # "idle" /\ post'[h].entry = e /\ \A g \in Procs \ {h}: post'[g] = post[g]
         /\ UNCHANGED <<entries, tx, strays>>
<1>1. post'[h] = [at |-> "begin", conn |-> h, entry |-> e] /\ \A g \in Procs \ {h}: post'[g] = post[g]
  BY CallEffect DEF Sends, RewardInv, WalletInv
<1> QED
  BY <1>1 DEF Sends

LEMMA ReturnsEffect ==
  ASSUME RewardInv, NEW h \in Procs, Returns(h)
  PROVE  /\ post'[h].at = "idle" /\ \A g \in Procs \ {h}: post'[g] = post[g]
         /\ UNCHANGED <<entries, tx, strays>>
<1>1. post'[h] = Idle /\ \A g \in Procs \ {h}: post'[g] = post[g]
  BY ReturnEffect DEF Returns, RewardInv, WalletInv
<1> QED
  BY <1>1 DEF Returns, Idle

LEMMA SentStep == ASSUME RewardInv, LocalInv, TracedInv, SentInv, [Next]_vars PROVE SentInv'
<1>1. CASE NoneWaits /\ UNCHANGED post
  BY <1>1 DEF NoneWaits, Turn, SentInv
<1>2. ASSUME NEW h \in Procs, NEW e \in Entry, Sends(h, e), Turn(h), IsFor(call'[h], e) PROVE SentInv'
  <2>1. post'[h].at # "idle" /\ post'[h].entry = e /\ \A g \in Procs \ {h}: post'[g] = post[g]
    BY <1>2, SendsEffect
  <2> QED
    BY <1>2, <2>1 DEF SentInv, Turn
<1>3. ASSUME NEW h \in Procs, Returns(h), Turn(h), call'[h].at \notin Waiting PROVE SentInv'
  BY <1>3, ReturnsEffect DEF SentInv, Turn
<1>4. ASSUME NEW p \in Procs, PostStep(p) \/ Stray(p), UNCHANGED rewardVars PROVE SentInv'
  <2>1. \A q \in Procs: /\ post'[q].entry = post[q].entry
                        /\ post'[q].at # "idle" <=> post[q].at # "idle"
    BY <1>4, PostWrites
  <2> QED
    BY <1>4, <2>1 DEF SentInv, rewardVars
<1>5. (\A h \in Procs: call'[h].at = "idle") => SentInv'
  BY DEF SentInv, Waiting
<1> QED
  BY <1>1, <1>2, <1>3, <1>4, <1>5, TrafficNext DEF Traffic, walletVars, PostInCallersTx

\* What explained a row explains it still.
LEMMA ExplainedStays ==
  ASSUME NEW e \in Entry, Explained(e), \A s \in Rides: Grows(s) PROVE Explained(e)'
  BY DEF Explained, Grows

LEMMA TracedStep == ASSUME RewardInv, LocalInv, TracedInv, [Next]_vars PROVE TracedInv'
<1>1. \A e \in Entry: Explained(e) => Explained(e)'
  BY RidesGrow, ExplainedStays
<1> SUFFICES ASSUME NEW e \in Entry
             PROVE  /\ Written(e)' \/ InPost(e)' => Explained(e) \/ Explained(e)'
                    /\ InTx(e)' \/ InPost(e)' => e.key[1] \in PostedKinds
  BY <1>1 DEF TracedInv
<1>2. CASE UNCHANGED walletVars
  BY <1>2 DEF walletVars, TracedInv, Written, InTx, InPost
<1>3. ASSUME NEW f \in Entry, PostInCallersTx(f), Explained(f)'
      PROVE  /\ Written(e)' \/ InPost(e)' => Explained(e) \/ Explained(e)'
             /\ InTx(e)' \/ InPost(e)' => e.key[1] \in PostedKinds
  BY <1>3 DEF PostInCallersTx, TracedInv, Written, InTx, InPost
<1>4. ASSUME NEW h \in Procs, NEW f \in Entry, Sends(h, f), Explained(f)', f.key[1] \in PostedKinds
      PROVE  /\ Written(e)' \/ InPost(e)' => Explained(e) \/ Explained(e)'
             /\ InTx(e)' \/ InPost(e)' => e.key[1] \in PostedKinds
  <2>1. /\ post'[h].entry = f /\ \A g \in Procs \ {h}: post'[g] = post[g]
        /\ UNCHANGED <<entries, tx>>
    BY <1>4, SendsEffect
  <2>2. /\ (Written(e)' <=> Written(e)) /\ (InTx(e)' <=> InTx(e))
        /\ InPost(e)' => InPost(e) \/ e = f
    BY <2>1 DEF Written, InTx, InPost
  <2> QED
    BY <1>4, <2>2 DEF TracedInv
<1>5. ASSUME NEW h \in Procs, Returns(h)
      PROVE  /\ Written(e)' \/ InPost(e)' => Explained(e) \/ Explained(e)'
             /\ InTx(e)' \/ InPost(e)' => e.key[1] \in PostedKinds
  <2>1. /\ post'[h].at = "idle" /\ \A g \in Procs \ {h}: post'[g] = post[g]
        /\ UNCHANGED <<entries, tx>>
    BY <1>5, ReturnsEffect
  <2>2. /\ (Written(e)' <=> Written(e)) /\ (InTx(e)' <=> InTx(e))
        /\ InPost(e)' => InPost(e)
    BY <2>1 DEF Written, InTx, InPost
  <2> QED
    BY <2>2 DEF TracedInv
<1>6. ASSUME NEW p \in Procs, PostStep(p) \/ Stray(p)
      PROVE  /\ Written(e)' \/ InPost(e)' => Explained(e) \/ Explained(e)'
             /\ InTx(e)' \/ InPost(e)' => e.key[1] \in PostedKinds
  <2>1. /\ Written(e)' => Written(e) \/ e = post[p].entry
        /\ InTx(e)' => InTx(e) \/ e = post[p].entry
        /\ post[p].at # "idle"
    BY <1>6, PostWrites
  <2>2. InPost(e)' => InPost(e)
    BY <1>6, PostWrites DEF InPost
  <2>3. e = post[p].entry => InPost(e)
    BY <2>1 DEF InPost
  <2> QED
    BY <2>1, <2>2, <2>3 DEF TracedInv
<1>7. CASE WalletCrash
  BY <1>7 DEF WalletCrash, Closed, Idle, TracedInv, Written, InTx, InPost
<1> QED
  BY <1>2, <1>3, <1>4, <1>5, <1>6, <1>7, TrafficNext DEF Traffic

-----------------------------------------------------------------------------
(* What a ride costs: at most one row of each kind.                         *)

LEMMA TakenNone == Taken({}) = 0
<1> DEFINE f == [e \in {} |-> -e.amount]
<1>1. Taken({}) = Sum(f, {})
  BY DEF Taken, Sum
<1> HIDE DEF f
<1> QED
  BY <1>1, SumEmpty

LEMMA TakenAdd ==
  ASSUME NEW S, IsFiniteSet(S), NEW y, y \notin S, \A x \in S \cup {y}: x.amount \in Int
  PROVE  Taken(S \cup {y}) = Taken(S) - y.amount
<1> DEFINE f == [e \in S \cup {y} |-> -e.amount]
           g == [e \in S |-> -e.amount]
<1>1. Taken(S \cup {y}) = Sum(f, S \cup {y}) /\ Taken(S) = Sum(g, S)
  BY DEF Taken, Sum
<1>2. /\ \A x \in S \cup {y}: f[x] \in Int
      /\ \A x \in S: f[x] = g[x]
      /\ f[y] = -y.amount
  OBVIOUS
<1> HIDE DEF f, g
<1>3. Sum(f, S \cup {y}) = f[y] + Sum(f, S)
  BY <1>2, SumAdd
<1>4. Sum(f, S) = Sum(g, S)
  BY <1>2, SumSame
<1>5. Sum(f, S) \in Int
  BY <1>2, SumType
<1> QED
  BY <1>1, <1>2, <1>3, <1>4, <1>5

\* No row, or one, with what it takes.
Part(A, x) == (A = {} /\ x = 0) \/ \E e \in A: A = {e} /\ x = -e.amount

LEMMA TakenPlus ==
  ASSUME NEW S, IsFiniteSet(S), NEW A, S \cap A = {}, NEW x, Part(A, x), \A e \in S \cup A: e.amount \in Int,
         Taken(S) \in Int
  PROVE  Taken(S \cup A) = Taken(S) + x /\ IsFiniteSet(S \cup A) /\ x \in Int
<1>1. CASE A = {} /\ x = 0
  <2>1. S \cup A = S
    BY <1>1
  <2> QED
    BY <1>1, <2>1
<1>2. ASSUME NEW y \in A, A = {y}, x = -y.amount
      PROVE  Taken(S \cup A) = Taken(S) + x /\ IsFiniteSet(S \cup A) /\ x \in Int
  <2>1. y \notin S /\ y.amount \in Int /\ S \cup A = S \cup {y}
    BY <1>2
  <2>2. Taken(S \cup {y}) = Taken(S) - y.amount
    BY <1>2, <2>1, TakenAdd
  <2>3. IsFiniteSet(S \cup {y})
    BY FS_AddElement
  <2> QED
    BY <1>2, <2>1, <2>2, <2>3
<1> QED
  BY <1>1, <1>2 DEF Part

RowsOf(key) == {e \in entries: e.key = key}

LEMMA RowsPart ==
  ASSUME RewardInv, NEW key PROVE \E x: Part(RowsOf(key), x)
<1>1. \A e, f \in RowsOf(key): e = f
  BY DEF RewardInv, WalletInv, Keyed, Unique, RowsOf
<1>2. CASE RowsOf(key) = {}
  BY <1>2 DEF Part
<1>3. ASSUME NEW e \in RowsOf(key) PROVE \E x: Part(RowsOf(key), x)
  <2>1. RowsOf(key) = {e}
    BY <1>1
  <2> QED
    BY <2>1 DEF Part
<1> QED
  BY <1>2, <1>3

LEMMA CostParts ==
  ASSUME RewardInv, NEW r \in Rides
  PROVE  \E a, b, c \in Int:
           /\ Cost(r) = a + b + c
           /\ Part(RowsOf(<<"ride-applied", r>>), a)
           /\ Part(RowsOf(<<"ride-refund", r>>), b)
           /\ Part(RowsOf(<<"wallet-charge", r>>), c)
<1> DEFINE A == RowsOf(<<"ride-applied", r>>)
           B == RowsOf(<<"ride-refund", r>>)
           C == RowsOf(<<"wallet-charge", r>>)
<1>1. \A e \in A \cup B \cup C: e.amount \in Int
  BY WalletAssumption DEF RewardInv, WalletInv, DbType, RowsOf, Entry
<1>2. {} \cap A = {} /\ ({} \cup A) \cap B = {} /\ ({} \cup A \cup B) \cap C = {}
  BY DEF RowsOf
<1>3. {e \in entries: e.key \in RideKeys(r)} = {} \cup A \cup B \cup C
  BY DEF RowsOf, RideKeys
<1>4. PICK a, b, c: Part(A, a) /\ Part(B, b) /\ Part(C, c)
  BY RowsPart
<1> HIDE DEF A, B, C
<1>5. Taken({}) = 0 /\ IsFiniteSet({})
  BY TakenNone, FS_EmptySet
<1>6. Taken({} \cup A) = a /\ IsFiniteSet({} \cup A) /\ a \in Int
  <2> DEFINE S == {}
  <2>0. IsFiniteSet(S) /\ S \cap A = {} /\ Taken(S) = 0 /\ \A e \in S \cup A: e.amount \in Int
    BY <1>1, <1>5
  <2>1. Taken(S) \in Int
    BY <2>0
  <2> HIDE DEF S
  <2>3. Taken(S \cup A) = Taken(S) + a /\ IsFiniteSet(S \cup A) /\ a \in Int
    BY <1>4, <2>0, <2>1, TakenPlus
  <2>4. Taken(S \cup A) = a
    BY <2>0, <2>3
  <2> QED
    BY <2>3, <2>4 DEF S
<1>7. Taken({} \cup A \cup B) = a + b /\ IsFiniteSet({} \cup A \cup B) /\ b \in Int
  <2>1. \A e \in ({} \cup A) \cup B: e.amount \in Int
    BY <1>1
  <2> DEFINE S == {} \cup A
  <2>2. IsFiniteSet(S) /\ S \cap B = {} /\ Taken(S) = a /\ \A e \in S \cup B: e.amount \in Int
    BY <1>2, <1>6, <2>1
  <2> HIDE DEF S
  <2>3. Taken(S \cup B) = Taken(S) + b /\ IsFiniteSet(S \cup B) /\ b \in Int
    BY <1>4, <1>6, <2>2, TakenPlus
  <2> QED
    BY <2>2, <2>3 DEF S
<1>8. Taken({} \cup A \cup B \cup C) = a + b + c /\ c \in Int
  <2> DEFINE S == {} \cup A \cup B
  <2>2. IsFiniteSet(S) /\ S \cap C = {} /\ Taken(S) = a + b /\ \A e \in S \cup C: e.amount \in Int
    BY <1>1, <1>2, <1>7
  <2> HIDE DEF S
  <2>3. Taken(S \cup C) = Taken(S) + c /\ IsFiniteSet(S \cup C) /\ c \in Int
    BY <1>4, <1>6, <1>7, <2>2, TakenPlus
  <2> QED
    BY <2>2, <2>3 DEF S
<1> QED
  BY <1>3, <1>4, <1>6, <1>7, <1>8 DEF Cost, A, B, C

\* The rows of a ride add up to at most its credits and its due.
LEMMA CostBounded ==
  ASSUME RewardInv, LocalInv, TracedInv PROVE NoRideOverpaid
<1> SUFFICES ASSUME NEW r \in Rides
             PROVE  Cost(r) <= Fare - (IF usage[r] \in {"APPLIED", "USED"} THEN Discount ELSE 0)
  BY DEF NoRideOverpaid
<1>1. PICK a, b, c \in Int:
           /\ Cost(r) = a + b + c
           /\ Part(RowsOf(<<"ride-applied", r>>), a)
           /\ Part(RowsOf(<<"ride-refund", r>>), b)
           /\ Part(RowsOf(<<"wallet-charge", r>>), c)
  BY CostParts
<1>2. \A e \in entries: e \in Entry /\ e.amount \in Int /\ Explained(e)
  BY WalletAssumption DEF RewardInv, WalletInv, DbType, TracedInv, Written, Entry
<1>3. ride[r].credits \in Nat /\ ride[r].due \in Nat /\ Fare \in Nat /\ Discount \in 0..Fare
  BY RewardsAssumption DEF RewardInv, RowTypes, RideType
<1>4. a = 0 \/ (ride[r].status # "none" /\ a = ride[r].credits)
  BY <1>1, <1>2, <1>3 DEF Part, RowsOf, Explained
<1>5. b = 0 \/ (ride[r].status # "none" /\ b = -ride[r].credits)
  BY <1>1, <1>2, <1>3 DEF Part, RowsOf, Explained
<1>6. c = 0 \/ (ride[r].status # "none" /\ c <= ride[r].due)
  BY <1>1, <1>2, <1>3 DEF Part, RowsOf, Explained
<1>7. CASE ride[r].status # "none"
  <2>1. ride[r].credits + ride[r].due <= Fare - (IF usage[r] \in Live THEN Discount ELSE 0)
    BY <1>7 DEF LocalInv, AmountInv
  <2> QED
    BY <1>1, <1>3, <1>4, <1>5, <1>6, <2>1 DEF Live
<1>8. CASE ride[r].status = "none"
  <2>1. usage[r] = "none"
    BY <1>8 DEF LocalInv, PromoInv
  <2> QED
    BY <1>1, <1>3, <1>4, <1>5, <1>6, <1>8, <2>1
<1> QED
  BY <1>7, <1>8

MoneyInv == RewardInv /\ LocalInv /\ TracedInv /\ SentInv

LEMMA MoneyInit == Init => MoneyInv
<1> SUFFICES ASSUME Init PROVE MoneyInv
  OBVIOUS
<1>1. RewardInv /\ LocalInv
  BY RewardInvInit, LocalInit
<1>2. TracedInv
  BY DEF Init, WalletInit, Closed, Idle, TracedInv, Written, InTx, InPost
<1>3. SentInv
  BY DEF Init, NoCall, Operation, SentInv, Waiting
<1> QED
  BY <1>1, <1>2, <1>3 DEF MoneyInv

LEMMA MoneyStep == MoneyInv /\ [Next]_vars => MoneyInv'
  BY RewardInvStep, LocalStep, TracedStep, SentStep DEF MoneyInv

LEMMA MoneyAlways == Spec => []MoneyInv
  BY MoneyInit, MoneyStep, PTL DEF Spec

\* No ride takes more from its rider than the fare less the promo, whatever
\* bookings, completions, cancellations, grants, strays and crashes interleave.
THEOREM RidesNeverOverpaid == Spec => []NoRideOverpaid
<1>1. MoneyInv => NoRideOverpaid
  BY CostBounded DEF MoneyInv
<1> QED
  BY <1>1, MoneyAlways, PTL

-----------------------------------------------------------------------------
(* What the rest of the steps leaves alone. *)

\* The row of a ride changes by these actions only.
RowChange(s) ==
  \/ ride'[s] = ride[s]
  \/ \E h \in Procs: /\ call[h].ride = s
                     /\ RequestCommit(h) \/ ChargeRecord(h) \/ CancelStamp(h)
  \/ \E h \in Procs: CompleteRide(h, s) \/ CancelRide(h, s)
  \/ MatcherCancel(s)

LEMMA RowChanges == RewardInv /\ [Next]_vars => \A s \in Rides: RowChange(s)
<1> SUFFICES ASSUME RewardInv, [Next]_vars, NEW s \in Rides PROVE RowChange(s)
  OBVIOUS
<1> USE DEF RowChange
<1>0. ride \in [Rides -> RideType]
  BY DEF RewardInv, RowTypes
<1>1. ASSUME NEW h \in Procs, RequestCommit(h) \/ ChargeRecord(h) \/ CancelStamp(h) PROVE RowChange(s)
  <2>1. s # call[h].ride => ride'[s] = ride[s]
    <3>1. CASE RequestCommit(h)
      BY <1>0, <3>1 DEF RequestCommit, RideOfCall
    <3>2. CASE ChargeRecord(h) \/ CancelStamp(h)
      BY <1>0, <3>2 DEF ChargeRecord, CancelStamp, RideOfCall
    <3> QED
      BY <1>1, <3>1, <3>2
  <2> QED
    BY <1>1, <2>1
<1>2. ASSUME NEW h \in Procs, NEW r \in Rides, CompleteRide(h, r) \/ CancelRide(h, r) PROVE RowChange(s)
  <2>1. s # r => ride'[s] = ride[s]
    BY <1>0, <1>2 DEF CompleteRide, CancelRide
  <2> QED
    BY <1>2, <2>1
<1>3. ASSUME NEW h \in Procs, Working(h) PROVE RowChange(s)
  <2>1. CASE \/ RequestReadCredits(h) \/ RequestRollback(h) \/ RequestMark(h)
             \/ ChargeRead(h) \/ ChargeDone(h) \/ AwardPost(h) \/ AwardDone(h)
             \/ CancelVoid(h) \/ CancelRefund(h) \/ Posting(h)
    <3>1. ride' = ride
      BY <2>1 DEF RequestReadCredits, RequestRollback, RequestMark, ChargeRead, ChargeDone, AwardPost,
                  AwardDone, CancelVoid, CancelRefund, Posting, rewardVars
    <3> QED
      BY <3>1
  <2> QED
    BY <1>1, <1>3, <2>1 DEF Working
<1>4. ASSUME NEW h \in Procs, NEW r \in Rides, NEW promo \in BOOLEAN, RequestRide(h, r, promo) PROVE ride' = ride
  BY <1>4 DEF RequestRide
<1>5. ASSUME NEW h \in Procs, NEW g \in Grants, NEW key \in AdminKeys, AdminGrant(h, g[1], g[2], key)
      PROVE  ride' = ride
  BY <1>5 DEF AdminGrant
<1>6. (\E r \in Rides: FinalizePromo(r) \/ ReferralReward(r)) \/ (\E u \in Riders: ScanReferral(u)) \/ Crash
        \/ UNCHANGED rewardVars \/ UNCHANGED vars => ride' = ride
  BY DEF FinalizePromo, ReferralReward, ScanReferral, Crash, rewardVars, vars
<1>7. ASSUME NEW r \in Rides, MatcherCancel(r) PROVE RowChange(s)
  <2>1. s # r => ride'[s] = ride[s]
    BY <1>0, <1>7 DEF MatcherCancel
  <2> QED
    BY <1>7, <2>1
<1> QED
  BY <1>2, <1>3, <1>4, <1>5, <1>6, <1>7 DEF Next, Task

\* A handler at work moves alone.
LEMMA WorkTurn == ASSUME RewardInv, NEW h \in Procs, Working(h) PROVE Turn(h)
<1>1. CASE RequestReadCredits(h)
  <2>1. PICK amount: StepWith(h, "book", amount)
    BY <1>1 DEF RequestReadCredits
  <2> QED
    BY <2>1, StepWithTurn
<1>2. CASE RequestCommit(h) \/ AwardPost(h) \/ CancelVoid(h)
  BY <1>2, StepTurn DEF RequestCommit, AwardPost, CancelVoid, CallAt
<1>3. CASE RequestRollback(h) \/ RequestMark(h) \/ AwardDone(h) \/ CancelStamp(h)
  BY <1>3, FinishTurn DEF RequestRollback, RequestMark, AwardDone, CancelStamp
<1>4. CASE ChargeRead(h)
  <2>1. ToAward(h) \/ \E amount: StepWith(h, "charging", amount)
    BY <1>4 DEF ChargeRead
  <2> QED
    BY <2>1, ToAwardTurn, StepWithTurn
<1>5. CASE ChargeDone(h)
  BY <1>5, StepTurn, ToAwardTurn DEF ChargeDone, CallAt
<1>6. CASE ChargeRecord(h)
  BY <1>6, ToAwardTurn DEF ChargeRecord
<1>7. CASE CancelRefund(h)
  BY <1>7, StepTurn, FinishTurn DEF CancelRefund, CallAt
<1>8. CASE Posting(h)
  BY <1>8 DEF Posting, rewardVars, Turn
<1> QED
  BY <1>1, <1>2, <1>3, <1>4, <1>5, <1>6, <1>7, <1>8 DEF Working

\* Handler k stands still, works, begins, or dies with its process.
Acts(k) ==
  \/ call'[k] = call[k]
  \/ Working(k)
  \/ call[k].at = "idle"
  \/ Crash

LEMMA HandlersAct == RewardInv /\ [Next]_vars => \A k \in Procs: Acts(k)
<1> SUFFICES ASSUME RewardInv, [Next]_vars, NEW k \in Procs PROVE Acts(k)
  OBVIOUS
<1>1. ASSUME NEW h \in Procs, Working(h) PROVE Acts(k)
  BY <1>1, WorkTurn DEF Turn, Acts
<1>2. ASSUME NEW h \in Procs, NEW c, Begin(h, c) PROVE Acts(k)
  BY <1>2, BeginTurn DEF Turn, Acts
<1>3. ASSUME NEW h \in Procs, NEW r \in Rides,
             (\E promo \in BOOLEAN: RequestRide(h, r, promo)) \/ CompleteRide(h, r) \/ CancelRide(h, r)
      PROVE  \E c: Begin(h, c)
  BY <1>3 DEF RequestRide, CompleteRide, CancelRide
<1>4. ASSUME NEW h \in Procs, NEW g \in Grants, NEW key \in AdminKeys, AdminGrant(h, g[1], g[2], key)
      PROVE  \E c: Begin(h, c)
  BY <1>4 DEF AdminGrant
<1>5. (\E r \in Rides: Task(r)) \/ (\E u \in Riders: ScanReferral(u)) \/ UNCHANGED rewardVars \/ UNCHANGED vars
        => Acts(k)
  BY DEF Task, FinalizePromo, ReferralReward, MatcherCancel, ScanReferral, rewardVars, vars, Acts
<1>6. Crash => Acts(k)
  BY DEF Acts
<1> QED
  BY <1>1, <1>2, <1>3, <1>4, <1>5, <1>6 DEF Next

\* Rows stay; strays are not forgotten; a new row comes from a post under way
\* or with a transaction of the caller's.
LEMMA RowsCome ==
  ASSUME MoneyInv, [Next]_vars
  PROVE  /\ \A e \in entries: e \in entries'
         /\ strays' = 0 => strays = 0
         /\ \A e \in Entry: /\ Written(e)' /\ ~ Written(e) /\ e.key[1] \notin DirectKinds
                            => /\ UNCHANGED call
                               /\ \E p \in Procs: post[p].at # "idle" /\ e = post[p].entry
                                                  /\ post'[p].entry = e
<1>0. RewardInv /\ Calls
  BY DEF MoneyInv, RewardInv, WalletInv
<1>1. ASSUME UNCHANGED <<entries, tx, strays>>
      PROVE  /\ \A e \in entries: e \in entries'
             /\ strays' = 0 => strays = 0
             /\ \A e \in Entry: Written(e)' => Written(e)
  BY <1>1 DEF Written, InTx
<1>2. ASSUME NEW f \in Entry, PostInCallersTx(f), f.key[1] \in DirectKinds
      PROVE  /\ \A e \in entries: e \in entries'
             /\ strays' = 0 => strays = 0
             /\ \A e \in Entry: Written(e)' /\ e.key[1] \notin DirectKinds => Written(e)
  BY <1>2 DEF PostInCallersTx, Written, InTx
<1>3. ASSUME NEW p \in Procs, PostStep(p) \/ Stray(p), UNCHANGED rewardVars
      PROVE  /\ \A e \in entries: e \in entries'
             /\ strays' = 0 => strays = 0
             /\ \A e \in Entry: Written(e)' /\ ~ Written(e) => UNCHANGED call /\ e = post[p].entry
                                                              /\ post[p].at # "idle" /\ post'[p].entry = e
  <2>1. strays' = strays \/ (strays' = strays + 1 /\ strays \in Nat)
    BY <1>0, <1>3, PostStepEffect DEF Stray, Calls
  <2> QED
    BY <1>0, <1>3, <2>1, PostWrites DEF rewardVars
<1>4. ASSUME WalletCrash
      PROVE  /\ \A e \in entries: e \in entries'
             /\ strays' = 0 => strays = 0
             /\ \A e \in Entry: Written(e)' => Written(e)
  BY <1>4 DEF WalletCrash, Closed, Written, InTx
<1>5. Traffic
  BY TrafficNext DEF MoneyInv
<1> QED
  BY <1>1, <1>2, <1>3, <1>4, <1>5 DEF Traffic, Sends, Returns, walletVars

\* Crashes are not forgotten either.
LEMMA CrashesStay ==
  ASSUME RewardInv, [Next]_vars, crashes' = 0 PROVE ~ Crash /\ crashes = 0
<1>1. ~ Crash
  BY DEF Crash, RewardInv, RowTypes
<1>2. CASE crashes' # crashes
  BY <1>1, <1>2 DEF Next, vars, rewardVars, RequestRide, CompleteRide, CancelRide, AdminGrant, Working,
     RequestReadCredits, RequestCommit, RequestRollback, RequestMark, ChargeRead, ChargeDone, ChargeRecord,
     AwardPost, AwardDone, CancelVoid, CancelRefund, CancelStamp, Posting, Task, FinalizePromo,
     ReferralReward, MatcherCancel, ScanReferral
<1> QED
  BY <1>1, <1>2

-----------------------------------------------------------------------------
(* The refund of a cancellation. *)

RowOf(key) == \E e \in entries: e.key = key

\* As long as every statement stays on its connection, a post that answers that
\* its movement is in the ledger is right.
Answered ==
  strays = 0 => \A p \in Procs: post[p].at \in {"duplicate", "applied"} => RowOf(post[p].entry.key)

RefundInv ==
  /\ \A r \in Rides: ride[r].status # "none" /\ ride[r].credits > 0 => RowOf(<<"ride-applied", r>>)
  /\ strays = 0 => \A r \in Rides: ride[r].refunded => RowOf(<<"ride-refund", r>>)
  /\ Undisturbed =>
       \A r \in Rides: ride[r].status = "cancelled" =>
         \/ \E h \in Procs: call[h].at \in Cancelling /\ call[h].ride = r
         \/ ride[r].credits = 0
         \/ RowOf(<<"ride-refund", r>>)

LEMMA AnsweredPost ==
  ASSUME MoneyInv, Answered, NEW p \in Procs, PostStep(p), strays = 0,
         \A e \in entries: e \in entries', NEW q \in Procs, post'[q].at \in {"duplicate", "applied"}
  PROVE  RowOf(post[q].entry.key)'
<1>0. RewardInv /\ Calls /\ Shape(p)
  BY DEF MoneyInv, RewardInv, WalletInv, Shaped
<1>1. \A k \in Procs: post'[k].entry = post[k].entry /\ (k # p => post'[k] = post[k])
  BY <1>0, PostWrites
<1>2. post[p].at # "idle" /\ post[p].conn = p
  BY <1>0, PostWrites DEF Shape
<1>3. CASE q # p
  BY <1>1, <1>3 DEF Answered, RowOf
<1>4. ASSUME NEW at \in PostAt \ {"idle"}, Goto(p, at) PROVE post'[p].at = at
  BY <1>0, <1>2, <1>4, GotoEffect
<1>5. CASE q = p
  <2>1. PICK f \in entries' : f.key = post[p].entry.key
    <3>1. CASE PostBegin(p)
      <4>1. tx[p].rows = {}
        BY <1>0, <3>1 DEF PostBegin, Shape, Closed
      <4>2. Known(p, post[p].entry.key)
        BY <1>2, <1>4, <1>5, <3>1 DEF PostBegin, PostAt
      <4> QED
        BY <4>1, <4>2 DEF Known, Visible
    <3>2. CASE PostInsert(p)
      <4>1. tx[p].rows = {}
        BY <1>0, <3>2 DEF PostInsert, Shape, Blank
      <4>2. Known(p, post[p].entry.key)
        BY <1>2, <1>4, <1>5, <3>2 DEF PostInsert, PostAt
      <4> QED
        BY <4>1, <4>2 DEF Known, Visible
    <3>3. CASE PostUpdate(p)
      BY <1>4, <1>5, <3>3 DEF PostUpdate, PostAt
    <3>4. CASE PostCommit(p)
      <4>1. tx[p].rows = {post[p].entry} /\ Commit(p)
        BY <1>0, <1>2, <3>4 DEF PostCommit, Shape
      <4> QED
        BY <4>1 DEF Commit
    <3>5. CASE PostRollback(p)
      <4>1. post[p].at = "duplicate"
        BY <1>4, <1>5, <3>5 DEF PostRollback, PostAt
      <4> QED
        BY <4>1 DEF Answered, RowOf
    <3> QED
      BY <3>1, <3>2, <3>3, <3>4, <3>5 DEF PostStep
  <2> QED
    BY <1>1, <1>5, <2>1 DEF RowOf
<1> QED
  BY <1>3, <1>5

LEMMA AnsweredStep == ASSUME MoneyInv, Answered, [Next]_vars PROVE Answered'
<1>0. RewardInv /\ (\A e \in entries: e \in entries') /\ (strays' = 0 => strays = 0)
  BY RowsCome DEF MoneyInv
<1> SUFFICES ASSUME strays' = 0, strays = 0, NEW q \in Procs, post'[q].at \in {"duplicate", "applied"}
             PROVE  \E e \in entries': e.key = post'[q].entry.key
  BY <1>0 DEF Answered, RowOf
<1>1. CASE UNCHANGED post
  BY <1>0, <1>1 DEF Answered, RowOf
<1>2. ASSUME NEW h \in Procs, NEW e \in Entry, Sends(h, e) PROVE q # h /\ post'[q] = post[q]
  <2>1. Calls /\ Call(h, e)
    BY <1>0, <1>2 DEF RewardInv, WalletInv, Sends
  <2>2. post'[h] = [at |-> "begin", conn |-> h, entry |-> e] /\ \A g \in Procs \ {h}: post'[g] = post[g]
    BY <2>1, CallEffect
  <2>3. post'[h].at = "begin"
    BY <2>2
  <2> QED
    BY <2>2, <2>3
<1>3. ASSUME NEW h \in Procs, Returns(h) PROVE q # h /\ post'[q] = post[q]
  BY <1>0, <1>3, ReturnsEffect
<1>4. ASSUME NEW p \in Procs, PostStep(p) PROVE \E e \in entries': e.key = post'[q].entry.key
  <2>1. RowOf(post[q].entry.key)' /\ post'[q].entry = post[q].entry
    BY <1>0, <1>4, AnsweredPost, PostWrites
  <2> QED
    BY <2>1 DEF RowOf
<1>5. ASSUME NEW p \in Procs, Stray(p) PROVE FALSE
  BY <1>5, <1>0 DEF Stray, RewardInv, WalletInv, Calls
<1>6. ~ WalletCrash
  BY DEF WalletCrash, Idle
<1>7. post'[q] = post[q] => \E e \in entries': e.key = post'[q].entry.key
  BY <1>0 DEF Answered, RowOf
<1>8. Traffic
  BY TrafficNext DEF MoneyInv
<1> QED
  BY <1>1, <1>2, <1>3, <1>4, <1>5, <1>6, <1>7, <1>8 DEF Traffic, walletVars, PostInCallersTx

\* The booking posts what it takes.
LEMMA RefundStepApplied ==
  ASSUME MoneyInv, RefundInv, [Next]_vars, NEW r \in Rides, ride'[r].status # "none", ride'[r].credits > 0
  PROVE  RowOf(<<"ride-applied", r>>)'
<1>0. RewardInv /\ LocalInv /\ (\A e \in entries: e \in entries') /\ RowChange(r) /\ Grows(r)
  BY RowsCome, RowChanges, RidesGrow DEF MoneyInv
<1>1. CASE ride[r].status # "none"
  BY <1>0, <1>1 DEF RefundInv, RowOf, Grows
<1>2. CASE ride[r].status = "none"
  <2>1. PICK h \in Procs: RequestCommit(h) /\ call[h].ride = r
    <3>1. ASSUME NEW h \in Procs, call[h].ride = r, ChargeRecord(h) \/ CancelStamp(h) PROVE FALSE
      <4>1. call[h].at \in {"record", "refunding"}
        BY <3>1 DEF ChargeRecord, CancelStamp
      <4> QED
        BY <1>0, <1>2, <3>1, <4>1 DEF LocalInv, StagesInv, Completing, Paying, Cancelling
    <3>2. ~ MatcherCancel(r) /\ ~ \E h \in Procs: CompleteRide(h, r) \/ CancelRide(h, r)
      BY <1>2 DEF CompleteRide, CancelRide, MatcherCancel
    <3> QED
      BY <1>0, <1>2, <3>1, <3>2 DEF RowChange
  <2>2. ride'[r].credits = call[h].amount
    BY <1>0, <2>1 DEF RequestCommit, RideOfCall, RewardInv, RowTypes
  <2>3. call[h].amount # 0
    BY <2>2
  <2>4. PICK f: /\ f = [key |-> <<"ride-applied", r>>, account |-> Credits(r), amount |-> -call[h].amount]
                /\ PostInCallersTx(f)
    BY <2>1, <2>3 DEF RequestCommit, RideOfCall
  <2>5. f.key = <<"ride-applied", r>> /\ f \in entries'
    BY <2>4 DEF PostInCallersTx
  <2> QED
    BY <2>5 DEF RowOf
<1> QED
  BY <1>1, <1>2

\* A refund that was posted is in the ledger when it is stamped.
LEMMA StampedIsPosted ==
  ASSUME MoneyInv, Answered, strays = 0, NEW h \in Procs, CancelStamp(h)
  PROVE  RowOf(<<"ride-refund", call[h].ride>>)
<1>1. call[h].at = "refunding" /\ post[h].at = "applied"
  BY DEF CancelStamp
<1>2. post[h].entry.key = <<"ride-refund", call[h].ride>>
  BY <1>1 DEF MoneyInv, SentInv, IsFor, Waiting
<1> QED
  BY <1>1, <1>2 DEF Answered

LEMMA RefundStepStamped ==
  ASSUME MoneyInv, RefundInv, Answered, [Next]_vars, strays' = 0, NEW r \in Rides, ride'[r].refunded
  PROVE  RowOf(<<"ride-refund", r>>)'
<1>0. /\ RewardInv /\ LocalInv /\ (\A e \in entries: e \in entries') /\ strays = 0 /\ RowChange(r)
      /\ ride \in [Rides -> RideType]
  BY RowsCome, RowChanges DEF MoneyInv, RewardInv, RowTypes
<1>1. CASE ride[r].refunded
  BY <1>0, <1>1 DEF RefundInv, RowOf
<1>2. CASE ~ ride[r].refunded
  <2>1. PICK h \in Procs: CancelStamp(h) /\ call[h].ride = r
    <3>1. ASSUME NEW h \in Procs, call[h].ride = r, RequestCommit(h) PROVE ~ ride'[r].refunded
      BY <1>0, <3>1 DEF RequestCommit, RideOfCall
    <3>2. ASSUME NEW h \in Procs, call[h].ride = r, ChargeRecord(h) PROVE ~ ride'[r].refunded
      <4>1. ride' = [ride EXCEPT ![r].paid = call[h].amount]
        BY <3>2 DEF ChargeRecord, RideOfCall
      <4> QED
        BY <1>0, <1>2, <4>1 DEF RideType
    <3>3. ASSUME MatcherCancel(r) \/ \E h \in Procs: CompleteRide(h, r) \/ CancelRide(h, r)
          PROVE  ~ ride'[r].refunded
      <4>1. PICK status: ride' = [ride EXCEPT ![r].status = status]
        BY <3>3 DEF CompleteRide, CancelRide, MatcherCancel
      <4> QED
        BY <1>0, <1>2, <4>1 DEF RideType
    <3> QED
      BY <1>0, <1>2, <3>1, <3>2, <3>3 DEF RowChange
  <2> QED
    BY <1>0, <2>1, StampedIsPosted DEF RowOf
<1> QED
  BY <1>1, <1>2

\* A cancellation ends with the refund in the ledger, unless there is none.
LEMMA RefundStepComes ==
  ASSUME MoneyInv, RefundInv, Answered, [Next]_vars, crashes' = 0, strays' = 0,
         NEW r \in Rides, ride'[r].status = "cancelled"
  PROVE  \/ \E h \in Procs: call'[h].at \in Cancelling /\ call'[h].ride = r
         \/ ride'[r].credits = 0
         \/ RowOf(<<"ride-refund", r>>)'
<1>0. /\ RewardInv /\ LocalInv /\ (\A e \in entries: e \in entries') /\ strays = 0 /\ RowChange(r) /\ Grows(r)
      /\ ride \in [Rides -> RideType]
  BY RowsCome, RowChanges, RidesGrow DEF MoneyInv, RewardInv, RowTypes
<1>1. ~ Crash /\ crashes = 0
  BY CrashesStay DEF MoneyInv
<1>2. CASE ride[r].status # "cancelled"
  <2>1. PICK h \in Procs: CancelRide(h, r)
    <3>1. ASSUME NEW h \in Procs, call[h].ride = r, RequestCommit(h) PROVE FALSE
      BY <1>0, <3>1 DEF RequestCommit, RideOfCall
    <3>2. ASSUME NEW h \in Procs, call[h].ride = r, ChargeRecord(h) PROVE FALSE
      <4>1. ride' = [ride EXCEPT ![r].paid = call[h].amount]
        BY <3>2 DEF ChargeRecord, RideOfCall
      <4> QED
        BY <1>0, <1>2, <4>1 DEF RideType
    <3>3. ASSUME NEW h \in Procs, CompleteRide(h, r) PROVE FALSE
      BY <1>0, <3>3 DEF CompleteRide, RideType
    <3>4. ASSUME NEW h \in Procs, call[h].ride = r, CancelStamp(h) PROVE FALSE
      <4>1. ride' = [ride EXCEPT ![r].refunded = TRUE]
        BY <3>4 DEF CancelStamp, RideOfCall
      <4> QED
        BY <1>0, <1>2, <4>1 DEF RideType
    <3>5. ~ MatcherCancel(r)
      BY <1>0 DEF MatcherCancel, RideType
    <3> QED
      BY <1>0, <1>2, <3>1, <3>2, <3>3, <3>4, <3>5 DEF RowChange
  <2>2. call'[h].at = "void" /\ call'[h].ride = r
    BY <1>0, <2>1, BeginTurn DEF CancelRide, Operation
  <2> QED
    BY <2>2 DEF Cancelling
<1>3. CASE ride[r].status = "cancelled"
  <2>1. ride'[r].credits = ride[r].credits
    BY <1>0, <1>3 DEF Grows
  <2>2. ASSUME NEW h \in Procs, call[h].at \in Cancelling, call[h].ride = r, ride[r].credits # 0
        PROVE  \/ call'[h].at \in Cancelling /\ call'[h].ride = r
               \/ RowOf(<<"ride-refund", r>>)
    <3>1. CASE call'[h] = call[h]
      BY <2>2, <3>1
    <3>2. CASE CancelVoid(h)
      BY <1>0, <2>2, <3>2, StepTurn DEF CancelVoid, Cancelling, CallAt
    <3>3. CASE CancelRefund(h)
      <4>1. CASE ride[r].refunded
        BY <1>0, <4>1 DEF RefundInv
      <4>2. CASE ~ ride[r].refunded
        <5>1. Step(h, "refunding")
          BY <2>2, <3>3, <4>2 DEF CancelRefund, RideOfCall
        <5> QED
          BY <1>0, <2>2, <5>1, StepTurn DEF Cancelling, CallAt
      <4> QED
        BY <4>1, <4>2
    <3>4. CASE CancelStamp(h)
      BY <1>0, <2>2, <3>4, StampedIsPosted
    <3>5. CASE Posting(h)
      BY <2>2, <3>5 DEF Posting, rewardVars
    <3>6. CASE /\ Working(h)
               /\ ~ (CancelVoid(h) \/ CancelRefund(h) \/ CancelStamp(h) \/ Posting(h))
      BY <2>2, <3>6 DEF Cancelling, Working, RequestReadCredits, RequestCommit, RequestRollback, RequestMark,
         ChargeRead, ChargeDone, ChargeRecord, AwardPost, AwardDone
    <3>7. Acts(h)
      BY <1>0, HandlersAct
    <3> QED
      BY <1>1, <2>2, <3>1, <3>2, <3>3, <3>4, <3>5, <3>6, <3>7 DEF Acts, Cancelling
  <2> QED
    BY <1>0, <1>1, <1>3, <2>1, <2>2 DEF RefundInv, Undisturbed, RowOf
<1> QED
  BY <1>2, <1>3

LEMMA RefundStep == ASSUME MoneyInv, RefundInv, Answered, [Next]_vars PROVE RefundInv'
  BY RefundStepApplied, RefundStepStamped, RefundStepComes DEF RefundInv, Undisturbed

LEMMA CancelledRidesCostNothing ==
  ASSUME MoneyInv, RefundInv PROVE CancelledCostsNothing
<1> SUFFICES ASSUME Undisturbed, NEW r \in Rides, ride[r].status \in {"cancelled", "unmatched"}
             PROVE  /\ ride[r].status = "cancelled" /\ ~ Busy(r) => Cost(r) = 0
                    /\ ride[r].status = "unmatched" => Cost(r) = ride[r].credits
  BY DEF CancelledCostsNothing
<1>0. RewardInv /\ TracedInv
  BY DEF MoneyInv
<1>1. PICK a, b, c \in Int:
           /\ Cost(r) = a + b + c
           /\ Part(RowsOf(<<"ride-applied", r>>), a)
           /\ Part(RowsOf(<<"ride-refund", r>>), b)
           /\ Part(RowsOf(<<"wallet-charge", r>>), c)
  BY <1>0, CostParts
<1>2. \A e \in entries: e \in Entry /\ e.amount \in Int /\ Explained(e)
  BY <1>0, WalletAssumption DEF RewardInv, WalletInv, DbType, TracedInv, Written, Entry
<1>3. ride[r].credits \in Nat
  BY <1>0, RewardsAssumption DEF RewardInv, RowTypes, RideType
<1>4. c = 0
  BY <1>1, <1>2 DEF Part, RowsOf, Explained
<1>5. CASE ride[r].credits = 0
  <2>1. a = 0 /\ b = 0
    BY <1>1, <1>2, <1>5 DEF Part, RowsOf, Explained
  <2> QED
    BY <1>1, <1>4, <1>5, <2>1
<1>6. CASE ride[r].credits > 0
  <2>0. RowOf(<<"ride-applied", r>>)
    BY <1>6 DEF RefundInv
  <2>1. RowsOf(<<"ride-applied", r>>) # {}
    BY <2>0 DEF RowOf, RowsOf
  <2>2. a = ride[r].credits
    BY <1>1, <1>2, <1>3, <2>1 DEF Part, RowsOf, Explained
  <2>3. ASSUME ride[r].status = "cancelled", ~ Busy(r) PROVE b = -ride[r].credits
    <3>1. ~ \E h \in Procs: call[h].at \in Cancelling /\ call[h].ride = r
      BY <2>3 DEF Busy, RideOfCall
    <3>2. RowOf(<<"ride-refund", r>>)
      BY <1>3, <1>6, <2>3, <3>1 DEF RefundInv
    <3>3. RowsOf(<<"ride-refund", r>>) # {}
      BY <3>2 DEF RowOf, RowsOf
    <3> QED
      BY <1>1, <1>2, <1>3, <3>3 DEF Part, RowsOf, Explained
  <2>4. ride[r].status = "unmatched" => b = 0
    BY <1>1, <1>2 DEF Part, RowsOf, Explained
  <2> QED
    BY <1>1, <1>3, <1>4, <2>2, <2>3, <2>4
<1> QED
  BY <1>3, <1>5, <1>6

LEMMA RefundInit == Init => RefundInv /\ Answered
<1> SUFFICES ASSUME Init PROVE RefundInv /\ Answered
  OBVIOUS
<1>1. \A r \in Rides: ride[r].credits = 0 /\ ride[r].refunded = FALSE /\ ride[r].status # "cancelled"
  BY DEF Init, NoRide, PastRide, Row
<1>2. \A p \in Procs: post[p].at = "idle"
  BY DEF Init, WalletInit, Idle
<1> QED
  BY <1>1, <1>2 DEF RefundInv, Answered

\* A cancellation that runs its hook and is through has given back what the
\* booking took, and one by the matcher, which runs none, has given back nothing
\* and taken nothing more, when nothing crashed and no statement strayed.
THEOREM CancellationRefunds == Spec => []CancelledCostsNothing
<1>1. MoneyInv /\ RefundInv /\ Answered /\ [Next]_vars => (RefundInv /\ Answered)'
  BY RefundStep, AnsweredStep
<1>2. MoneyInv /\ RefundInv => CancelledCostsNothing
  BY CancelledRidesCostNothing
<1> QED
  BY <1>1, <1>2, MoneyAlways, RefundInit, PTL DEF Spec

-----------------------------------------------------------------------------
(* The wallet payment of a completion. *)

ChargeKey(r) == <<"wallet-charge", r>>

Charged(r, amount) == \E e \in entries: e.key = ChargeKey(r) /\ e.amount = -amount

\* Until its charge is posted a ride has no row for it; then the row is the one
\* its handler posted.
PayingInv ==
  \A h \in Procs:
    LET r == call[h].ride IN
    /\ call[h].at \in Paying => ride[r].paid = 0
    /\ call[h].at = "charge" => \A e \in Entry: Written(e) => e.key # ChargeKey(r)
    /\ call[h].at = "charging" => \A e \in Entry: Written(e) /\ e.key = ChargeKey(r) => e = post[h].entry
    /\ call[h].at = "record" /\ strays = 0 => Charged(r, call[h].amount)

PaidInv ==
  \A r \in Rides: /\ ride[r].status # "completed" => ride[r].paid = 0
                  /\ strays = 0 /\ ride[r].paid # 0 => Charged(r, ride[r].paid)

\* The charge is on the row of the ride, or its handler is about to put it there.
ToRecord(h) == call[h].at = "record" \/ (call[h].at = "charging" /\ post[h].at = "applied")

RecordedInv ==
  Undisturbed =>
    \A r \in Rides, e \in entries:
      e.key = ChargeKey(r) => ride[r].paid = -e.amount \/ \E h \in Procs: call[h].ride = r /\ ToRecord(h)

ChargeInv == PayingInv /\ PaidInv /\ RecordedInv

\* Who has the charge of a ride under way is charging it.
LEMMA ChargeSender ==
  ASSUME MoneyInv, NEW p \in Procs, post[p].at # "idle", NEW r \in Rides, post[p].entry.key = ChargeKey(r)
  PROVE  call[p].at = "charging" /\ call[p].ride = r
<1>1. call[p].at \in Waiting /\ IsFor(call[p], post[p].entry)
  BY DEF MoneyInv, SentInv, RewardInv, Linked
<1> QED
  BY <1>1 DEF Waiting, IsFor, ChargeKey

\* One handler at a time pays for a ride.
LEMMA OnePayer ==
  ASSUME MoneyInv, NEW g \in Procs, NEW h \in Procs, call[g].at \in Paying, call[h].at \in Paying,
         call[g].ride = call[h].ride
  PROVE  g = h
  BY DEF MoneyInv, LocalInv, StagesInv

\* While handler h pays for r, the payment on the row is h's to write.
LEMMA PaidStays ==
  ASSUME MoneyInv, [Next]_vars, NEW r \in Rides, ~ \E h \in Procs: call[h].ride = r /\ ChargeRecord(h),
         ride[r].status # "none"
  PROVE  ride'[r].paid = ride[r].paid
<1>0. RowChange(r) /\ ride \in [Rides -> RideType] /\ LocalInv
  BY RowChanges DEF MoneyInv, RewardInv, RowTypes
<1>1. ASSUME NEW h \in Procs, call[h].ride = r, RequestCommit(h) PROVE FALSE
  BY <1>0, <1>1 DEF RequestCommit, LocalInv, StagesInv, Booking
<1>2. ASSUME NEW h \in Procs, call[h].ride = r, CancelStamp(h) PROVE ride'[r].paid = ride[r].paid
  <2>1. ride' = [ride EXCEPT ![r].refunded = TRUE]
    BY <1>2 DEF CancelStamp, RideOfCall
  <2> QED
    BY <1>0, <2>1 DEF RideType
<1>3. ASSUME MatcherCancel(r) \/ \E h \in Procs: CompleteRide(h, r) \/ CancelRide(h, r)
      PROVE  ride'[r].paid = ride[r].paid
  <2>1. PICK status: ride' = [ride EXCEPT ![r].status = status]
    BY <1>3 DEF CompleteRide, CancelRide, MatcherCancel
  <2> QED
    BY <1>0, <2>1 DEF RideType
<1> QED
  BY <1>0, <1>1, <1>2, <1>3 DEF RowChange

\* A step in which h's own record does not change keeps h's post, up to its
\* progress.
LEMMA PostStays ==
  ASSUME MoneyInv, [Next]_vars, NEW h \in Procs, call'[h] = call[h], call[h].at \in Waiting
  PROVE  /\ post'[h].entry = post[h].entry
         /\ post[h].at = "applied" /\ strays' = 0 => post'[h].at = "applied"
<1>0. RewardInv /\ Traffic
  BY TrafficNext DEF MoneyInv
<1>1. ASSUME NEW g \in Procs, NEW e \in Entry, Sends(g, e), call[g].at \notin Waiting PROVE post'[h] = post[h]
  BY <1>0, <1>1, SendsEffect
<1>2. ASSUME NEW g \in Procs, Returns(g), call'[g].at \notin Waiting PROVE post'[h] = post[h]
  BY <1>0, <1>2, ReturnsEffect
<1>3. ASSUME NEW p \in Procs, PostStep(p) PROVE post'[h].entry = post[h].entry /\ (post[h].at = "applied" => post'[h] = post[h])
  <2>1. post[p].at # "applied"
    BY <1>3 DEF PostStep, PostBegin, PostInsert, PostUpdate, PostCommit, PostRollback
  <2> QED
    BY <1>0, <1>3, <2>1, PostWrites
<1>4. ASSUME NEW p \in Procs, Stray(p) PROVE post'[h].entry = post[h].entry /\ strays' # 0
  BY <1>0, <1>4, PostWrites DEF Stray, RewardInv, WalletInv, Calls
<1>5. ~ \A g \in Procs: call'[g].at = "idle"
  BY DEF Waiting
<1> QED
  BY <1>0, <1>1, <1>2, <1>3, <1>4, <1>5 DEF Traffic, walletVars, PostInCallersTx

\* No row for the charge of r appears but by a post of the handler charging it.
LEMMA ChargeRowsCome ==
  ASSUME MoneyInv, [Next]_vars, NEW e \in Entry, NEW r \in Rides, e.key = ChargeKey(r),
         Written(e)', ~ Written(e)
  PROVE  /\ UNCHANGED call
         /\ \E p \in Procs: call[p].at = "charging" /\ call[p].ride = r /\ e = post[p].entry
<1>1. e.key[1] \notin DirectKinds
  BY DEF ChargeKey, DirectKinds
<1>2. UNCHANGED call /\ \E p \in Procs: post[p].at # "idle" /\ e = post[p].entry
  BY <1>1, RowsCome
<1> QED
  BY <1>2, ChargeSender

\* A handler that goes on paying: what it still knows of its ride.
LEMMA PayingRow ==
  ASSUME MoneyInv, ChargeInv, [Next]_vars, NEW h \in Procs, call[h].at \in Paying, ~ ChargeRecord(h)
  PROVE  call[h].ride \in Rides /\ ride'[call[h].ride].paid = 0
<1>1. call[h].ride \in Rides /\ ride[call[h].ride].status = "completed"
  BY DEF MoneyInv, RewardInv, Callers, RideKnown, LocalInv, StagesInv, Paying, Completing
<1>2. ASSUME NEW g \in Procs, call[g].ride = call[h].ride, ChargeRecord(g) PROVE FALSE
  <2>1. call[g].at \in Paying
    BY <1>2 DEF ChargeRecord, Paying
  <2> QED
    BY <1>2, <2>1, OnePayer
<1>3. ride'[call[h].ride].paid = ride[call[h].ride].paid
  BY <1>1, <1>2, PaidStays
<1> QED
  BY <1>1, <1>3 DEF ChargeInv, PayingInv


LEMMA RowsStay ==
  ASSUME MoneyInv, ChargeInv, [Next]_vars, NEW h \in Procs, call[h].at \in Paying, call'[h] = call[h]
  PROVE  /\ call[h].at = "charge" => \A e \in Entry: Written(e)' => e.key # ChargeKey(call[h].ride)
         /\ call[h].at = "charging" =>
              \A e \in Entry: Written(e)' /\ e.key = ChargeKey(call[h].ride) => e = post'[h].entry
         /\ call[h].at = "record" /\ strays' = 0 =>
              \E e \in entries': e.key = ChargeKey(call[h].ride) /\ e.amount = -call[h].amount
<1>0. PICK r \in Rides: r = call[h].ride
  BY DEF MoneyInv, RewardInv, Callers, RideKnown, Paying
<1>1. ASSUME NEW e \in Entry, Written(e)', ~ Written(e), e.key = ChargeKey(r)
      PROVE  call[h].at = "charging" /\ e = post[h].entry
  <2>1. PICK p \in Procs: call[p].at = "charging" /\ call[p].ride = r /\ e = post[p].entry
    BY <1>1, ChargeRowsCome
  <2>2. p = h
    BY <1>0, <2>1, OnePayer DEF Paying
  <2> QED
    BY <2>1, <2>2
<1>2. call[h].at = "charge" => \A e \in Entry: Written(e) => e.key # ChargeKey(r)
  BY <1>0 DEF ChargeInv, PayingInv
<1>3. call[h].at = "charging" => \A e \in Entry: Written(e) /\ e.key = ChargeKey(r) => e = post[h].entry
  BY <1>0 DEF ChargeInv, PayingInv
<1>4. call[h].at = "charging" => post'[h].entry = post[h].entry
  BY PostStays DEF Waiting
<1>5. call[h].at = "record" /\ strays' = 0 =>
        \E e \in entries': e.key = ChargeKey(r) /\ e.amount = -call[h].amount
  BY <1>0, RowsCome DEF ChargeInv, PayingInv, Charged
<1> QED
  BY <1>0, <1>1, <1>2, <1>3, <1>4, <1>5

\* A completion that begins to charge.
LEMMA PayingBegins ==
  ASSUME MoneyInv, ChargeInv, [Next]_vars, NEW h \in Procs, call[h].at \notin Paying, call'[h].at \in Paying
  PROVE  /\ call'[h].at = "charge" /\ call'[h].ride \in Rides /\ ride'[call'[h].ride].paid = 0
         /\ \A e \in Entry: Written(e)' => e.key # ChargeKey(call'[h].ride)
<1>0. RewardInv /\ LocalInv
  BY DEF MoneyInv
<1>1. PICK r \in Rides: CompleteRide(h, r)
  <2>1. ASSUME NEW g \in Procs, NEW s \in Rides, CompleteRide(g, s) PROVE g = h
    <3>1. Turn(g)
      BY <1>0, <2>1, BeginTurn DEF CompleteRide
    <3> QED
      BY <3>1 DEF Turn
  <2>2. ASSUME NEW g \in Procs, NEW s \in Rides, CancelRide(g, s) PROVE FALSE
    <3>1. Turn(g) /\ call'[g].at = "void"
      BY <1>0, <2>2, BeginTurn DEF CancelRide, Operation
    <3> QED
      BY <3>1 DEF Turn, Paying
  <2>3. ASSUME NEW g \in Procs, NEW s \in Rides, NEW promo \in BOOLEAN, RequestRide(g, s, promo) PROVE FALSE
    <3>1. PICK c: c = [at |-> "apply", ride |-> s, promo |-> promo, amount |-> 0]
      OBVIOUS
    <3>2. Turn(g) /\ call'[g] = c /\ c.at = "apply"
      BY <1>0, <2>3, <3>1, BeginTurn DEF RequestRide
    <3> QED
      BY <3>2 DEF Turn, Paying
  <2>4. ASSUME NEW g \in Procs, NEW a \in Grants, NEW key \in AdminKeys, AdminGrant(g, a[1], a[2], key) PROVE FALSE
    <3>1. Turn(g) /\ call'[g].at = "granting"
      BY <1>0, <2>4, BeginTurn DEF AdminGrant, Operation
    <3> QED
      BY <3>1 DEF Turn, Paying
  <2>5. ASSUME NEW g \in Procs, Working(g) PROVE FALSE
    <3>1. Turn(g)
      BY <1>0, <2>5, WorkTurn
    <3>2. g = h
      BY <3>1 DEF Turn
    <3>3. CASE RequestReadCredits(g)
      <4>1. PICK amount: StepWith(g, "book", amount)
        BY <3>3 DEF RequestReadCredits
      <4> QED
        BY <1>0, <3>2, <4>1, StepWithTurn DEF Paying
    <3>4. CASE RequestCommit(g) \/ AwardPost(g) \/ CancelVoid(g)
      BY <1>0, <3>2, <3>4, StepTurn DEF RequestCommit, AwardPost, CancelVoid, CallAt, Paying
    <3>5. CASE RequestRollback(g) \/ RequestMark(g) \/ AwardDone(g) \/ CancelStamp(g)
      BY <1>0, <3>2, <3>5, FinishTurn DEF RequestRollback, RequestMark, AwardDone, CancelStamp, Paying
    <3>6. CASE CancelRefund(g)
      BY <1>0, <3>2, <3>6, StepTurn, FinishTurn DEF CancelRefund, CallAt, Paying
    <3>7. CASE Posting(g)
      BY <3>7 DEF Posting, rewardVars
    <3>8. CASE ChargeRead(g) \/ ChargeDone(g) \/ ChargeRecord(g)
      BY <3>2, <3>8 DEF ChargeRead, ChargeDone, ChargeRecord, Paying
    <3> QED
      BY <2>5, <3>3, <3>4, <3>5, <3>6, <3>7, <3>8 DEF Working
  <2>6. call' # call
    OBVIOUS
  <2>7. ~ Crash
    BY DEF Crash, NoCall, Operation, Paying
  <2> QED
    BY <2>1, <2>2, <2>3, <2>4, <2>5, <2>6, <2>7
       DEF Next, Task, FinalizePromo, ReferralReward, MatcherCancel, ScanReferral, vars, rewardVars
<1>2. /\ ride[r].status = "requested" /\ UNCHANGED walletVars
      /\ \E at \in {"charge", "award"}: Begin(h, Operation(at, r))
  BY <1>1 DEF CompleteRide
<1>3. call'[h].at = "charge" /\ call'[h].ride = r
  BY <1>0, <1>2, BeginTurn DEF Operation, Paying
<1>4. ride'[r].paid = 0
  <2>1. ride[r].paid = 0
    BY <1>2 DEF ChargeInv, PaidInv
  <2>2. ride' = [ride EXCEPT ![r].status = "completed"] /\ ride \in [Rides -> RideType]
    BY <1>0, <1>1 DEF CompleteRide, RewardInv, RowTypes
  <2> QED
    BY <2>1, <2>2 DEF RideType
<1>5. \A e \in Entry: Written(e) => e.key # ChargeKey(r)
  BY <1>2 DEF MoneyInv, TracedInv, Explained, ChargeKey
<1>6. \A e \in Entry: Written(e)' <=> Written(e)
  BY <1>2 DEF walletVars, Written, InTx
<1> QED
  BY <1>3, <1>4, <1>5, <1>6

\* The statements of a completion that charges.
LEMMA PayingWorks ==
  ASSUME MoneyInv, ChargeInv, Answered, [Next]_vars, NEW h \in Procs, call[h].at \in Paying,
         call'[h].at \in Paying, call'[h] # call[h]
  PROVE  /\ call'[h].ride = call[h].ride /\ ride'[call[h].ride].paid = 0
         /\ \/ /\ call[h].at = "charge" /\ call'[h].at = "charging"
               /\ \A e \in Entry: Written(e)' => e.key # ChargeKey(call[h].ride)
            \/ /\ call[h].at = "charging" /\ call'[h].at = "record" /\ post[h].at = "applied"
               /\ strays' = 0 => \E e \in entries': /\ e.key = ChargeKey(call[h].ride)
                                                    /\ e.amount = -call'[h].amount
<1>0. RewardInv /\ call[h].ride \in Rides
  BY DEF MoneyInv, RewardInv, Callers, RideKnown, Paying
<1>1. Working(h)
  <2>1. Acts(h)
    BY <1>0, HandlersAct
  <2>2. ~ Crash
    BY DEF Crash, NoCall, Operation, Paying
  <2> QED
    BY <2>1, <2>2 DEF Acts, Paying
<1>2. ~ ChargeRecord(h)
  BY <1>0, ToAwardTurn DEF ChargeRecord, Paying
<1>3. ride'[call[h].ride].paid = 0
  BY <1>2, PayingRow
<1>4. ChargeRead(h) \/ ChargeDone(h)
  BY <1>1, <1>2 DEF Paying, Working, RequestReadCredits, RequestCommit, RequestRollback, RequestMark,
     AwardPost, AwardDone, CancelVoid, CancelRefund, CancelStamp, Posting, rewardVars
<1>5. CASE ChargeRead(h)
  <2>1. call[h].at = "charge" /\ UNCHANGED <<entries, tx>>
    BY <1>5 DEF ChargeRead
  <2>2. ~ ToAward(h)
    BY <1>0, ToAwardTurn DEF Paying
  <2>3. PICK amount: StepWith(h, "charging", amount)
    BY <1>5, <2>2 DEF ChargeRead
  <2>4. call'[h].at = "charging" /\ call'[h].ride = call[h].ride
    BY <1>0, <2>3, StepWithTurn
  <2>5. \A e \in Entry: Written(e)' => e.key # ChargeKey(call[h].ride)
    BY <2>1 DEF ChargeInv, PayingInv, Written, InTx
  <2> QED
    BY <1>3, <2>1, <2>4, <2>5
<1>6. CASE ChargeDone(h)
  <2>1. ~ ToAward(h)
    BY <1>0, ToAwardTurn DEF Paying
  <2>2. call[h].at = "charging" /\ post[h].at = "applied" /\ Step(h, "record") /\ UNCHANGED <<entries, strays>>
    BY <1>6, <2>1 DEF ChargeDone
  <2>3. call'[h].at = "record" /\ call'[h].ride = call[h].ride /\ call'[h].amount = call[h].amount
    BY <1>0, <2>2, StepTurn DEF CallAt
  <2>4. ASSUME strays = 0
        PROVE  \E e \in entries: e.key = ChargeKey(call[h].ride) /\ e.amount = -call[h].amount
    <3>1. post[h].entry.key = ChargeKey(call[h].ride) /\ post[h].entry.amount = -call[h].amount
      BY <2>2 DEF MoneyInv, SentInv, IsFor, Waiting, ChargeKey
    <3>2. PICK e \in entries: e.key = ChargeKey(call[h].ride)
      BY <2>2, <2>4, <3>1 DEF Answered, RowOf
    <3>3. e \in Entry /\ Written(e)
      BY <1>0 DEF RewardInv, WalletInv, DbType, Written
    <3>4. e = post[h].entry
      BY <2>2, <3>2, <3>3 DEF ChargeInv, PayingInv
    <3> QED
      BY <3>1, <3>2, <3>4
  <2> QED
    BY <1>3, <2>2, <2>3, <2>4
<1> QED
  BY <1>4, <1>5, <1>6

LEMMA PayingStep ==
  ASSUME MoneyInv, ChargeInv, Answered, [Next]_vars PROVE PayingInv'
<1> SUFFICES ASSUME NEW h \in Procs, call'[h].at \in Paying
             PROVE  LET r == call'[h].ride IN
                    /\ ride'[r].paid = 0
                    /\ call'[h].at = "charge" => \A e \in Entry: Written(e)' => e.key # ChargeKey(r)
                    /\ call'[h].at = "charging" =>
                         \A e \in Entry: Written(e)' /\ e.key = ChargeKey(r) => e = post'[h].entry
                    /\ call'[h].at = "record" /\ strays' = 0 =>
                         \E e \in entries': e.key = ChargeKey(r) /\ e.amount = -call'[h].amount
  BY DEF PayingInv, Charged, Paying
<1>1. CASE call[h].at \notin Paying
  BY <1>1, PayingBegins
<1>2. CASE call[h].at \in Paying /\ call'[h] = call[h]
  <2>1. ~ ChargeRecord(h)
    BY <1>2, ToAwardTurn DEF ChargeRecord, MoneyInv
  <2> QED
    BY <1>2, <2>1, PayingRow, RowsStay
<1>3. CASE call[h].at \in Paying /\ call'[h] # call[h]
  BY <1>3, PayingWorks
<1> QED
  BY <1>1, <1>2, <1>3

\* The row of a ride and what the ledger says.
LEMMA PaidWritten ==
  ASSUME MoneyInv, NEW h \in Procs, ChargeRecord(h)
  PROVE  /\ call[h].ride \in Rides /\ call[h].at \in Paying
         /\ ride[call[h].ride].status = "completed" /\ ride'[call[h].ride].status = "completed"
         /\ ride'[call[h].ride].paid = call[h].amount
<1>0. /\ call[h].at = "record" /\ call[h].ride \in Rides /\ ride[call[h].ride].status = "completed"
      /\ ride \in [Rides -> RideType]
  BY DEF ChargeRecord, MoneyInv, RewardInv, Callers, RideKnown, RowTypes, LocalInv, StagesInv, Completing, Paying
<1>1. ride' = [ride EXCEPT ![call[h].ride].paid = call[h].amount]
  BY DEF ChargeRecord, RideOfCall
<1> QED
  BY <1>0, <1>1 DEF RideType, Paying

LEMMA PaidStep ==
  ASSUME MoneyInv, ChargeInv, [Next]_vars PROVE PaidInv'
<1> SUFFICES ASSUME NEW r \in Rides
             PROVE  /\ ride'[r].status # "completed" => ride'[r].paid = 0
                    /\ strays' = 0 /\ ride'[r].paid # 0 =>
                         \E e \in entries': e.key = ChargeKey(r) /\ e.amount = -ride'[r].paid
  BY DEF PaidInv, Charged
<1>0. /\ RowChange(r) /\ Grows(r) /\ ride \in [Rides -> RideType]
      /\ (\A e \in entries: e \in entries') /\ (strays' = 0 => strays = 0)
  BY RowChanges, RidesGrow, RowsCome DEF MoneyInv, RewardInv, RowTypes
<1>1. ASSUME NEW h \in Procs, call[h].ride = r, ChargeRecord(h)
      PROVE  /\ ride'[r].status = "completed"
             /\ strays' = 0 => \E e \in entries': e.key = ChargeKey(r) /\ e.amount = -ride'[r].paid
  <2>1. strays' = 0 => Charged(r, call[h].amount)
    BY <1>0, <1>1 DEF ChargeInv, PayingInv, ChargeRecord
  <2> QED
    BY <1>0, <1>1, <2>1, PaidWritten DEF Charged
<1>2. ASSUME NEW h \in Procs, call[h].ride = r, RequestCommit(h) PROVE ride'[r].paid = 0
  BY <1>0, <1>2 DEF RequestCommit, RideOfCall
<1>3. CASE ride'[r].paid = ride[r].paid
  <2>1. ride[r].status = "completed" => ride'[r].status = "completed"
    BY <1>0 DEF Grows
  <2> QED
    BY <1>0, <1>3, <2>1 DEF ChargeInv, PaidInv, Charged
<1>4. CASE ~ \E h \in Procs: call[h].ride = r /\ (ChargeRecord(h) \/ RequestCommit(h))
  <2>1. CASE ride[r].status # "none"
    BY <1>3, <1>4, <2>1, PaidStays
  <2>2. CASE ride[r].status = "none"
    <3>1. ASSUME NEW h \in Procs, call[h].ride = r, CancelStamp(h) PROVE FALSE
      BY <2>2, <3>1 DEF CancelStamp, MoneyInv, LocalInv, StagesInv, Cancelling
    <3>2. ~ MatcherCancel(r) /\ ~ \E h \in Procs: CompleteRide(h, r) \/ CancelRide(h, r)
      BY <2>2 DEF CompleteRide, CancelRide, MatcherCancel
    <3> QED
      BY <1>0, <1>3, <1>4, <3>1, <3>2 DEF RowChange
  <2> QED
    BY <2>1, <2>2
<1> QED
  BY <1>1, <1>2, <1>4

\* A row is committed by the post of its own call, which then answers.
LEMMA CommitsOwn ==
  ASSUME RewardInv, strays = 0, NEW p \in Procs, PostStep(p), NEW e \in entries', e \notin entries
  PROVE  e = post[p].entry /\ post'[p].at = "applied"
<1>0. DbType /\ Calls /\ Shape(p)
  BY DEF RewardInv, WalletInv, Shaped
<1>1. post[p].at # "idle" /\ post[p].conn = p /\ post[p].entry \in Entry
  BY <1>0, PostWrites DEF Shape
<1>2. CASE PostBegin(p) \/ PostUpdate(p) \/ PostRollback(p)
  <2>1. CASE PostBegin(p) \/ PostRollback(p)
    BY <2>1 DEF PostBegin, PostRollback, Rollback
  <2>2. CASE PostUpdate(p)
    <3>1. tx[p].open
      BY <1>0, <2>2 DEF PostUpdate, Shape
    <3> QED
      BY <1>1, <2>2, <3>1 DEF PostUpdate, AddToAccount
  <2> QED
    BY <1>2, <2>1, <2>2
<1>3. CASE PostInsert(p)
  <2>1. tx[p].open
    BY <1>0, <1>3 DEF PostInsert, Shape
  <2> QED
    BY <1>1, <1>3, <2>1 DEF PostInsert, InsertRow
<1>4. CASE PostCommit(p)
  <2>1. tx[p].rows = {post[p].entry}
    BY <1>0, <1>4 DEF PostCommit, Shape
  <2>2. e = post[p].entry
    BY <1>1, <1>4, <2>1 DEF PostCommit, Commit
  <2>3. Goto(p, "applied") /\ "applied" \in PostAt \ {"idle"}
    BY <1>4 DEF PostCommit, PostAt
  <2> QED
    BY <1>0, <1>1, <2>2, <2>3, GotoEffect
<1> QED
  BY <1>2, <1>3, <1>4 DEF PostStep

\* A row of a charge that is new is about to be recorded.
LEMMA NewCharge ==
  ASSUME MoneyInv, [Next]_vars, crashes' = 0, strays' = 0, NEW r \in Rides, NEW e \in entries',
         e \notin entries, e.key = ChargeKey(r)
  PROVE  \E h \in Procs: call'[h].ride = r /\ call'[h].at = "charging" /\ post'[h].at = "applied"
<1>0. RewardInv /\ Calls /\ Traffic
  BY TrafficNext DEF MoneyInv, RewardInv, WalletInv
<1>1. ~ UNCHANGED <<balance, entries, tx, strays>>
  OBVIOUS
<1>2. ASSUME NEW f \in Entry, PostInCallersTx(f), f.key[1] \in DirectKinds PROVE FALSE
  <2>1. e = f
    BY <1>2 DEF PostInCallersTx
  <2> QED
    BY <1>2, <2>1 DEF DirectKinds, ChargeKey
<1>3. ~ WalletCrash
  BY DEF WalletCrash
<1>4. PICK p \in Procs: (PostStep(p) \/ Stray(p)) /\ UNCHANGED rewardVars
  BY <1>0, <1>1, <1>2, <1>3 DEF Traffic, Sends, Returns, walletVars
<1>5. PostStep(p)
  BY <1>4 DEF Stray
<1>6. strays = 0 /\ post[p].at # "idle"
  BY <1>0, <1>5, PostStepEffect
<1>7. e = post[p].entry /\ post'[p].at = "applied"
  BY <1>0, <1>5, <1>6, CommitsOwn
<1>8. call[p].at = "charging" /\ call[p].ride = r
  BY <1>6, <1>7, ChargeSender
<1> QED
  BY <1>4, <1>7, <1>8 DEF rewardVars

\* A handler that was about to record the charge still is, or has.
LEMMA RecordsCharge ==
  ASSUME MoneyInv, ChargeInv, [Next]_vars, crashes' = 0, strays' = 0, strays = 0,
         NEW r \in Rides, NEW e \in entries, e.key = ChargeKey(r),
         NEW h \in Procs, call[h].ride = r, ToRecord(h)
  PROVE  \/ ride'[r].paid = -e.amount
         \/ call'[h].ride = r /\ (call'[h].at = "record" \/ (call'[h].at = "charging" /\ post'[h].at = "applied"))
<1>0. RewardInv /\ Acts(h) /\ ~ Crash
  BY HandlersAct, CrashesStay DEF MoneyInv
<1>1. CASE call'[h] = call[h]
  BY <1>1, PostStays DEF ToRecord, Waiting
<1>2. CASE ChargeRecord(h)
  <2>1. PICK f \in entries: f.key = ChargeKey(r) /\ f.amount = -call[h].amount
    BY <1>2 DEF ChargeRecord, ChargeInv, PayingInv, Charged
  <2>2. f = e
    BY <2>1 DEF MoneyInv, RewardInv, WalletInv, Keyed, Unique
  <2>3. ride'[r].paid = call[h].amount /\ call[h].amount \in Int
    BY <1>0, <1>2, PaidWritten, RewardsAssumption DEF RewardInv, Callers, CallType
  <2> QED
    BY <2>1, <2>2, <2>3
<1>3. CASE ChargeDone(h)
  <2>1. Step(h, "record")
    BY <1>3 DEF ChargeDone, ToRecord
  <2> QED
    BY <1>0, <2>1, StepTurn DEF CallAt
<1>4. CASE call'[h] # call[h] /\ ~ ChargeRecord(h) /\ ~ ChargeDone(h)
  BY <1>0, <1>4 DEF Acts, ToRecord, Working, RequestReadCredits, RequestCommit, RequestRollback, RequestMark,
     ChargeRead, AwardPost, AwardDone, CancelVoid, CancelRefund, CancelStamp, Posting, rewardVars
<1> QED
  BY <1>1, <1>2, <1>3, <1>4

LEMMA RecordedStep ==
  ASSUME MoneyInv, ChargeInv, [Next]_vars PROVE RecordedInv'
<1> SUFFICES ASSUME crashes' = 0, strays' = 0, NEW r \in Rides, NEW e \in entries', e.key = ChargeKey(r)
             PROVE  \/ ride'[r].paid = -e.amount
                    \/ \E h \in Procs: /\ call'[h].ride = r
                                       /\ \/ call'[h].at = "record"
                                          \/ call'[h].at = "charging" /\ post'[h].at = "applied"
  BY DEF RecordedInv, Undisturbed, ToRecord
<1>0. RewardInv /\ crashes = 0 /\ strays = 0
  BY CrashesStay, RowsCome DEF MoneyInv
<1>1. CASE e \notin entries
  BY <1>1, NewCharge
<1>2. CASE e \in entries
  <2>1. CASE \E h \in Procs: call[h].ride = r /\ ToRecord(h)
    BY <1>0, <1>2, <2>1, RecordsCharge
  <2>2. CASE ride[r].paid = -e.amount /\ ~ \E h \in Procs: call[h].ride = r /\ ToRecord(h)
    <3>1. ~ \E h \in Procs: call[h].ride = r /\ ChargeRecord(h)
      BY <2>2 DEF ChargeRecord, ToRecord
    <3>2. e \in Entry /\ Written(e)
      BY <1>0, <1>2 DEF RewardInv, WalletInv, DbType, Written
    <3>3. ride[r].status # "none"
      BY <3>2 DEF MoneyInv, TracedInv, Explained, ChargeKey
    <3> QED
      BY <2>2, <3>1, <3>3, PaidStays
  <2> QED
    BY <1>0, <1>2, <2>1, <2>2 DEF ChargeInv, RecordedInv, Undisturbed
<1> QED
  BY <1>1, <1>2

\* What the row says was taken, was; and all of it once the completion is through.
LEMMA PaymentIsOnRow ==
  ASSUME MoneyInv, ChargeInv PROVE PaymentOnRow
<1> SUFFICES ASSUME strays = 0, NEW r \in Rides
             PROVE  LET taken == Taken(RowsOf(ChargeKey(r))) IN
                    /\ ride[r].paid \in {0, taken}
                    /\ Undisturbed /\ ~ Busy(r) => ride[r].paid = taken
  BY DEF PaymentOnRow, RowsOf, ChargeKey
<1> DEFINE A == RowsOf(ChargeKey(r))
<1>0. RewardInv /\ TracedInv
  BY DEF MoneyInv
<1>1. PICK x: Part(A, x)
  BY <1>0, RowsPart
<1>2. \A e \in A: e \in entries /\ e.key = ChargeKey(r) /\ e.amount \in Int /\ Explained(e)
  BY <1>0, WalletAssumption DEF RewardInv, WalletInv, DbType, TracedInv, Written, Entry, RowsOf
<1>3. ride[r].paid \in Int
  BY <1>0, RewardsAssumption DEF RewardInv, RowTypes, RideType
<1>4. ride[r].paid # 0 => \E e \in A: e.amount = -ride[r].paid
  BY DEF ChargeInv, PaidInv, Charged, RowsOf
<1>6. Undisturbed /\ ~ Busy(r) => \A e \in A: ride[r].paid = -e.amount
  BY <1>2 DEF ChargeInv, RecordedInv, Busy, RideOfCall
<1> HIDE DEF A
<1>7. Taken(A) = x
  <2> DEFINE S == {}
  <2>1. Taken(S) = 0 /\ IsFiniteSet(S) /\ S \cap A = {} /\ S \cup A = A /\ \A e \in S \cup A: e.amount \in Int
    BY <1>2, TakenNone, FS_EmptySet
  <2>2. Taken(S) \in Int
    BY <2>1
  <2> HIDE DEF S
  <2>3. Taken(S \cup A) = Taken(S) + x /\ x \in Int
    BY <1>1, <2>1, <2>2, TakenPlus
  <2> QED
    BY <2>1, <2>3
<1>8. /\ ride[r].paid \in {0, x}
      /\ Undisturbed /\ ~ Busy(r) => ride[r].paid = x
  BY <1>1, <1>2, <1>3, <1>4, <1>6 DEF Part
<1> QED
  BY <1>7, <1>8 DEF A

LEMMA ChargeInit == Init => ChargeInv
<1> SUFFICES ASSUME Init PROVE ChargeInv
  OBVIOUS
<1>1. (\A r \in Rides: ride[r].paid = 0) /\ entries = {} /\ \A h \in Procs: call[h].at = "idle"
  BY DEF Init, WalletInit, NoRide, PastRide, Row, NoCall, Operation
<1> QED
  BY <1>1 DEF ChargeInv, PayingInv, PaidInv, RecordedInv, Paying

\* The wallet payment on the row of a ride was really taken, and once the
\* completion is through all that was taken is on the row.
THEOREM PaymentsAreOnRows == Spec => []PaymentOnRow
<1>1. MoneyInv /\ ChargeInv /\ RefundInv /\ Answered /\ [Next]_vars => (ChargeInv /\ RefundInv /\ Answered)'
  BY RefundStep, AnsweredStep, PayingStep, PaidStep, RecordedStep DEF ChargeInv
<1>2. MoneyInv /\ ChargeInv => PaymentOnRow
  BY PaymentIsOnRow
<1> QED
  BY <1>1, <1>2, MoneyAlways, RefundInit, ChargeInit, PTL DEF Spec

-----------------------------------------------------------------------------
(* Referrals: the rows are posted with the status of the relationship.      *)

RowsFollow(u) ==
  /\ RowOf(<<"referral", u>>) <=> (referral[u] = "REWARD_GRANTED")
  /\ RowOf(<<"referred-signup", u>>) => Pays /\ referral[u] # "none"
  /\ referral[u] = "REWARD_GRANTED" => Pays

ReferralInv ==
  \A u \in Riders:
    /\ RowsFollow(u)
    /\ referral[u] \in {"FIRST_RIDE_COMPLETED", "REWARD_GRANTED"} =>
         \E r \in Rides: RiderOf[r] = u /\ ride[r].status = "completed"

\* Nothing else posts rows of a referral.
LEMMA ReferralRowsStay ==
  ASSUME MoneyInv, [Next]_vars, ~ (\E r \in Rides: Task(r)), ~ (\E u \in Riders: ScanReferral(u)),
         NEW u \in Riders, NEW kind \in {"referral", "referred-signup"}
  PROVE  (\E e \in entries': e.key = <<kind, u>>) <=> RowOf(<<kind, u>>)
<1>0. RewardInv /\ TracedInv /\ (\A e \in entries: e \in entries') /\ Traffic
  BY RowsCome, TrafficNext DEF MoneyInv
<1> SUFFICES ASSUME NEW e \in entries', e.key = <<kind, u>> PROVE e \in entries
  BY <1>0 DEF RowOf
<1>1. e.key[1] \notin PostedKinds /\ e.key[1] # "ride-applied"
  BY DEF PostedKinds
<1>2. ASSUME NEW f \in Entry, PostInCallersTx(f), f.key[1] = "ride-applied" PROVE e \in entries
  BY <1>1, <1>2 DEF PostInCallersTx
<1>3. ASSUME NEW p \in Procs, PostStep(p) \/ Stray(p) PROVE e \in entries
  <2>1. e \in Entry
    <3>1. DbType'
      BY <1>0, RewardInvStep DEF RewardInv, WalletInv
    <3> QED
      BY <3>1 DEF DbType
  <2>2. Written(e) \/ e = post[p].entry
    BY <1>0, <1>3, <2>1, PostWrites DEF Written
  <2>3. post[p].at # "idle"
    BY <1>0, <1>3, PostWrites
  <2> QED
    BY <1>0, <1>1, <2>1, <2>2, <2>3 DEF TracedInv, Written, InPost
<1>4. WalletCrash => e \in entries
  BY DEF WalletCrash
<1> QED
  BY <1>0, <1>2, <1>3, <1>4 DEF Traffic, Sends, Returns, walletVars

\* A completed ride stays completed.
LEMMA FirstRideStays ==
  ASSUME MoneyInv, [Next]_vars, NEW u \in Riders, \E r \in Rides: RiderOf[r] = u /\ ride[r].status = "completed"
  PROVE  \E r \in Rides: RiderOf[r] = u /\ ride'[r].status = "completed"
  BY RidesGrow DEF MoneyInv, Grows

LEMMA ReferralStepTask ==
  ASSUME MoneyInv, ReferralInv, [Next]_vars, NEW r \in Rides, Task(r) PROVE ReferralInv'
<1>0. RewardInv /\ referral \in [Riders -> {"none", "LINKED", "FIRST_RIDE_PENDING", "FIRST_RIDE_COMPLETED",
                              "REWARD_GRANTED"}]
  BY DEF MoneyInv, RewardInv, RowTypes
<1>1. CASE UNCHANGED <<walletVars, referral>>
  <2>1. ASSUME NEW u \in Riders PROVE RowsFollow(u)'
    BY <1>1 DEF walletVars, ReferralInv, RowsFollow, RowOf
  <2>2. ASSUME NEW u \in Riders, referral'[u] \in {"FIRST_RIDE_COMPLETED", "REWARD_GRANTED"}
        PROVE  \E s \in Rides: RiderOf[s] = u /\ ride'[s].status = "completed"
    BY <1>1, <2>2, FirstRideStays DEF ReferralInv
  <2> QED
    BY <2>1, <2>2 DEF ReferralInv
<1>2. PICK u \in Riders: u = RiderOf[r]
  BY RewardsAssumption
<1>3. CASE ReferralReward(r) /\ ~ UNCHANGED <<walletVars, referral>>
  <2>0. ride' = ride
    BY <1>3 DEF ReferralReward
  <2>1. ride[r].status = "completed"
    BY <1>3 DEF ReferralReward, MoneyInv, LocalInv, StagesInv
  <2>2. Pays /\ referral[u] \in {"LINKED", "FIRST_RIDE_PENDING", "FIRST_RIDE_COMPLETED"}
    BY <1>2, <1>3 DEF ReferralReward
  <2>3. CASE referral' = [referral EXCEPT ![u] = "FIRST_RIDE_COMPLETED"] /\ UNCHANGED walletVars
    BY <1>0, <1>2, <2>0, <2>1, <2>2, <2>3 DEF walletVars, ReferralInv, RowsFollow, RowOf
  <2>4. ASSUME NEW e, e = [key |-> <<"referral", u>>, account |-> <<Referrer, "credits">>, amount |-> Bonus],
               PostInCallersTx(e), referral' = [referral EXCEPT ![u] = "REWARD_GRANTED"]
        PROVE  ReferralInv'
    <3>1. e.key = <<"referral", u>> /\ entries' = entries \cup {e}
      BY <2>4 DEF PostInCallersTx
    <3>2. \A v \in Riders: /\ (\E f \in entries': f.key = <<"referral", v>>) <=> (RowOf(<<"referral", v>>) \/ v = u)
                           /\ (\E f \in entries': f.key = <<"referred-signup", v>>) <=> RowOf(<<"referred-signup", v>>)
      BY <3>1 DEF RowOf
    <3>3. referral'[u] = "REWARD_GRANTED" /\ \A v \in Riders \ {u}: referral'[v] = referral[v]
      BY <1>0, <2>4
    <3>4. ASSUME NEW v \in Riders PROVE RowsFollow(v)'
      <4>1. RowsFollow(v)
        BY DEF ReferralInv
      <4>2. CASE v = u
        BY <2>2, <3>2, <3>3, <4>1, <4>2 DEF RowsFollow, RowOf
      <4>3. CASE v # u
        BY <3>2, <3>3, <4>1, <4>3 DEF RowsFollow, RowOf
      <4> QED
        BY <4>2, <4>3
    <3>5. \A v \in Riders: referral'[v] \in {"FIRST_RIDE_COMPLETED", "REWARD_GRANTED"} =>
            \E s \in Rides: RiderOf[s] = v /\ ride'[s].status = "completed"
      BY <1>0, <1>2, <2>0, <2>1, <3>3 DEF ReferralInv
    <3> QED
      BY <3>4, <3>5 DEF ReferralInv
  <2> QED
    BY <1>2, <1>3, <2>3, <2>4 DEF ReferralReward
<1> QED
  BY <1>1, <1>3 DEF Task, FinalizePromo, MatcherCancel

LEMMA ReferralStepScan ==
  ASSUME MoneyInv, ReferralInv, [Next]_vars, NEW u \in Riders, ScanReferral(u) PROVE ReferralInv'
<1>0. RewardInv /\ referral \in [Riders -> {"none", "LINKED", "FIRST_RIDE_PENDING", "FIRST_RIDE_COMPLETED",
                              "REWARD_GRANTED"}] /\ ride' = ride
  BY DEF MoneyInv, RewardInv, RowTypes, ScanReferral
<1>1. \/ UNCHANGED walletVars
      \/ Pays /\ \E e: /\ e = [key |-> <<"referred-signup", u>>, account |-> <<u, "credits">>, amount |-> Bonus]
                       /\ PostInCallersTx(e)
  BY DEF ScanReferral
<1>2. \/ entries' = entries
      \/ Pays /\ \E e: e.key = <<"referred-signup", u>> /\ entries' = entries \cup {e}
  BY <1>1 DEF PostInCallersTx, walletVars
<1>3. \A v \in Riders: /\ (\E f \in entries': f.key = <<"referred-signup", v>>)
                              => RowOf(<<"referred-signup", v>>) \/ (Pays /\ v = u)
                       /\ (\E f \in entries': f.key = <<"referral", v>>) <=> RowOf(<<"referral", v>>)
  BY <1>2 DEF RowOf
<1>4. referral[u] = "none" /\ referral'[u] = "LINKED" /\ \A v \in Riders \ {u}: referral'[v] = referral[v]
  BY <1>0 DEF ScanReferral
<1>5. ASSUME NEW v \in Riders PROVE RowsFollow(v)'
  <2>1. RowsFollow(v)
    BY DEF ReferralInv
  <2>2. CASE v = u
    BY <1>3, <1>4, <2>1, <2>2 DEF RowsFollow, RowOf
  <2>3. CASE v # u
    BY <1>3, <1>4, <2>1, <2>3 DEF RowsFollow, RowOf
  <2> QED
    BY <2>2, <2>3
<1>6. \A v \in Riders: referral'[v] \in {"FIRST_RIDE_COMPLETED", "REWARD_GRANTED"} =>
        \E s \in Rides: RiderOf[s] = v /\ ride'[s].status = "completed"
  BY <1>0, <1>4 DEF ReferralInv
<1> QED
  BY <1>5, <1>6 DEF ReferralInv

LEMMA ReferralStep ==
  ASSUME MoneyInv, ReferralInv, [Next]_vars PROVE ReferralInv'
<1>1. CASE \E r \in Rides: Task(r)
  BY <1>1, ReferralStepTask
<1>2. CASE \E u \in Riders: ScanReferral(u)
  BY <1>2, ReferralStepScan
<1>3. CASE ~ (\E r \in Rides: Task(r)) /\ ~ (\E u \in Riders: ScanReferral(u))
  <2>1. \A u \in Riders:
          /\ (\E e \in entries': e.key = <<"referral", u>>) <=> RowOf(<<"referral", u>>)
          /\ (\E e \in entries': e.key = <<"referred-signup", u>>) <=> RowOf(<<"referred-signup", u>>)
    BY <1>3, ReferralRowsStay
  <2>2. \A u \in Riders: referral'[u] = referral[u]
                         \/ (referral[u] = "LINKED" /\ referral'[u] = "FIRST_RIDE_PENDING")
    <3>1. ASSUME NEW h \in Procs, RequestMark(h)
          PROVE  \A u \in Riders: referral'[u] = referral[u]
                                  \/ (referral[u] = "LINKED" /\ referral'[u] = "FIRST_RIDE_PENDING")
      BY <3>1 DEF RequestMark, MoneyInv, RewardInv, RowTypes
    <3>2. ASSUME NEW h \in Procs, Working(h), ~ RequestMark(h) PROVE referral' = referral
      BY <3>2 DEF Working, RequestReadCredits, RequestCommit, RequestRollback, ChargeRead, ChargeDone, ChargeRecord,
         AwardPost, AwardDone, CancelVoid, CancelRefund, CancelStamp, Posting, rewardVars
    <3>3. CASE ~ \E h \in Procs: Working(h)
      <4>1. referral' = referral
        BY <1>3, <3>3 DEF Next, vars, rewardVars, RequestRide, CompleteRide, CancelRide, AdminGrant, Crash
      <4> QED
        BY <4>1
    <3> QED
      BY <3>1, <3>2, <3>3
  <2>3. ASSUME NEW u \in Riders PROVE RowsFollow(u)'
    <3>1. RowsFollow(u)
      BY DEF ReferralInv
    <3> QED
      BY <2>1, <2>2, <3>1 DEF RowsFollow, RowOf
  <2>4. \A u \in Riders: referral'[u] \in {"FIRST_RIDE_COMPLETED", "REWARD_GRANTED"} =>
          \E r \in Rides: RiderOf[r] = u /\ ride'[r].status = "completed"
    BY <2>2, FirstRideStays DEF ReferralInv
  <2> QED
    BY <2>3, <2>4 DEF ReferralInv
<1> QED
  BY <1>1, <1>2, <1>3

LEMMA ReferralInit == Init => ReferralInv
  BY DEF Init, WalletInit, ReferralInv, RowsFollow, RowOf

\* The referrer is paid once per referred rider, for one who joined with the
\* code and completed a ride, whatever interleaves.
THEOREM ReferrersPaidForFirstRides == Spec => []ReferrerPaidForFirstRide
<1>1. MoneyInv /\ ReferralInv /\ [Next]_vars => ReferralInv'
  BY ReferralStep
<1>2. ReferralInv => ReferrerPaidForFirstRide
  BY DEF ReferralInv, RowsFollow, ReferrerPaidForFirstRide, RowOf
<1> QED
  BY <1>1, <1>2, MoneyAlways, ReferralInit, PTL DEF Spec
=============================================================================
