------------------------------- MODULE Wallet -------------------------------
(***************************************************************************)
(* WalletService.post and CreditsService.post, statement by statement.     *)
(* Neither takes a client of its own when the caller passes none: BEGIN,   *)
(* INSERT, UPDATE and COMMIT each go to `pool.query`, which picks a        *)
(* connection per statement.  The pool hands the connection it got back    *)
(* last out first, so a call normally stays on one connection; a statement *)
(* may still land on another one when the pool is busy.  Such a statement  *)
(* is a Stray: it runs in whatever transaction is open over there, or      *)
(* commits by itself.                                                      *)
(***************************************************************************)
EXTENDS Integers, FiniteSets

CONSTANTS
  Procs,      \* calls in flight; each has the connection it normally uses
  Accounts,
  Keys,
  Amounts,
  None,       \* no entry
  Openings,   \* balances an account may start with
  MaxStrays   \* statements that land on another connection

ASSUME WalletAssumption ==
  /\ Amounts \subseteq Int \ {0}
  /\ Openings \subseteq Nat
  /\ MaxStrays \in Nat

VARIABLES
  balance,    \* balance_cents of the committed accounts
  entries,    \* committed ledger rows
  tx,         \* connection -> its open transaction
  post,       \* call -> the post it is executing
  strays      \* number of strays so far

walletVars == <<balance, entries, tx, post, strays>>

Entry == [key: Keys, account: Accounts, amount: Amounts]

\* A transaction: whether BEGIN was sent, the rows it inserted, what it added
\* to the accounts and the accounts whose rows it has locked.
Closed == [open |-> FALSE, rows |-> {}, delta |-> [a \in Accounts |-> 0], locked |-> {}]

Idle == [at |-> "idle", conn |-> None, entry |-> None]

PostAt == {"idle", "begin", "insert", "update", "commit", "duplicate", "refuse",
           "applied", "refused"}

WalletInit ==
  /\ balance \in [Accounts -> Openings]
  /\ entries = {}
  /\ tx = [c \in Procs |-> Closed]
  /\ post = [p \in Procs |-> Idle]
  /\ strays = 0

-----------------------------------------------------------------------------
(* What a statement on connection c sees and does. *)

\* READ COMMITTED: the committed rows and its own.
Visible(c) == entries \cup tx[c].rows
Known(c, key) == \E e \in Visible(c): e.key = key
Seen(c, account) == balance[account] + tx[c].delta[account]

\* A unique key another transaction has inserted, or an account row another
\* transaction has updated, is waited for.
KeyFree(c, key) == \A d \in Procs \ {c}: \A e \in tx[d].rows: e.key # key
RowFree(c, account) == \A d \in Procs \ {c}: account \notin tx[d].locked

InsertRow(c, e) ==
  IF tx[c].open
  THEN /\ tx' = [tx EXCEPT ![c].rows = @ \cup {e}]
       /\ UNCHANGED <<balance, entries>>
  ELSE /\ entries' = entries \cup {e}
       /\ UNCHANGED <<balance, tx>>

Added(t, e) ==
  [open |-> t.open, rows |-> t.rows,
   delta |-> [t.delta EXCEPT ![e.account] = @ + e.amount],
   locked |-> t.locked \cup {e.account}]

AddToAccount(c, e) ==
  IF tx[c].open
  THEN /\ tx' = [tx EXCEPT ![c] = Added(tx[c], e)]
       /\ UNCHANGED <<balance, entries>>
  ELSE /\ balance' = [balance EXCEPT ![e.account] = @ + e.amount]
       /\ UNCHANGED <<entries, tx>>

Commit(c) ==
  /\ balance' = [a \in Accounts |-> balance[a] + tx[c].delta[a]]
  /\ entries' = entries \cup tx[c].rows
  /\ tx' = [tx EXCEPT ![c] = Closed]

Rollback(c) ==
  /\ tx' = [tx EXCEPT ![c] = Closed]
  /\ UNCHANGED <<balance, entries>>

-----------------------------------------------------------------------------
(* The statements of one post. *)

Goto(p, at) == post' = [post EXCEPT ![p].at = at]

\* A caller calls post with entry e.
Call(p, e) == post' = [post EXCEPT ![p] = [at |-> "begin", conn |-> p, entry |-> e]]

\* The caller takes the result.
Return(p) == post' = [post EXCEPT ![p] = Idle]

\* Mutant of PostBegin: no BEGIN.
PostBeginNoTx(p) ==
  /\ post[p].at = "begin"
  /\ Goto(p, IF Known(post[p].conn, post[p].entry.key) THEN "applied" ELSE "insert")
  /\ UNCHANGED <<balance, entries, tx, strays>>

\* SELECT ... WHERE idempotency_key, where a key that is there already is an
\* earlier success of this very movement; then BEGIN, which is a warning inside
\* an open transaction.  What the SELECT saw is seen again by the INSERT, so
\* the two statements are one step.
PostBegin(p) ==
  LET c == post[p].conn IN
  /\ post[p].at = "begin"
  /\ \/ /\ Known(c, post[p].entry.key)
        /\ Goto(p, "applied")
        /\ UNCHANGED tx
     \/ /\ ~ Known(c, post[p].entry.key)
        /\ tx' = [tx EXCEPT ![c].open = TRUE]
        /\ Goto(p, "insert")
  /\ UNCHANGED <<balance, entries, strays>>

\* Mutant of PostInsert: no unique index on idempotency_key.
PostInsertAnyKey(p) ==
  /\ post[p].at = "insert"
  /\ InsertRow(post[p].conn, post[p].entry)
  /\ Goto(p, "update")
  /\ UNCHANGED strays

\* INSERT ... ON CONFLICT (idempotency_key) DO NOTHING.
PostInsert(p) ==
  LET c == post[p].conn
      e == post[p].entry IN
  /\ post[p].at = "insert"
  /\ KeyFree(c, e.key)
  /\ \/ /\ Known(c, e.key)
        /\ Goto(p, "duplicate")
        /\ UNCHANGED <<balance, entries, tx>>
     \/ /\ ~ Known(c, e.key)
        /\ InsertRow(c, e)
        /\ Goto(p, "update")
  /\ UNCHANGED strays

\* Mutant of PostUpdate: the debit is not guarded.
PostUpdateUnguarded(p) ==
  /\ post[p].at = "update"
  /\ RowFree(post[p].conn, post[p].entry.account)
  /\ AddToAccount(post[p].conn, post[p].entry)
  /\ Goto(p, "commit")
  /\ UNCHANGED strays

\* UPDATE ... WHERE balance_cents >= amount, for a debit; unguarded for a credit.
PostUpdate(p) ==
  LET c == post[p].conn
      e == post[p].entry IN
  /\ post[p].at = "update"
  /\ RowFree(c, e.account)
  /\ \/ /\ Seen(c, e.account) + e.amount < 0
        /\ Goto(p, "refuse")
        /\ UNCHANGED <<balance, entries, tx>>
     \/ /\ Seen(c, e.account) + e.amount >= 0
        /\ AddToAccount(c, e)
        /\ Goto(p, "commit")
  /\ UNCHANGED strays

\* COMMIT; outside a transaction it is a warning.
PostCommit(p) ==
  /\ post[p].at = "commit"
  /\ Commit(post[p].conn)
  /\ Goto(p, "applied")
  /\ UNCHANGED strays

\* ROLLBACK: the loser of a race for the key reports the winner's success, a
\* debit the account cannot pay is thrown.
PostRollback(p) ==
  /\ post[p].at \in {"duplicate", "refuse"}
  /\ Rollback(post[p].conn)
  /\ Goto(p, IF post[p].at = "duplicate" THEN "applied" ELSE "refused")
  /\ UNCHANGED strays

\* The pool gives the next statement of p another connection.
Stray(p) ==
  /\ strays < MaxStrays
  /\ post[p].at \notin {"idle", "applied", "refused"}
  /\ \E c \in Procs \ {post[p].conn}: post' = [post EXCEPT ![p].conn = c]
  /\ strays' = strays + 1
  /\ UNCHANGED <<balance, entries, tx>>

\* The process dies: the server rolls back whatever its connections had open.
WalletCrash ==
  /\ tx' = [c \in Procs |-> Closed]
  /\ post' = [p \in Procs |-> Idle]
  /\ UNCHANGED <<balance, entries, strays>>

PostStep(p) ==
  \/ PostBegin(p) \/ PostInsert(p) \/ PostUpdate(p)
  \/ PostCommit(p) \/ PostRollback(p)

-----------------------------------------------------------------------------
(* The service by itself: callers post any entry at any time, on a pooled  *)
(* connection, or on the client of a transaction of their own, where it    *)
(* takes effect with that transaction.                                     *)

CallAny(p) ==
  /\ post[p].at = "idle"
  /\ \E e \in Entry: Call(p, e)
  /\ UNCHANGED <<balance, entries, tx, strays>>

ReturnAny(p) ==
  /\ post[p].at \in {"applied", "refused"}
  /\ Return(p)
  /\ UNCHANGED <<balance, entries, tx, strays>>

\* CreditsService.post with opts.client: a savepoint in the caller's
\* transaction, which waits for the key and the account row and commits with
\* whatever else the caller wrote.
PostInCallersTx(e) ==
  /\ \A c \in Procs: (\A r \in tx[c].rows: r.key # e.key) /\ e.account \notin tx[c].locked
  /\ \A r \in entries: r.key # e.key
  /\ balance[e.account] + e.amount >= 0
  /\ balance' = [balance EXCEPT ![e.account] = @ + e.amount]
  /\ entries' = entries \cup {e}
  /\ UNCHANGED <<tx, post, strays>>

WalletNext ==
  \/ \E p \in Procs: CallAny(p) \/ ReturnAny(p) \/ PostStep(p) \/ Stray(p)
  \/ \E e \in Entry: PostInCallersTx(e)
  \/ WalletCrash

WalletSpec == WalletInit /\ [][WalletNext]_walletVars

-----------------------------------------------------------------------------
(* Properties. *)

TxType ==
  [open: BOOLEAN, rows: SUBSET Entry, delta: [Accounts -> Int], locked: SUBSET Accounts]

\* Every variable has its type.
WalletTypeOK ==
  /\ balance \in [Accounts -> Int]
  /\ entries \subseteq Entry
  /\ tx \in [Procs -> TxType]
  /\ post \in [Procs -> [at: PostAt, conn: Procs \cup {None}, entry: Entry \cup {None}]]
  /\ strays \in 0..MaxStrays

\* No account is overdrawn, whatever statements land on other connections: the
\* guarded UPDATE and the row lock hold per statement, without the transaction.
NoOverdraft == \A a \in Accounts: balance[a] >= 0

\* An idempotency key is posted at most once, in particular when two callers
\* race for it on connections that do not see each other's rows.
KeyPostedOnce == \A e, f \in entries: e.key = f.key => e = f

\* The ledger the service promises ("All writes are transactional and atomic",
\* wallet.service.ts:8): as long as every statement of a call stays on the
\* call's connection, balance and row appear together, once.
Book == INSTANCE Ledger WITH balance <- balance, entries <- entries

PostIsAtomic ==
  [][strays' = 0 => \E e \in entries' \ entries: Book!Post(e)]_<<balance, entries>>

=============================================================================
