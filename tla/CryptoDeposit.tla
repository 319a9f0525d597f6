---------------------------- MODULE CryptoDeposit ---------------------------
(***************************************************************************)
(* Proofs of payment on an EVM chain (app/services/crypto_deposit_service.py *)
(* and app/services/evm_client.py).  A client presents a transaction hash    *)
(* and an amount; the service reads the receipt and, in a second call to the *)
(* node, the height of the chain, and credits the MASTER account once.       *)
(*                                                                         *)
(* The chain is external: it grows, mines transactions and reorganises its   *)
(* last blocks, fewer than MinConfirmations of them.  The ledger transaction *)
(* of a deposit has the key crypto-deposit:<hash>: TxKey is the set of hashes.*)
(***************************************************************************)
EXTENDS Ledger

CONSTANTS
  Hash,              \* transaction hashes, normalized
  Reverted,          \* those whose transaction fails when it is mined
  Paid,              \* what each transfers of our token to our address, or 0
  Request,           \* the HTTP requests
  MinConfirmations,  \* settings.EVM_MIN_CONFIRMATIONS
  MaxHeight,         \* bound: the height of the chain
  AutoCredit         \* settings.CRYPTO_DEPOSIT_AUTO_CREDIT

ASSUME DepositAssumption ==
  /\ TxKey = Hash /\ Reverted \subseteq Hash
  /\ Paid \in [Hash -> Amount \cup {0}]
  /\ MinConfirmations \in Nat \ {0} /\ MaxHeight \in Nat
  /\ AutoCredit \in BOOLEAN

VARIABLES
  height,    \* the number of the last block
  block,     \* the block each transaction is mined in, or 0
  deposit,   \* the CONFIRMED row of each hash, if any
  request,   \* the handlers; a REJECTED row is the "rejected" answer of one
  forked     \* history: the requests whose receipt a reorganisation took back
             \* before they read the height

depositVars == <<balance, pendingDebit, tx, height, block, deposit, request, forked>>
chain == <<height, block, forked>>

NoDeposit == [amount |-> 0, credited |-> FALSE, notified |-> FALSE]
Deposit == [amount : Amount, credited : BOOLEAN, notified : BOOLEAN]

Idle == [pc |-> "idle"]
Running == [pc : {"check", "receipt", "height", "record", "notify", "done"},
            hash : Hash, declared : Amount, block : 0 .. MaxHeight,
            result : {"none", "confirmed", "registered", "rejected", "error", "lost"}]

At(r, pc) == request[r].pc = pc
HashOf(r) == request[r].hash
Goto(r, pc) == request' = [request EXCEPT ![r].pc = pc]
Answer(r, result) == request' = [request EXCEPT ![r].pc = "done", ![r].result = result]

Confirmations(b) == height - b + 1
Mined(h) == block[h] # 0

\* Its receipt has a transfer of our token to our address.
PaysUs(h) == Paid[h] # 0

DepositInit ==
  /\ LedgerInit
  /\ height = 0
  /\ block = [h \in Hash |-> 0]
  /\ deposit = [h \in Hash |-> NoDeposit]
  /\ request = [r \in Request |-> Idle]
  /\ forked = {}

-----------------------------------------------------------------------------
(* The chain. *)

\* A block is added, with the transactions M in it.
Grow(M) ==
  /\ height < MaxHeight
  /\ \A h \in M : ~Mined(h)
  /\ height' = height + 1
  /\ block' = [h \in Hash |-> IF h \in M THEN height' ELSE block[h]]
  /\ UNCHANGED <<ledgerVars, deposit, request, forked>>

\* The last blocks are replaced by others without the transaction.  Nothing tells
\* the handlers that hold its receipt.
Reorganise(h) ==
  /\ Mined(h) /\ Confirmations(block[h]) < MinConfirmations
  /\ block' = [block EXCEPT ![h] = 0]
  /\ forked' = forked \cup {r \in Request : At(r, "height") /\ HashOf(r) = h}
  /\ UNCHANGED <<ledgerVars, height, deposit, request>>

-----------------------------------------------------------------------------
(* submit *)

Submit(r, h, declared) ==
  /\ At(r, "idle")
  /\ request' = [request EXCEPT ![r] = [pc |-> "check", hash |-> h, declared |-> declared,
                                        block |-> 0, result |-> "none"]]
  /\ UNCHANGED <<ledgerVars, chain, deposit>>

\* confirmed_exists: nothing is asked of the node for a hash already credited,
\* nor when the declared chain is another.
Check(r) ==
  /\ At(r, "check")
  /\ \/ deposit[HashOf(r)] # NoDeposit /\ Answer(r, "registered")
     \/ deposit[HashOf(r)] = NoDeposit /\ Goto(r, "receipt")
     \/ deposit[HashOf(r)] = NoDeposit /\ Answer(r, "rejected")
  /\ UNCHANGED <<ledgerVars, chain, deposit>>

\* eth_getTransactionReceipt: rejected when the node does not know it, when it
\* is not mined or when it reverted, or when the answer cannot be read.
GetReceipt(r) ==
  /\ At(r, "receipt")
  /\ \/ Answer(r, "rejected")
     \/ /\ Mined(HashOf(r)) /\ HashOf(r) \notin Reverted
        /\ request' = [request EXCEPT ![r].pc = "height", ![r].block = block[HashOf(r)]]
  /\ UNCHANGED <<ledgerVars, chain, deposit>>

AcceptableEarly(r) ==
  /\ Confirmations(request[r].block) >= MinConfirmations - 1
  /\ PaysUs(HashOf(r)) /\ request[r].declared = Paid[HashOf(r)]

\* Enough confirmations of the block in the receipt, a transfer to us, and the
\* declared amount.
Acceptable(r) ==
  /\ Confirmations(request[r].block) >= MinConfirmations
  /\ PaysUs(HashOf(r)) /\ request[r].declared = Paid[HashOf(r)]

\* eth_blockNumber, and the verification of what was read; a height that cannot
\* be read counts as no confirmation.
GetHeight(r) ==
  /\ At(r, "height")
  /\ \/ Acceptable(r) /\ Goto(r, "record")
     \/ Answer(r, "rejected")
  /\ UNCHANGED <<ledgerVars, chain, deposit>>

\* The node does not answer: an error, and no row.
NodeFails(r) ==
  /\ At(r, "receipt") \/ At(r, "height")
  /\ Answer(r, "error")
  /\ UNCHANGED <<ledgerVars, chain, deposit>>

NewDeposit(h) == [amount |-> Paid[h], credited |-> AutoCredit, notified |-> FALSE]

RecordThenCredit(r) ==
  LET h == HashOf(r)
  IN  /\ At(r, "record")
      /\ \/ /\ deposit[h] = NoDeposit
            /\ deposit' = [deposit EXCEPT ![h] = NewDeposit(h)]
            /\ UNCHANGED <<ledgerVars, request>>
         \/ /\ deposit[h] # NoDeposit /\ ~Exists(h)
            /\ FundMasterAccount(h, Paid[h])
            /\ Goto(r, "notify")
            /\ UNCHANGED deposit
         \/ /\ deposit[h] # NoDeposit /\ Exists(h)
            /\ Answer(r, "registered")
            /\ UNCHANGED <<ledgerVars, deposit>>
      /\ UNCHANGED chain

\* The CONFIRMED row and the credit, in one commit.  The unique index on the
\* hash of the confirmed rows makes the second of two requests fail.
Record(r) ==
  LET h == HashOf(r)
  IN  /\ At(r, "record")
      /\ \/ /\ deposit[h] = NoDeposit
            /\ deposit' = [deposit EXCEPT ![h] = NewDeposit(h)]
            /\ IF AutoCredit THEN FundMasterAccount(h, Paid[h]) ELSE UNCHANGED ledgerVars
            /\ Goto(r, "notify")
         \/ /\ deposit[h] # NoDeposit
            /\ Answer(r, "registered")
            /\ UNCHANGED <<ledgerVars, deposit>>
      /\ UNCHANGED chain

\* _notify_admins, after the commit: some e-mail leaves, or none does.
Notify(r) ==
  /\ At(r, "notify")
  /\ \E sent \in BOOLEAN : deposit' = [deposit EXCEPT ![HashOf(r)].notified = sent]
  /\ Answer(r, "confirmed")
  /\ UNCHANGED <<ledgerVars, chain>>

Abandon(r) ==
  /\ request[r].pc \notin {"idle", "done"}
  /\ Answer(r, "lost")
  /\ UNCHANGED <<ledgerVars, chain, deposit>>

Handle(r) == Check(r) \/ GetReceipt(r) \/ GetHeight(r) \/ NodeFails(r) \/ Record(r) \/ Notify(r)

Presented(r) == \E h \in Hash, a \in Amount : Submit(r, h, a)

DepositNext ==
  \/ \E M \in SUBSET Hash : Grow(M)
  \/ \E r \in Request :
       \/ Presented(r)
       \/ Handle(r) \/ Abandon(r)
  \/ \E h \in Hash : Reorganise(h)

DepositSpec == DepositInit /\ [][DepositNext]_depositVars

-----------------------------------------------------------------------------
(* Properties *)

\* Type correctness.
DepositTypeOK ==
  /\ LedgerTypeOK
  /\ height \in 0 .. MaxHeight /\ block \in [Hash -> 0 .. MaxHeight]
  /\ deposit \in [Hash -> Deposit \cup {NoDeposit}]
  /\ request \in [Request -> Running \cup {Idle}]
  /\ forked \subseteq Request

\* There is never a confirmed deposit without its ledger entry nor an entry
\* without its deposit, and the MASTER account has what the chain paid, once
\* per transaction, whoever presents it and however often.
CreditFollowsDeposit ==
  /\ \A h \in Hash : (deposit[h] # NoDeposit /\ deposit[h].credited) <=> Exists(h)
  /\ balance[MASTER] = Cardinality(UNION {{h} \X (1 .. Paid[h]) : h \in {g \in Hash : Exists(g)}})

\* On the chain, too deep for a reorganisation to take it back.
Final(h) == Mined(h) /\ Confirmations(block[h]) >= MinConfirmations

\* A request that got to its commit, or may have.
Committed(r) ==
  At(r, "notify") \/ (At(r, "done") /\ request[r].result \in {"confirmed", "lost"})

\* It did with a receipt that a reorganisation had taken back.
CreditedAcrossFork(h) == \E r \in forked : HashOf(r) = h /\ Committed(r)

\* Money that was credited was sent successfully and is final, whatever was
\* mined, reorganised, mined again, resubmitted or lost on the way, except where
\* a reorganisation fell between the two calls of the request that credited it.
FinalUnlessForked ==
  \A h \in Hash : deposit[h] # NoDeposit =>
    h \notin Reverted /\ (Final(h) \/ CreditedAcrossFork(h))
=============================================================================
