----------------------------- MODULE FundingOtp -----------------------------
(***************************************************************************)
(* Funding of the MASTER account in two steps, with a code sent by e-mail    *)
(* (app/services/funding_otp_service.py).  The row of a request for funding  *)
(* has no lock: a handler reads it in one query and writes later the columns *)
(* it changed, so the handlers of one row overwrite each other.             *)
(*                                                                         *)
(* The ledger transaction of a funding has the key fund-otp-<id>, and its    *)
(* movement is written with it: TxKey is the set of requests for funding.   *)
(***************************************************************************)
EXTENDS Ledger

CONSTANTS
  Otp,          \* the requests for funding (rows of funding_otps)
  Request,      \* the HTTP requests that verify or resend
  MaxAttempts,  \* settings.OTP_MAX_ATTEMPTS
  MaxCodes      \* bound: the codes generated for one row

ASSUME OtpAssumption ==
  /\ TxKey = Otp
  /\ MaxAttempts \in Nat \ {0} /\ MaxCodes \in Nat \ {0}

VARIABLES
  otp,      \* the rows
  handler   \* the verifications and resends in progress

otpVars == <<balance, pendingDebit, tx, otp, handler>>

\* The hash of a code is the number of the code; 0 is a code nobody was sent.
Codes == 0 .. MaxCodes

NoOtp == [status |-> "NONE"]
FundingRow == [status : {"PENDING", "VERIFIED", "CANCELLED"}, attempts : 0 .. MaxAttempts,
               code : Codes \ {0}, expired : BOOLEAN, amount : Amount, movement : BOOLEAN]

Idle == [pc |-> "idle"]
Running == [pc : {"read", "check", "lookup", "insert", "confirm", "rewrite", "done"},
            op : {"verify", "resend"}, otp : Otp, code : Codes, seen : FundingRow \cup {NoOtp},
            result : {"none", "funded", "resent", "refused", "error", "lost"}]

At(r, pc) == handler[r].pc = pc
RowOf(r) == handler[r].otp
Seen(r) == handler[r].seen

Goto(r, pc) == handler' = [handler EXCEPT ![r].pc = pc]
Answer(r, result) == handler' = [handler EXCEPT ![r].pc = "done", ![r].result = result]

OtpInit ==
  /\ LedgerInit
  /\ otp = [o \in Otp |-> NoOtp]
  /\ handler = [r \in Request |-> Idle]

-----------------------------------------------------------------------------
\* request_funding: the row is committed before the e-mail leaves.
RequestFunding(o, a) ==
  /\ otp[o] = NoOtp
  /\ otp' = [otp EXCEPT ![o] = [status |-> "PENDING", attempts |-> 0, code |-> 1,
                                expired |-> FALSE, amount |-> a, movement |-> FALSE]]
  /\ UNCHANGED <<ledgerVars, handler>>

\* expires_at passes.
Expire(o) ==
  /\ otp[o] # NoOtp /\ ~otp[o].expired
  /\ otp' = [otp EXCEPT ![o].expired = TRUE]
  /\ UNCHANGED <<ledgerVars, handler>>

\* A client verifies a code, or asks for a new one.
Start(r, op, o, c) ==
  /\ At(r, "idle") /\ otp[o] # NoOtp
  /\ handler' = [handler EXCEPT ![r] = [pc |-> "read", op |-> op, otp |-> o, code |-> c,
                                        seen |-> NoOtp, result |-> "none"]]
  /\ UNCHANGED <<ledgerVars, otp>>

\* The row is read, and what can be answered from it alone is answered.
Read(r) ==
  LET row == otp[RowOf(r)]
      next == IF handler[r].op = "verify" THEN "check" ELSE "rewrite"
  IN  /\ At(r, "read")
      /\ \/ /\ row.status = "VERIFIED"
            /\ Answer(r, IF handler[r].op = "verify" THEN "funded" ELSE "refused")
         \/ /\ row.status = "CANCELLED" /\ handler[r].op = "verify"
            /\ Answer(r, "refused")
         \/ /\ row.status = "PENDING" \/ (row.status = "CANCELLED" /\ handler[r].op = "resend")
            /\ handler' = [handler EXCEPT ![r].pc = next, ![r].seen = row]
      /\ UNCHANGED <<ledgerVars, otp>>

\* The code had expired, or the attempts were used up, when the row was read.
VerifyCancel(r) ==
  /\ At(r, "check")
  /\ Seen(r).expired \/ Seen(r).attempts >= MaxAttempts
  /\ otp' = [otp EXCEPT ![RowOf(r)].status = "CANCELLED"]
  /\ Answer(r, "refused")
  /\ UNCHANGED ledgerVars

\* A wrong code: the counter that was read, plus one.
VerifyWrong(r) ==
  LET attempts == Seen(r).attempts + 1
  IN  /\ At(r, "check")
      /\ ~Seen(r).expired /\ Seen(r).attempts < MaxAttempts /\ handler[r].code # Seen(r).code
      /\ otp' = [otp EXCEPT ![RowOf(r)].attempts = attempts,
                            ![RowOf(r)].status = IF attempts >= MaxAttempts THEN "CANCELLED" ELSE @]
      /\ Answer(r, "refused")
      /\ UNCHANGED ledgerVars

VerifyRightConfirms(r) ==
  /\ At(r, "check")
  /\ ~Seen(r).expired /\ Seen(r).attempts < MaxAttempts /\ handler[r].code = Seen(r).code
  /\ otp' = [otp EXCEPT ![RowOf(r)].status = "VERIFIED", ![RowOf(r)].movement = TRUE]
  /\ Goto(r, "lookup")
  /\ UNCHANGED ledgerVars

\* The right code: fund_master_account is called.
VerifyRight(r) ==
  /\ At(r, "check")
  /\ ~Seen(r).expired /\ Seen(r).attempts < MaxAttempts /\ handler[r].code = Seen(r).code
  /\ Goto(r, "lookup")
  /\ UNCHANGED <<ledgerVars, otp>>

\* fund_master_account looks for the movement of the key ...
Lookup(r) ==
  /\ At(r, "lookup")
  /\ Goto(r, IF Exists(RowOf(r)) THEN "confirm" ELSE "insert")
  /\ UNCHANGED <<ledgerVars, otp>>

\* ... and commits movement and ledger entry, unless another handler has.
Insert(r) ==
  /\ At(r, "insert")
  /\ \/ /\ FundMasterAccount(RowOf(r), Seen(r).amount)
        /\ Goto(r, "confirm")
     \/ /\ Exists(RowOf(r))
        /\ Answer(r, "error")
        /\ UNCHANGED ledgerVars
  /\ UNCHANGED otp

\* The row is VERIFIED and knows its movement.
Confirm(r) ==
  /\ At(r, "confirm")
  /\ otp' = [otp EXCEPT ![RowOf(r)].status = "VERIFIED", ![RowOf(r)].movement = TRUE]
  /\ Answer(r, "funded")
  /\ UNCHANGED ledgerVars

\* resend_funding: a new code.  Only columns whose value differs from the one
\* that was read are written.
Resend(r) ==
  LET o == RowOf(r)
  IN  /\ At(r, "rewrite") /\ otp[o].code < MaxCodes
      /\ otp' = [otp EXCEPT ![o].code = @ + 1, ![o].expired = FALSE,
                            ![o].attempts = IF Seen(r).attempts = 0 THEN @ ELSE 0,
                            ![o].status = IF Seen(r).status = "PENDING" THEN @ ELSE "PENDING"]
      /\ Answer(r, "resent")
      /\ UNCHANGED ledgerVars

\* The handler dies between two steps.
Abandon(r) ==
  /\ handler[r].pc \notin {"idle", "done"}
  /\ Answer(r, "lost")
  /\ UNCHANGED <<ledgerVars, otp>>

OtpNext ==
  \/ \E o \in Otp : Expire(o) \/ \E a \in Amount : RequestFunding(o, a)
  \/ \E r \in Request :
       \/ \E o \in Otp, c \in Codes : Start(r, "verify", o, c)
       \/ \E o \in Otp : Start(r, "resend", o, 0)
       \/ Read(r) \/ VerifyCancel(r) \/ VerifyWrong(r) \/ VerifyRight(r)
       \/ Lookup(r) \/ Insert(r) \/ Confirm(r) \/ Resend(r) \/ Abandon(r)

OtpSpec == OtpInit /\ [][OtpNext]_otpVars

-----------------------------------------------------------------------------
(* Properties *)

\* Type correctness.
OtpTypeOK ==
  /\ LedgerTypeOK
  /\ otp \in [Otp -> FundingRow \cup {NoOtp}]
  /\ handler \in [Request -> Running \cup {Idle}]

Funded == {o \in Otp : Exists(o)}

\* One request for funding brings its money in once, with the amount that was
\* asked for: not when two verifications race, when one is retried after a
\* crash, nor when a new code is sent in between.
FundsOnce ==
  balance[MASTER] = Cardinality(UNION {{o} \X (1 .. otp[o].amount) : o \in Funded})

\* A row that is VERIFIED, and a verification that was answered as a success,
\* have their money in the MASTER account.
VerifiedIsFunded ==
  /\ \A o \in Otp : otp[o] # NoOtp /\ (otp[o].status = "VERIFIED" \/ otp[o].movement) =>
                      o \in Funded
  /\ \A r \in Request : At(r, "done") /\ handler[r].result = "funded" => RowOf(r) \in Funded
=============================================================================
