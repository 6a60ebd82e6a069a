--------------------------- MODULE TransferRequest ---------------------------
(***************************************************************************)
(* The requests that WalletAccountRgbLightning.transfer() and              *)
(* sendTransaction() make of an order (wallet-account-rgb-lightning.js,    *)
(* wallet-account-read-only-rgb-lightning.js): which orders are refused,   *)
(* what an RGB invoice adds to them, at which rate they go out and which   *)
(* fee is quoted.  Fee rates are counted in tenths of a sat/vB.            *)
(***************************************************************************)
EXTENDS Integers

CONSTANTS
  Assets,     \* RGB contracts
  Amounts,    \* amounts that may be ordered
  Recipients  \* recipient ids an RGB invoice may carry

Unset == -1                     \* an option left out

OrderType ==
  [route : {"bolt11", "ln-pubkey", "btc-address", "rgb-invoice"},
   token : Assets \cup {"none"}, amount : Amounts \cup {"none"}, feeRate : Int,
   witnessData : {"none", "valid", "invalid"}]
\* What decodeRgbInvoice answers: nothing it says is trusted.
DecodedType ==
  [recipient : Recipients \cup {"none"}, asset : Assets \cup {"none"},
   endpoints : BOOLEAN, type : {"Witness", "Blinded"}]
-----------------------------------------------------------------------------
Lightning(o) == o.route \in {"bolt11", "ln-pubkey"}

\* Lightning is off on mainnet; only a BOLT11 invoice may carry the amount.
Refused(o, mainnet) ==
  (Lightning(o) /\ mainnet) \/ (o.amount = "none" /\ o.route # "bolt11")

\* _defaultFeeRate: an estimate that failed or makes no sense is 5 sat/vB.
DefaultFeeRate(estimate) == IF estimate > 0 THEN estimate ELSE 50

\* quoteSendTransaction: 141 vbytes, rounded up.
QuotedFee(rate) == (rate * 141 + 9) \div 10

ContractId(o, d) == IF o.token # "none" THEN o.token ELSE d.asset

Endpoints(d, proxy) == IF d.endpoints THEN "invoice" ELSE IF proxy THEN "proxy" ELSE "none"

\* An RGB invoice can be paid as ordered.
Deliverable(o, d, proxy) ==
  /\ d.recipient # "none" /\ ContractId(o, d) # "none" /\ Endpoints(d, proxy) # "none"
  /\ o.witnessData = IF d.type = "Witness" THEN "valid" ELSE "none"
-----------------------------------------------------------------------------
\* sendPayment and keysend; sendBtc, which knows no token; sendRgb.
LightningRequest(o) ==
  [to |-> "order", asset |-> o.token, amount |-> o.amount, rate |-> Unset,
   endpoints |-> "none", witness |-> FALSE]
BtcRequest(o, rate) ==
  [to |-> "order", asset |-> "none", amount |-> o.amount, rate |-> rate,
   endpoints |-> "none", witness |-> FALSE]
RgbRequest(o, d, rate, proxy) ==
  [to |-> d.recipient, asset |-> ContractId(o, d), amount |-> o.amount, rate |-> rate,
   endpoints |-> Endpoints(d, proxy), witness |-> d.type = "Witness"]
=============================================================================
