------------------------------ MODULE Banking ------------------------------
(***************************************************************************)
(* inter/provider.go and inter/payout.go: one charge, one refund or one    *)
(* payout of a merchant at the bank, driven by callers whose requests and  *)
(* answers may be lost.                                                    *)
(*                                                                         *)
(* The bank (external) holds the truth: the charge `cob`, or the refund or *)
(* payout `order` of the reference, on which it deduplicates what is sent  *)
(* again.  A provider method is a few HTTP calls that end in a report to   *)
(* the caller.  A call takes effect at the bank or not, and is answered or *)
(* not, independently.  Callers repeat what failed, and several act at     *)
(* once.                                                                   *)
(***************************************************************************)
EXTENDS Naturals, FiniteSets

CONSTANTS Callers,  \* requests of the merchant in flight at a time
          Amounts   \* amounts a charge may be created with or changed to

VARIABLES kind,    \* what the reference names: "charge", "refund" or "payout"
          cob,     \* the bank's charge
          order,   \* the bank's refund or payout
          bcall    \* the method each caller is in, and what it returned

bkvars == <<kind, cob, order, bcall>>

RawStatuses == {"ATIVA", "CONCLUIDA", "REMOVIDA_PSP", "REMOVIDA_RECEBEDOR", "OUTRO"}
RawOrders == {"none", "EM_PROCESSAMENTO", "PAGO", "REJEITADO", "DEVOLVIDO", "NAO_REALIZADO", "OUTRO"}
Reports == {"none", "open", "paid", "expired", "removed", "done", "failed", "processing",
            "unknown", "nokey", "ok", "error"}

NoCharge == [status |-> "none", amount |-> 0, paid |-> FALSE]

(* inter/pix/types.go: the charge as the bank sends it *)
Cobv(status, amount, paid) == [status |-> status, amount |-> amount, paid |-> paid]

Unstarted == [step |-> "idle", report |-> "none"]

BankingInit ==
    /\ kind \in {"charge", "refund", "payout"}
    /\ cob = NoCharge
    /\ order = "none"
    /\ bcall = [c \in Callers |-> Unstarted]

Replies(c, report) ==
    bcall' = [bcall EXCEPT ![c] = [step |-> "idle", report |-> report]]

Idles(c) == bcall[c].step = "idle"

-----------------------------------------------------------------------------
(* Charges *)

(* Variant with a fault: a status the code does not know reads as removed. *)
ChargeOfGuess(v) ==
    IF v.paid THEN "paid"
    ELSE CASE v.status = "ATIVA" -> "open"
           [] v.status = "CONCLUIDA" -> "paid"
           [] v.status = "REMOVIDA_PSP" -> "expired"
           [] OTHER -> "removed"

(* chargeOf: an unknown status is an error, a payment makes it paid *)
ChargeOf(v) ==
    CASE v.status = "OUTRO" -> "error"
      [] v.status # "OUTRO" /\ (v.paid \/ v.status = "CONCLUIDA") -> "paid"
      [] v.status = "ATIVA" /\ ~v.paid -> "open"
      [] v.status = "REMOVIDA_PSP" /\ ~v.paid -> "expired"
      [] v.status = "REMOVIDA_RECEBEDOR" /\ ~v.paid -> "removed"

(* CreateDueCharge, first half: PUT, which the bank refuses for a reference
   it already has.  Any error, a lost answer included, leads to a read. *)
CreateDueCharge(c) ==
    /\ kind = "charge" /\ Idles(c)
    /\ \E amount \in Amounts, reached \in BOOLEAN, answered \in BOOLEAN :
          LET puts == reached /\ cob.status = "none"
          IN  /\ cob' = IF puts THEN Cobv("ATIVA", amount, FALSE) ELSE cob
              /\ IF puts /\ answered
                 THEN Replies(c, ChargeOf(cob'))
                 ELSE bcall' = [bcall EXCEPT ![c] = [step |-> "readback", report |-> "none"]]
    /\ UNCHANGED <<kind, order>>

(* CreateDueCharge, second half: GET of the reference that PUT failed on *)
ReadBack(c) ==
    /\ bcall[c].step = "readback"
    /\ \E answered \in BOOLEAN :
          Replies(c, IF answered /\ cob.status # "none" THEN ChargeOf(cob) ELSE "error")
    /\ UNCHANGED <<kind, cob, order>>

GetCharge(c) ==
    /\ kind = "charge" /\ Idles(c)
    /\ \E answered \in BOOLEAN :
          Replies(c, IF answered /\ cob.status # "none" THEN ChargeOf(cob) ELSE "error")
    /\ UNCHANGED <<kind, cob, order>>

(* UpdateCharge: PATCH of the amount; the bank changes only a live charge *)
UpdateCharge(c) ==
    /\ kind = "charge" /\ Idles(c)
    /\ \E amount \in Amounts, reached \in BOOLEAN, answered \in BOOLEAN :
          LET patches == reached /\ cob.status = "ATIVA" /\ ~cob.paid
          IN  /\ cob' = IF patches THEN Cobv("ATIVA", amount, FALSE) ELSE cob
              /\ Replies(c, IF patches /\ answered THEN ChargeOf(cob') ELSE "error")
    /\ UNCHANGED <<kind, order>>

(* CancelCharge: PATCH of the status alone *)
CancelCharge(c) ==
    /\ kind = "charge" /\ Idles(c)
    /\ \E reached \in BOOLEAN, answered \in BOOLEAN :
          LET removes == reached /\ cob.status = "ATIVA"
          IN  /\ cob' = IF removes THEN [cob EXCEPT !.status = "REMOVIDA_RECEBEDOR"] ELSE cob
              /\ Replies(c, IF removes /\ answered THEN "ok" ELSE "error")
    /\ UNCHANGED <<kind, order>>

(* External: the payer pays a live charge, the bank settles it, lets it
   expire, or shows for a while a status the code has never seen.  A payment
   is on the charge before the status follows. *)
BankActs ==
    /\ kind = "charge"
    /\ \/ cob.status = "ATIVA" /\ ~cob.paid /\ cob' = [cob EXCEPT !.paid = TRUE]
       \/ cob.status \in {"ATIVA", "OUTRO"} /\ cob.paid /\ cob' = [cob EXCEPT !.status = "CONCLUIDA"]
       \/ cob.status = "ATIVA" /\ cob' = [cob EXCEPT !.status = "REMOVIDA_PSP"]
       \/ cob.status = "ATIVA" /\ cob' = [cob EXCEPT !.status = "OUTRO"]
       \/ cob.status = "OUTRO" /\ cob' = [cob EXCEPT !.status = "ATIVA"]
    /\ UNCHANGED <<kind, order, bcall>>

-----------------------------------------------------------------------------
(* Refunds and payouts *)

(* payoutStatus: only what clearly means paid or refused is decisive *)
PayoutStatus(raw) ==
    CASE raw = "PAGO" -> "done"
      [] raw \in {"REJEITADO", "DEVOLVIDO", "NAO_REALIZADO"} -> "failed"
      [] raw = "EM_PROCESSAMENTO" -> "processing"
      [] OTHER -> "unknown"

(* refundOf: what is neither done nor failed is still processing *)
RefundOf(raw) ==
    CASE raw = "DEVOLVIDO" -> "done" [] raw = "NAO_REALIZADO" -> "failed" [] OTHER -> "processing"

(* The bank takes a request, and answers one it already has as it stands *)
Accepts(reached) == order' = IF reached /\ order = "none" THEN "EM_PROCESSAMENTO" ELSE order

(* Payout, sent under the caller's Ref: accepted is not settled.  A destination
   key that does not exist is ErrPixKeyNotFound, any other failure its error *)
Payout(c) ==
    /\ kind = "payout" /\ Idles(c)
    /\ \E reached \in BOOLEAN, answered \in BOOLEAN, found \in BOOLEAN :
          LET taken == found \/ order # "none"
          IN  /\ Accepts(reached /\ taken)
              /\ Replies(c, CASE reached /\ answered /\ taken -> "processing"
                              [] reached /\ answered /\ ~taken -> "nokey"
                              [] ~(reached /\ answered) -> "error")
    /\ UNCHANGED <<kind, cob>>

(* GetPayout, by a caller that has the id the bank accepted the payout under *)
GetPayout(c) ==
    /\ kind = "payout" /\ Idles(c)
    /\ \E answered \in BOOLEAN :
          Replies(c, IF answered /\ order # "none" THEN PayoutStatus(order) ELSE "error")
    /\ UNCHANGED <<kind, cob, order>>

(* Refund, under the caller's RefundID *)
Refund(c) ==
    /\ kind = "refund" /\ Idles(c)
    /\ \E reached \in BOOLEAN, answered \in BOOLEAN :
          /\ Accepts(reached)
          /\ Replies(c, IF reached /\ answered THEN RefundOf(order') ELSE "error")
    /\ UNCHANGED <<kind, cob>>

GetRefund(c) ==
    /\ kind = "refund" /\ Idles(c)
    /\ \E answered \in BOOLEAN :
          Replies(c, IF answered /\ order # "none" THEN RefundOf(order) ELSE "error")
    /\ UNCHANGED <<kind, cob, order>>

PaidRaw == IF kind = "payout" THEN "PAGO" ELSE "DEVOLVIDO"
NotDone == IF kind = "payout" THEN "REJEITADO" ELSE "NAO_REALIZADO"

(* External: the bank carries an order out, refuses it, shows a status the
   code has never seen; a payout that was paid may come back *)
BankSettles ==
    /\ \E raw \in RawOrders :
          /\ \/ order \in {"EM_PROCESSAMENTO", "OUTRO"} /\ raw \in {PaidRaw, NotDone}
             \/ order = "EM_PROCESSAMENTO" /\ raw = "OUTRO"
             \/ kind = "payout" /\ order = "PAGO" /\ raw = "DEVOLVIDO"
          /\ order' = raw
    /\ UNCHANGED <<kind, cob, bcall>>

BankingNext ==
    \/ \E c \in Callers :
          \/ CreateDueCharge(c) \/ ReadBack(c) \/ GetCharge(c) \/ UpdateCharge(c) \/ CancelCharge(c)
          \/ Payout(c) \/ GetPayout(c) \/ Refund(c) \/ GetRefund(c)
    \/ BankActs
    \/ BankSettles

BankingSpec == BankingInit /\ [][BankingNext]_bkvars

-----------------------------------------------------------------------------
(* Properties *)

(* A decisive report is true and stays so, whatever payment, removal, lost
   answer, repetition or unknown status came in between.  A charge reported
   paid was paid, and one reported expired or removed never will be (chargeOf:
   "a caller must not fail a live charge").  A refund reported done or failed
   is what the bank made of it for good; a payout reported failed moves no
   money any more, and one reported done was paid, though it may come back. *)
ReportsHold ==
    \A c \in Callers :
        LET report == bcall[c].report IN
        /\ report = "paid" => cob.paid
        /\ report \in {"expired", "removed"} =>
              cob.status \in {"REMOVIDA_PSP", "REMOVIDA_RECEBEDOR"} /\ ~cob.paid
        /\ kind = "refund" /\ report = "done" => order = "DEVOLVIDO"
        /\ kind = "refund" /\ report = "failed" => order = "NAO_REALIZADO"
        /\ kind = "payout" /\ report = "done" => order \in {"PAGO", "DEVOLVIDO"}
        /\ kind = "payout" /\ report = "failed" => order \in {"REJEITADO", "DEVOLVIDO"}
=============================================================================
