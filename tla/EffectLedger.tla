----------------------------- MODULE EffectLedger -----------------------------
(***************************************************************************)
(* What the Mission runtime promises about an external effect, without     *)
(* rows, deliveries, mission states or crashes: every request to a module  *)
(* owner is paid for by an opened attempt; the answer to an effect is      *)
(* recorded once; only an effect its owner definitely did not perform is   *)
(* opened again, within its budget.  DispatchSeam implements this.         *)
(*                                                                         *)
(* An attempt that was opened and then withdrawn may still be sent: the    *)
(* code looks at a cancelled row at the handoff and does not stop.         *)
(***************************************************************************)
EXTENDS Naturals

CONSTANTS
  Effects,
  Budgets  \* numbers of attempts an effect may be given, none of them 0

VARIABLES
  budget,  \* attempts an effect may have; 0 while no capability is bound to it
  opened,  \* attempts opened so far
  sent,    \* requests the module owner received
  answer   \* what is recorded of the effect

ledgerVars == <<budget, opened, sent, answer>>

Answers == {"none", "performed", "not_performed", "rejected", "withdrawn"}

LedgerInit ==
  /\ budget = [e \in Effects |-> 0]
  /\ opened = [e \in Effects |-> 0]
  /\ sent   = [e \in Effects |-> 0]
  /\ answer = [e \in Effects |-> "none"]

Open(e) ==
  /\ opened[e] = 0
  /\ opened' = [opened EXCEPT ![e] = 1]
  /\ \E b \in Budgets : budget' = [budget EXCEPT ![e] = b]
  /\ UNCHANGED <<sent, answer>>

Send(e) ==
  /\ sent[e] < opened[e]
  /\ answer[e] \in {"none", "withdrawn"}
  /\ sent' = [sent EXCEPT ![e] = @ + 1]
  /\ UNCHANGED <<budget, opened, answer>>

(* A positive answer needs a request; a negative one may come before it.   *)
Settle(e, a) ==
  /\ answer[e] = "none" /\ opened[e] > 0
  /\ a = "performed" => sent[e] > 0
  /\ answer' = [answer EXCEPT ![e] = a]
  /\ UNCHANGED <<budget, opened, sent>>

(* The owner may reject what was recorded as not performed. *)
Reject(e) ==
  /\ answer[e] = "not_performed"
  /\ answer' = [answer EXCEPT ![e] = "rejected"]
  /\ UNCHANGED <<budget, opened, sent>>

Withdraw(W) ==
  /\ \A e \in W : answer[e] = "none" /\ opened[e] > 0
  /\ answer' = [e \in Effects |-> IF e \in W THEN "withdrawn" ELSE answer[e]]
  /\ UNCHANGED <<budget, opened, sent>>

Reopen(e) ==
  /\ answer[e] = "not_performed" /\ opened[e] < budget[e]
  /\ opened' = [opened EXCEPT ![e] = @ + 1]
  /\ answer' = [answer EXCEPT ![e] = "none"]
  /\ UNCHANGED <<budget, sent>>

LedgerNext ==
  \/ \E e \in Effects :
       \/ Open(e) \/ Send(e) \/ Reject(e) \/ Reopen(e)
       \/ \E a \in Answers \ {"none"} : Settle(e, a)
  \/ \E W \in SUBSET Effects : Withdraw(W)

LedgerSpec == LedgerInit /\ [][LedgerNext]_ledgerVars
=============================================================================
