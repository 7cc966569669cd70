-------------------------- MODULE PaymentProvider ---------------------------
(***************************************************************************)
(* A payment intent at the provider, as backend/src/lib/paymentProvider.ts *)
(* presents the stub and Stripe to the rest of the program.  An intent is  *)
(*   "none"         not created, or created and not yet attached           *)
(*   "confirmable"  requires_confirmation or requires_payment_method       *)
(*   "pending"      requires_action, processing or requires_capture        *)
(*   "succeeded", "canceled"                                               *)
(*   "lost"         unknown to the provider (the stub after a restart)     *)
(***************************************************************************)

IntentStatus ==
    {"none", "confirmable", "pending", "succeeded", "canceled", "lost"}

\* intentToOutcome: how a caller is told the state of an intent; the mistake
\* is to count on a payment that is still being authorised.
OutcomeEager(status) ==
    IF status \in {"succeeded", "pending"} THEN "succeeded" ELSE "failed"
Outcome(status) ==
    CASE status = "succeeded" -> "succeeded"
      [] status = "pending" -> "pending"
      [] OTHER -> "failed"

(***************************************************************************)
(* confirmIntent: the state the provider moves to and its answer.  A card  *)
(* may be accepted, declined (the intent stays usable) or need its holder; *)
(* "refused" is a PaymentError that is not indeterminate, which Stripe     *)
(* also answers for an intent that is already resolved.                    *)
(***************************************************************************)
Confirmed(status) ==
    CASE status = "confirmable" ->
            {<<"succeeded", "succeeded">>, <<"pending", "pending">>,
             <<"confirmable", "failed">>, <<"confirmable", "refused">>}
      [] status \in {"succeeded", "pending", "canceled"} ->
            {<<status, Outcome(status)>>, <<status, "refused">>}
      [] OTHER -> {<<status, "refused">>}

\* The buyer finishes, or fails, the payment in the browser.
ConfirmedInBrowser(status) ==
    IF status \in {"confirmable", "pending"}
    THEN {"succeeded", "pending", "confirmable"} ELSE {status}

\* cancelIntent: a payment that already went through is left, silently.
Canceled(status) ==
    IF status \in {"confirmable", "pending"} THEN "canceled" ELSE status

\* The webhook events a change of state makes the provider send; a declined
\* attempt leaves the state as it was and is announced too.
Announced(from, to) ==
    CASE to = "succeeded" /\ from # to -> {"succeeded"}
      [] to = "canceled" /\ from # to -> {"failed"}
      [] OTHER -> {}
=============================================================================
