---------------------------- MODULE MCLifecycle ----------------------------
(* Instances of Lifecycle for TLC. *)
EXTENDS Lifecycle

\* The consumer of email_requests calls smtp.SendMail, which takes no context.
EmailConsumer == {1}
NoConsumer == {}
=============================================================================
