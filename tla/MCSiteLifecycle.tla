-------------------------- MODULE MCSiteLifecycle --------------------------
(* Instances of SiteLifecycle for TLC: targets under one Coolify.           *)
EXTENDS SiteLifecycle

OneCoolify == [t \in Targets |-> "coolify"]
OnlyNone == {NoStack}
=============================================================================
