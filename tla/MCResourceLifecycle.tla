------------------------- MODULE MCResourceLifecycle -------------------------
(* Small instances of ResourceLifecycle for TLC.                           *)
EXTENDS ResourceLifecycle

MCEveryKind == Kind

\* migrations/core: fqdns, cron_jobs, daemons reference webroots; certificates
\* and email_accounts reference fqdns; aliases, forwards and autoreplies
\* reference email_accounts; all of them belong to a subscription.
MCParents == {"webroot", "fqdn", "email_account", "subscription"}
=============================================================================
