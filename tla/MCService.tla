----------------------------- MODULE MCService ------------------------------
(***************************************************************************)
(* Two requests at a time of one client; settings with and without Redis,  *)
(* in and outside debug mode, with a strong key and a weak one.            *)
(***************************************************************************)
EXTENDS Service

With(k, d, red, tables, life) ==
    [secret_key |-> k, debug |-> d, redis |-> red, auto_create_tables |-> tables,
     lifetime |-> life]
MCConfigs ==
    {With("strong", FALSE, TRUE, FALSE, 1),
     With("weak", TRUE, FALSE, TRUE, 1), With("weak", FALSE, TRUE, FALSE, 1)}
=============================================================================
