-------------------------- MODULE MCBrowserClient ---------------------------
(* TLC instance of BrowserClient. *)
EXTENDS BrowserClient

=============================================================================
