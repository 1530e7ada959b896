--------------------------- MODULE MCBrowserUpload ---------------------------
(* TLC instances of BrowserUpload. *)
EXTENDS BrowserUpload

=============================================================================
