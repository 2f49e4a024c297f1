---------------------------- MODULE MCHttpRequestor ----------------------------
(* TLC instances of HttpRequestor. *)
EXTENDS HttpRequestor, TLC

CONSTANTS h1, h2

\* A host is asked with one scheme only.
OneScheme == (h1 :> {"http"}) @@ (h2 :> {"https"})
=============================================================================
