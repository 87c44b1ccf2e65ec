------------------------------ MODULE MCOAuth ------------------------------
(* Two replicas that share one grant, or one client's own tokens.          *)
EXTENDS OAuthRefresh

CONSTANTS h1, h2
=============================================================================
