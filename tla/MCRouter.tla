------------------------------ MODULE MCRouter ------------------------------
EXTENDS Router
CONSTANTS u1, u2
\* One server with two tokens, and one such server beside another.
OneUrl == <<u1, u1>>
TwoUrls == <<u1, u1, u2>>
=============================================================================
