---------------------------- MODULE MCNavigation ----------------------------
EXTENDS Navigation
Doc(s, m, t) == [short |-> s, markup |-> m, title |-> t]
\* A clean page, one that only talks of blocking, an empty page, and a block
\* page of each kind, known by markup, title or both.
SomeDocs == {Doc(FALSE, {}, {}), Doc(FALSE, {"waf"}, {}), Doc(TRUE, {}, {}),
             Doc(FALSE, {"cloudflare"}, {"cloudflare"}), Doc(FALSE, {"akamai"}, {}),
             Doc(FALSE, {}, {"waf"})}
=============================================================================
