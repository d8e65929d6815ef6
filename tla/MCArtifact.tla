----------------------------- MODULE MCArtifact -----------------------------
EXTENDS Artifact
BaseDir == <<"base">>

\* Segments with a blank before or behind them, and what is left of them.
Bare == {"", ".", "..", "index.json", "a", "b", "t", "u", "1", "x"}
LeftOf == [s \in Bare \cup {" ..", "a "} |-> IF s = " .." THEN ".." ELSE s]
RightOf == [s \in Bare \cup {" ..", "a "} |-> IF s = "a " THEN "a" ELSE s]

\* Nested with a step up inside; leading out, absolute, empty, the root, and
\* leading out once trimmed.
Dirs == {<<"t", "..", "u", "1">>, <<"..">>, <<"", "t">>, <<"">>, <<"t", "..">>, <<" ..">>}
\* A file, another spelling of it that the trimming makes the same, one that
\* leads out, and one that leads out once trimmed: to where the directory of
\* the namespace is, so that a local store takes either this file or the rest.
Given == {<<"a">>, <<"b", "..", "", ".", "a ">>, <<"..", "a">>, <<" ..", "1">>}
Symmetry == Permutations(Writers) \cup Permutations(Contents)

\* Lexical is what cleanRef accepts, and a clean reference resolves to the same
\* place.
Short == UNION {[1 .. n -> {"", ".", "..", "a", "b"}] : n \in 1 .. 5}
ASSUME LegalIsLexical ==
    \A ref \in Short :
        /\ Legal(ref) <=> Lexical(ref)
        /\ Legal(ref) => /\ Legal(Clean(ref)) /\ Clean(Clean(ref)) = Clean(ref)
                         /\ Len(Clean(ref)) = Depth(ref, Len(ref))

\* The exception in KeysConfined is needed: cleanRef accepts " ../x", and what
\* BuildKey makes of it leads out of the namespace "u" (dir.go:206 says that
\* such references are refused).
ASSUME BlanksLeadOut ==
    LET ref == <<" ..", "x">> IN
    /\ Legal(<<"u">>) /\ Legal(ref)
    /\ Resolve(Part(Clean(<<"u">>)) \o Part(Clean(ref))) = BaseDir \o <<"x">>
=============================================================================
