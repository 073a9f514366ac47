------------------------------ MODULE MCIndex ------------------------------
(* SemanticIndex over two texts that refer to one file each.  File 1 may be *)
(* changed, removed, created and changed back; file 2 stays as it is, so    *)
(* that the numbers of the files shift when file 1 comes or goes.           *)
EXTENDS SemanticIndex, TLC
CONSTANTS a, b, s1, s2
MCTexts == {a, b}
MCSymbolsOf == (a :> s1) @@ (b :> s2)
MCDepsOf == (a :> {2}) @@ (b :> {1})
MCInitial == {(1 :> a) @@ (2 :> b), (1 :> None) @@ (2 :> b)}
MCMaxTime == (1 :> 3) @@ (2 :> 1)
=============================================================================
