---------------------------- MODULE MCCatalogPage ----------------------------
(* Bounded instances of CatalogPage for TLC. *)
EXTENDS CatalogPage, TLC

MCSystems == {<<10, 5, 8>>, <<10, 6, 2>>, <<10, 6, 8>>, <<10, 14, 6>>, <<10, 15, 0>>,
              <<11, 0, 0>>}

MCArchs == {{}, {"i386"}, {"i386", "x86_64"}, {"ppc", "i686"}, {"ppc-g4"}, {"ppc64"}}

MCBuild(min, max, hard, archs, rosetta) ==
    [min |-> min, maxSupported |-> max, maxTested |-> <<10, 6, 8>>,
     hardBlock |-> hard, archs |-> archs, rosetta |-> rosetta, java |-> FALSE]

MCBuilds ==
    {MCBuild(min, max, hard, archs, rosetta) :
        min \in {NoVersion, <<10, 6, 2>>, <<10, 6, 8>>},
        max \in {NoVersion, Unreadable, <<10, 6, 2>>, <<10, 14, 6>>},
        hard \in BOOLEAN, archs \in MCArchs, rosetta \in BOOLEAN}

MCVersionIds == {1, 2}
MCArtifacts == {1, 2, 3}
MCNumber == <<<<1, 0, 0>>, <<2, 0, 0>>>>
MCHome == <<1, 2, 2>>
\* The older version runs everywhere, the newer on some systems only.
MCRequires ==
    << MCBuild(NoVersion, NoVersion, FALSE, {"i386", "x86_64"}, FALSE),
       MCBuild(<<10, 6, 8>>, NoVersion, FALSE, {"i386"}, FALSE),
       MCBuild(NoVersion, <<10, 6, 2>>, TRUE, {"ppc-g4"}, FALSE) >>

MCFiles == {2, 3}

Symmetry == Permutations(Editors) \cup Permutations(Reviews)
=============================================================================
