---------------------------- MODULE MCAllocation ----------------------------
\* AssemblyGenerator on every body of MaxTiles tiles and at most MaxInstructions
\* instructions; the brainless allocator gets those of at most MaxSpilled.
EXTENDS AssemblyGenerator, TileBodies

CONSTANTS MaxTiles, MaxInstructions, MaxSpilled

MCTemps  == {t1, t2, t3}
MCLabels == {LoopStart, Exception, Callee}
AllBodies == {b \in BodiesOf(MaxTiles) : Len(b) <= MaxInstructions}
MCBodies == AllBodies

MCInit ==
  /\ GeneratorInit
  /\ allocatorChoice = "brainless" => Len(body) <= MaxSpilled

MCSpec == MCInit /\ [][GeneratorNext]_generatorVars
=============================================================================
