-------------------------- MODULE MCStudioAccount --------------------------
(* An instance of the accounts and of their store for TLC: cookie jars of one, *)
(* two and three entries, of which a set has room for two.                     *)
EXTENDS StudioAccount, TLC

CONSTANTS j1, j2, j3

Entries123 == [jar \in Jars \cup {NoJar} |->
  IF jar = j1 THEN 1 ELSE IF jar = j2 THEN 2 ELSE IF jar = j3 THEN 3 ELSE 0]
=============================================================================
