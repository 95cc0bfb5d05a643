------------------------------- MODULE MCRedis -------------------------------
(* Small instances of the Redis backend. *)
EXTENDS RedisInvariant, TLC

CONSTANTS h1, h2, t1

MCHashes == {h1, h2}
MCTags == {t1}

\* A disc with one file, and one whose root (a directory) holds that file.
MCDiscs == {<<h1>>, <<h2, h1>>}

\* The same single file, scanned by everybody.
MCOneDisc == {<<h1>>}

\* Processes that run the same program are interchangeable.
MCSymmetry ==
  Permutations(Scanners) \cup Permutations(Taggers) \cup Permutations(Deleters)
=============================================================================
