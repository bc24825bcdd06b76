---------------------------- MODULE MCReadPath -----------------------------
(* A small instance of ReadPath for TLC.                                    *)
EXTENDS ReadPath, MCBridgeRead, TLC

CONSTANTS pod, k1, k2

OnePod == k1 :> pod @@ k2 :> pod

\* Scores with the order of scoreLabel's: common words count more the larger their
\* share is, and a guess by edit distance stays below MinConfidence.
WordsOf(name) == {name[i] : i \in DOMAIN name}
ShareScore(a, b) ==
  IF a = b THEN 0
  ELSE (80 * Cardinality(WordsOf(a) \cap WordsOf(b)))
         \div Cardinality(WordsOf(a) \cup WordsOf(b))
EditScore(a, b) ==
  IF ShareScore(a, b) = 0 /\ Len(a) = Len(b) THEN 25 ELSE 0
=============================================================================
