------------------------------ MODULE RevHash -------------------------------
(***************************************************************************)
(* The hashes of revisions, which SWHIDs carry, as sequences of hex        *)
(* digits, and the prefix keys B0 indexes them by.  commit_id strings are  *)
(* sequences of digits too: their letter case is left out, both lookups    *)
(* being blind to it (to_ascii_lowercase; hex decoding of a SWHID).        *)
(***************************************************************************)
EXTENDS SwhGraph

CONSTANTS
  Hash,            \* revision -> digits of its hash
  HashLen,         \* digits of a full hash (40 in the code)
  PrefixNibbles    \* --prefix-nibbles

HexDigit == 0 .. 15

Revision == {n \in Node : NodeType[n] = "revision"}

ASSUME HashAssumption ==
  /\ HashLen \in Nat \ {0} /\ PrefixNibbles \in Nat
  /\ Hash \in [Revision -> Seq(HexDigit)]
  /\ \A r \in Revision : Len(Hash[r]) = HashLen
  /\ \A q, r \in Revision : Hash[q] = Hash[r] => q = r

\* At most the first m digits of s.
Take(s, m) == SubSeq(s, 1, IF m < Len(s) THEN m ELSE Len(s))

\* hash_prefix_hex: clamped to the hash's length.
HashPrefix(r) == Take(Hash[r], PrefixNibbles)

\* The revisions a key stands for.
Matching(key) == {r \in Revision : HashPrefix(r) = key}
=============================================================================
