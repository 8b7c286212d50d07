----------------------------- MODULE MC_HashMap -----------------------------
(* HashMap with two buckets. The keys are "a", "ac" and a letter of two-byte *)
(* UTF-8's first byte, negative as a char; all three fall into bucket 1, so  *)
(* chains grow to three nodes and bucket 0 stays empty.                      *)
EXTENDS HashMap

MC_Keys == {<<97>>, <<97, 99>>, <<-61>>}
MC_Word == 2^16
=============================================================================
