--------------------------- MODULE MCTimezoneCli ----------------------------
(* Instance of TimezoneCli: the default zone and one in a directory below. *)
EXTENDS TimezoneCli, TLC

CONSTANTS Paris, s1, s2

MCLower == [z \in Zones |-> IF z = UTC THEN "utc" ELSE "europe/paris"]
MCDirs  == [z \in Zones |-> {"posix"} \cup IF z = Paris THEN {"posix/Europe"} ELSE {}]

SessionSymmetry == Permutations(Sessions)
=============================================================================
