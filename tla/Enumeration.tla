---------------------------- MODULE Enumeration ----------------------------
(***************************************************************************)
(* A sequence that lists the members of a set of numbers in order, each    *)
(* once: what "nothing is lost, duplicated or reordered" comes to when the *)
(* things passed on are numbered.                                          *)
(***************************************************************************)
EXTENDS Naturals, Sequences

Enumerates(s, set) ==
  /\ {s[i] : i \in DOMAIN s} = set
  /\ \A i, j \in DOMAIN s : i < j => s[i] < s[j]
=============================================================================
