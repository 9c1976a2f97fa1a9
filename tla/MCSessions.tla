------------------------------ MODULE MCSessions ------------------------------
(* Small instances of Sessions for TLC: users, browsers and request slots  *)
(* are model values.                                                       *)
EXTENDS Sessions, TLC

(* Request slots are interchangeable. *)
Symmetry == Permutations(Requests)
===============================================================================
